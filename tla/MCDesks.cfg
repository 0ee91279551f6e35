\* Administration, teams, notes, onboarding, violations, documents and the written test, one at a time.
SPECIFICATION Spec
CONSTANTS
  NoOne = NoOne
  Staff = {a, h, l}
  FirstAdmin = a
  Teams = {t1, t2}
  NoTeam = NoTeam
  Agents = {a1, a2}
  Squads = {q1, q2, q3}
  OpenSquads = {q1, q2}
  Managers = {m1, m2}
  Administrator = Administrator
  Campaigns = {c1, c2}
  MaxRequests = 3
  MaxThresholds = 3
  Nobody = Nobody
  boss = boss
  qa = qa
  tm = tm
  rep = rep
  Admins = {boss}
  Reviewers = {qa}
  Leads = {tm}
  Reps = {rep}
  LedReps = {rep}
  Messages <- MCMessages
  MaxNotes = 2
  Claims = {x, y, z}
  BatchSize = 2
  Newcomers = 1
  Idle = Idle
  k1 = k1
  k2 = k2
  Kinds = {k1, k2}
  FlagTiers <- MCFlagTiers
  Workers = {w1, w2}
  CallIds = {x1, x2}
  MaxListed = 2
  NoDoc = NoDoc
  Docs = {o1, o2, d1, d2}
  OldDocs = {o1, o2}
  Paths = {p1, p2, p3, p4}
  MaxDeaths = 2
  NoTest = NoTest
  GivenIds = {0, 1, 2}
  MaxQuestions = 2
  MaxEdits = 2
CHECK_DEADLOCK FALSE
INVARIANTS SomebodyManages LeadershipFollowsRole TransfersAreAChain OneThresholdInForce OnlyAdminsReviveDeleted  NoneCountedAbove OccurrencesCountUp DocumentsReadable ReviewShowsWhatWasGraded
