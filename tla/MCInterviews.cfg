\* One candidate, one interview of two questions, one browser tab and one worker; time and one fault.
SPECIFICATION FairSpec
CONSTANTS
  None = None
  c1 = c1
  c2 = c2
  j1 = j1
  j2 = j2
  s1 = s1
  s2 = s2
  t1 = t1
  t2 = t2
  h1 = h1
  h2 = h2
  k1 = k1
  k2 = k2
  w1 = w1
  Candidates = {c1}
  Jobs = {j1}
  Sessions = {s1}
  Questions = {1, 2}
  QuestionCounts = {0, 2}
  Tabs = {t1}
  Staff = {}
  Codes = {}
  Workers = {w1}
  HasNationalId = FALSE
  MaxJobEdits = 0
  MaxDecisions = 1
  MaxWaits = 2
  MaxFaults = 1
CHECK_DEADLOCK FALSE
PROPERTIES EvaluatedOnEvidence AnswersSettle CompletedSettles
