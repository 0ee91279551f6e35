\* One candidate with one interview of one question, open in two browser tabs; one worker.
SPECIFICATION Spec
CONSTANTS
  None = None
  c1 = c1
  c2 = c2
  j1 = j1
  j2 = j2
  s1 = s1
  s2 = s2
  t1 = t1
  t2 = t2
  h1 = h1
  h2 = h2
  k1 = k1
  k2 = k2
  w1 = w1
  Candidates = {c1}
  Jobs = {j1}
  Sessions = {s1}
  Questions = {1}
  QuestionCounts = {1}
  Tabs = {t1, t2}
  Staff = {}
  Codes = {}
  Workers = {w1}
  HasNationalId = FALSE
  MaxJobEdits = 0
  MaxDecisions = 0
  MaxWaits = 0
  MaxFaults = 0
CHECK_DEADLOCK FALSE
INVARIANTS GradesWhatIsStored
