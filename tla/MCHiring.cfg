\* Two applications of one person for two jobs, two HR requests that convert at once.
SPECIFICATION Spec
CONSTANTS
  None = None
  c1 = c1
  c2 = c2
  j1 = j1
  j2 = j2
  s1 = s1
  s2 = s2
  t1 = t1
  t2 = t2
  h1 = h1
  h2 = h2
  k1 = k1
  k2 = k2
  w1 = w1
  Candidates = {c1, c2}
  Jobs = {j1, j2}
  Sessions = {s1}
  Questions = {1}
  QuestionCounts = {1}
  Tabs = {}
  Staff = {h1, h2}
  Codes = {k1, k2}
  Workers = {}
  HasNationalId = TRUE
  MaxJobEdits = 1
  MaxDecisions = 3
  MaxWaits = 1
  MaxFaults = 0
SYMMETRY Symmetry
CHECK_DEADLOCK FALSE
INVARIANTS OneRowPerJob OneEmployeePerPerson
