\* One worker takes calls of all sources, with repeated messages, recoveries and faults.
SPECIFICATION FairSpec
CONSTANTS
  None = None
  c1 = c1
  c2 = c2
  w1 = w1
  w2 = w2
  Calls = {c1, c2}
  Ingested = {c1}
  Workers = {w1}
  MaxResubmissions = 1
  MaxRecoveries = 1
  MaxFaults = 1
CHECK_DEADLOCK FALSE
INVARIANTS EvaluationIsWhole RestingCallsAreTold
PROPERTIES CallsSettle
