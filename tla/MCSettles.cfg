\* Two download workers: every claimed record is settled, by one worker at a time and in a
\* bounded number of attempts, while no worker dies.
SPECIFICATION FairSpec
CONSTANTS
  None = None
  r1 = r1
  r2 = r2
  k1 = k1
  k2 = k2
  d1 = d1
  d2 = d2
  i1 = i1
  i2 = i2
  wav1 = wav1
  wav2 = wav2
  Rows = {r1}
  Keys = {k1}
  BaseNames = {wav1}
  KeyOf <- OneRow
  BaseOf <- OneName
  Downloaders = {d1, d2}
  Inspectors = {i1}
  MaxRuns = 3
  AutomaticRetries = 1
  Concurrency = 2
  Enabled = TRUE
  ManualRetry = FALSE
  Reconciling = FALSE
  BrokerMayFail = TRUE
  MaxCrashes = 0
  MaxLosses = 0
CHECK_DEADLOCK FALSE
INVARIANTS RetriesAreBounded RecordsApart
PROPERTIES RecordsSettle
