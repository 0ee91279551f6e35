\* Several runs on two download workers, and two threads on recordings of one file name, with
\* retries, a reconciler and a failing broker.
SPECIFICATION Spec
CONSTANTS
  None = None
  r1 = r1
  r2 = r2
  k1 = k1
  k2 = k2
  d1 = d1
  d2 = d2
  i1 = i1
  i2 = i2
  wav1 = wav1
  wav2 = wav2
  Rows = {r1, r2}
  Keys = {k1, k2}
  BaseNames = {wav1}
  KeyOf <- KeyPerRow
  BaseOf <- SameName
  Downloaders = {d1, d2}
  Inspectors = {i1, i2}
  MaxRuns = 3
  AutomaticRetries = 1
  Concurrency = 2
  Enabled = TRUE
  ManualRetry = TRUE
  Reconciling = TRUE
  BrokerMayFail = TRUE
  MaxCrashes = 0
  MaxLosses = 0
SYMMETRY WorkerSymmetry
CONSTRAINT RunsOrRecordings
CHECK_DEADLOCK FALSE
INVARIANTS OneActiveRun OneWorkerProcesses
