\* Two sheet rows with one source key, retried by beat and by an operator through one worker.
SPECIFICATION Spec
CONSTANTS
  None = None
  r1 = r1
  r2 = r2
  k1 = k1
  k2 = k2
  d1 = d1
  d2 = d2
  i1 = i1
  i2 = i2
  wav1 = wav1
  wav2 = wav2
  Rows = {r1, r2}
  Keys = {k1}
  BaseNames = {wav1}
  KeyOf <- SameKey
  BaseOf <- OneName
  Downloaders = {d1}
  Inspectors = {i1, i2}
  MaxRuns = 3
  AutomaticRetries = 1
  Concurrency = 2
  Enabled = TRUE
  ManualRetry = TRUE
  Reconciling = FALSE
  BrokerMayFail = TRUE
  MaxCrashes = 1
  MaxLosses = 1
SYMMETRY WorkerSymmetry
CHECK_DEADLOCK FALSE
INVARIANTS QueuedAtMostOnce HandoffStaysRecoverable
PROPERTIES VerdictsAreFinal
