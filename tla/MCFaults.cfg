\* A worker dies anywhere, a message is lost, and interrupted handoffs are reconciled.
SPECIFICATION Spec
CONSTANTS
  None = None
  r1 = r1
  r2 = r2
  k1 = k1
  k2 = k2
  d1 = d1
  d2 = d2
  i1 = i1
  i2 = i2
  wav1 = wav1
  wav2 = wav2
  Rows = {r1, r2}
  Keys = {k1, k2}
  BaseNames = {wav1}
  KeyOf <- KeyPerRow
  BaseOf <- SameName
  Downloaders = {d1}
  Inspectors = {i1, i2}
  MaxRuns = 2
  AutomaticRetries = 1
  Concurrency = 1
  Enabled = TRUE
  ManualRetry = FALSE
  Reconciling = TRUE
  BrokerMayFail = FALSE
  MaxCrashes = 1
  MaxLosses = 1
SYMMETRY WorkerSymmetry
CHECK_DEADLOCK FALSE
INVARIANTS TypeOK InspectionGate OneCallWithItsAudio RunOutlivesItsWorker
PROPERTIES ImplementsHandoff RunsCloseOnce
