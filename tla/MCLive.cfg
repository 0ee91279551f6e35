\* One session, three connections, three packets and a stream of two, two faults.
SPECIFICATION Spec
CONSTANTS
  None = None
  Connections = {1, 2, 3}
  StreamLimit = 2
  MaxChunks = 3
  MaxFaults = 2
CHECK_DEADLOCK FALSE
INVARIANTS OneCallIsEvaluated QuietSessionsAreWhole
PROPERTIES AbandonedSessionsEnd PublishedCallsSettle
