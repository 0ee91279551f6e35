\* One employee with a night shift whose grace reaches the date before, one device, two sessions and codes, a websocket, one request at a time, two edits.
SPECIFICATION Spec
CONSTANTS
  None = None
  e1 = e1
  e2 = e2
  d1 = d1
  d2 = d2
  s1 = s1
  r1 = r1
  r2 = r2
  Employees = {e1}
  Devices = {d1}
  Sessions = {1, 2}
  Challenges = {1, 2}
  Sockets = {s1}
  Requests = {r1}
  Modes = {"enforce"}
  MaxAttempts = 1
  DayLength = 2
  Days = {0, 1}
  Shapes <- Nights
  Rosters <- NightRoster
  SessionLength = 2
  CodeLength = 1
  MaxEdits = 2
CHECK_DEADLOCK FALSE
INVARIANTS OneLiveSession CodesWorkOnce GateFollowsRoster
PROPERTIES SocketsFollowPolicy
