SPECIFICATION Spec
CONSTANTS
  r1 = r1  r2 = r2
  c1 = c1  c2 = c2  b1 = b1  b2 = b2
  host = host  s1 = s1
  Request = {r1, r2}
  Client = {c1, c2}
  Body = {b1, b2}
  Lane = {s1, host}
  HostLane = host
  LaneOf <- OneLane
  Kind <- CommandAndDelete
  Safety = {}
  Size <- UnitSizes
  MaxPending = 3
  MaxBytes = 4
  SafetyBytes = 1
  MaxCrashes = 1
SYMMETRY CallerSymmetry
PROPERTIES LaneOrder ImplementsCommands
