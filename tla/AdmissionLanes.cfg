SPECIFICATION FairSpec
CONSTANTS
  r1 = r1  r2 = r2
  c1 = c1  c2 = c2  b1 = b1  b2 = b2
  host = host  s1 = s1
  Request = {r1, r2}
  Client = {c1, c2}
  Body = {b1}
  Lane = {s1, host}
  HostLane = host
  LaneOf <- OneLane
  Kind <- AnswerAndManaged
  Safety = {r1}
  Size <- UnitSizes
  MaxPending = 2
  MaxBytes = 2
  SafetyBytes = 1
  MaxCrashes = 1
INVARIANTS OutcomeIsEvidence SafetyHeadroom
PROPERTIES AdmittedSettles CallersAnswered
