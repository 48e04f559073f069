SPECIFICATION Spec
CONSTANTS
  d1 = d1  d2 = d2  f1 = f1  f2 = f2
  Request = {d1, d2, f1, f2}
  Action <- MCAction
  Mode <- MCMode
  MaxFaults = 2
INVARIANTS ReleaseIsClean StopsForTheAsked
PROPERTIES BlockedStays StopEnds
CHECK_DEADLOCK FALSE
