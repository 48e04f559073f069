SPECIFICATION Spec
CONSTANTS
  PageSize = 2
  Capacity = 2
  EarlySize = 1
  Unfit = {2}
  MaxChanges = 3
  MaxChoices = 1
  MaxFaults = 1
  MaxPowerLosses = 1
INVARIANTS Agreement  WebShowsTheSession
PROPERTIES PromiseKept Drains
CHECK_DEADLOCK FALSE
