SPECIFICATION FairSpec
CONSTANTS
  e1 = e1  e2 = e2  e3 = e3  root = root
  Execution = {e1, e2}
  Root = root
  Concurrency = 1
  MaxDepth = 2
  Notify = {}
  Holds = {}
  CloseUntold = FALSE
  Interrupts = TRUE
  Continued = {e1}
  MaxTurns = 1
  MaxTroubles = 1
PROPERTY
  CloseSettles
CHECK_DEADLOCK FALSE
