SPECIFICATION FairSpec
CONSTANTS
  e1 = e1  e2 = e2  e3 = e3  root = root
  Execution = {e1, e2}
  Root = root
  Concurrency = 1
  MaxDepth = 2
  Notify = {e1}
  Holds = {"cancel", "reload", "copy", "drain"}
  CloseUntold = FALSE
  Interrupts = FALSE
  Continued = {e1}
  MaxTurns = 2
  MaxTroubles = 1
INVARIANTS SlotsAreReal SilencedStaysUntold
PROPERTIES ClosedIsQuiet ImplementsTasks QueuedStarts NoticeArrives CloseSettles
CHECK_DEADLOCK FALSE
