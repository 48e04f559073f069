SPECIFICATION FairSpec
CONSTANTS
  t1 = t1  t2 = t2  a1 = a1  a2 = a2  nobody = nobody
  Client = {t1}
  Acp = {}
  NoClient = nobody
  FrameLimit = 3
  ByteLimit = 4
  Kinds = {"plain", "completed", "lost", "silent"}
  MaxEvents = 3
  MaxText = 2
  MaxAttach = 2
INVARIANT PipelineIsCurrent
PROPERTIES ImplementsFeed CatchesUp
CHECK_DEADLOCK FALSE
