SPECIFICATION Spec
CONSTANTS
  t1 = t1  t2 = t2  a1 = a1  a2 = a2  nobody = nobody
  Client = {t1, a1}
  Acp = {a1}
  NoClient = nobody
  FrameLimit = 3
  ByteLimit = 4
  Kinds = {"plain", "silent"}
  MaxEvents = 4
  MaxText = 0
  MaxAttach = 1
INVARIANT PipelineIsCurrent
PROPERTY OverflowIsPrivate
CHECK_DEADLOCK FALSE
