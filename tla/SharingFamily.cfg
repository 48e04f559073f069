SPECIFICATION Spec
CONSTANTS
  root = root
  child = child
  h1 = h1
  h2 = h2
  FirstHost = h1
  Root = root
  Sessions <- MCSessions
  Hosts <- MCHosts
  MaxChoices = 2
  MaxFaults = 1
INVARIANTS  SentIsRemembered 
PROPERTY OffIsTold
CHECK_DEADLOCK FALSE
