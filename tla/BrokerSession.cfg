SPECIFICATION FairSpec
CONSTANTS
  q1 = q1  q2 = q2  q3 = q3  c1 = c1  c2 = c2  s1 = s1
  host = host  platform = platform  none = none
  Question = {q1, q2}
  Client = {c1}
  Session = {s1}
  Host = host
  NoClient = none
  Platform = platform
  ScopeOf <- InSession
  Entitled <- Everybody
  Recipient <- Nobody
  Remote = {q2}
  Deferrable = {q1, q2}
  Timed = {q1}
  Transient = {}
  Holds = TRUE
  HostRecovers = TRUE
  MaxCrashes = 2
INVARIANTS AskerAgrees Serialized
PROPERTIES TimedWaitEnds ImplementsQuestions
