SPECIFICATION Spec
CONSTANTS
  q1 = q1  q2 = q2  q3 = q3  c1 = c1  c2 = c2  s1 = s1
  host = host  platform = platform  none = none
  Question = {q1, q2, q3}
  Client = {c1, c2}
  Session = {s1}
  Host = host
  NoClient = none
  Platform = platform
  ScopeOf <- PromptScopes
  Entitled <- Everybody
  Recipient <- PromptRecipients
  Remote = {q1}
  Deferrable = {}
  Timed = {q1, q2}
  Transient = {q2}
  Holds = FALSE
  HostRecovers = FALSE
  MaxCrashes = 1
INVARIANT NobodyWaitsInVain
