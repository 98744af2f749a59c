\* Two connections of the client to the relay and any number to something
\* else, and a stranger who may want its name or one refused to everybody.
CONSTANTS
  m1 = m1
  m2 = m2
  s1 = s1
  e1 = e1
  Conn = {m1, m2, s1}
  Mine = {m1, m2}
  Elsewhere = {e1}
  ClientName = "app"
  TokenAccepted = TRUE
  ControlTLS = TRUE
  Name = {"app", "www"}
  ReservedNames = {"www"}
  AllowNames = {}
  Remotes = {"r1", "r2"}
  Remote <- MCRemote
  Admin = {}
  None = None
SPECIFICATION ClientFairSpec
INVARIANTS
  AttemptInv
  ConnectedIsGranted
PROPERTIES
  LeftNameFreed
  AttemptEnds
  ConnectedBecomesRouted
CHECK_DEADLOCK FALSE
