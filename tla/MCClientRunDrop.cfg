\* Two attempts of a client that is alone, with a valid token.
CONSTANTS
  m1 = m1
  m2 = m2
  s1 = s1
  e1 = e1
  Conn = {m1, m2}
  Mine = {m1, m2}
  Elsewhere = {}
  ClientName = "app"
  TokenAccepted = TRUE
  ControlTLS = FALSE
  Name = {"app"}
  ReservedNames = {}
  AllowNames = {}
  Remotes = {"r1", "r2"}
  Remote <- MCRemote
  Admin = {}
  None = None
SPECIFICATION ClientSpec
INVARIANT ReconnectsAfterDrop
CHECK_DEADLOCK FALSE
