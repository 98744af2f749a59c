\* Two requests while one client takes a tunnel name over from another.
CONSTANTS
  c1 = c1
  c2 = c2
  Conn = {c1, c2}
  Name = {"app"}
  ReservedNames = {}
  AllowNames = {}
  Remotes = {"r1"}
  Remote <- MCRemote
  Admin = {}
  None = None
  Request = {"q1", "q2"}
  Credential = {"alice", "bob"}
  BasicAuth <- MCBasicAuth
  Bucket = 1
  LocalStatus = {200}
SPECIFICATION RelayFairSpec
INVARIANTS
  ForwardedAuthorized
  StatsConsistent
PROPERTIES
  FinalStats
  RequestAnswered
CHECK_DEADLOCK FALSE
