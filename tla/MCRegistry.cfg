\* Three connections that compete for one name, one administrator call.
CONSTANTS
  c1 = c1
  c2 = c2
  c3 = c3
  Conn = {c1, c2, c3}
  Name = {"app"}
  ReservedNames = {}
  AllowNames = {"app"}
  Remotes <- MCRemotes
  Remote <- MCRemote
  Admin = {"a1"}
  None = None
SPECIFICATION FairSpec
INVARIANTS
  SingleOwner
  RegistryInv
PROPERTIES
  LeaseSpec
  HandshakeEnds
  NameFreed
CHECK_DEADLOCK FALSE
