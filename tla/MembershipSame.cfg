CONSTANTS
  Node = {1, 2, 3}
  Shard = {0, 1}
  Peers <- MCPeers
  Members = {1}
  Operator = {p}
  NoLeader = NoLeader
  None = None
  MaxCalls = 1
  MaxElections = 0
SPECIFICATION Spec
INVARIANTS
  SameMembership
CHECK_DEADLOCK FALSE
