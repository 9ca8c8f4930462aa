CONSTANTS
  Node = {1, 2, 3}
  Shard = {0, 1}
  Peers <- MCPeers
  Members = {1}
  Operator = {p}
  NoLeader = NoLeader
  None = None
  MaxCalls = 3
  MaxElections = 1
SPECIFICATION FairSpec
INVARIANTS
  TypeOK
  AnsweredMeansDone
  VotersWillHost
PROPERTIES
  
  CallsEnd
CHECK_DEADLOCK FALSE
