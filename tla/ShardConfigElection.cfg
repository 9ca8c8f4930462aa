CONSTANTS
  Node = {1, 2}
  Quorum <- TwoVoters
  Module = {a}
  Shard = {0, 1}
  NoRoute = NoRoute
  NoLeader = NoLeader
  NoSnapshot = NoSnapshot
  MaxCommands = 3
  Budget <- OneElection
SPECIFICATION Spec
INVARIANTS
  EveryShardInitialized
CHECK_DEADLOCK FALSE
