CONSTANTS
  Node = {1, 2}
  Quorum <- OneVoter
  Module = {a}
  Shard = {0, 1}
  NoRoute = NoRoute
  NoLeader = NoLeader
  NoSnapshot = NoSnapshot
  MaxCommands = 3
  Budget <- TwoBuilds
SPECIFICATION Spec
INVARIANTS
  MachineIsPrefix
CHECK_DEADLOCK FALSE
