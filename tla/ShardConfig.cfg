CONSTANTS
  Node = {1, 2}
  Quorum <- Laggard
  Module = {a}
  Shard = {0, 1}
  NoRoute = NoRoute
  NoLeader = NoLeader
  NoSnapshot = NoSnapshot
  MaxCommands = 2
  Budget <- Faulty
SPECIFICATION FairSpec
INVARIANTS
  TypeOK
  RoutesNotLost
  RoutesMatch
  ShardsNotLost
  RouteHasShard
  PoolIsPrefix
  NothingInvented
PROPERTIES
  ConfigConverges
  ShardsInitialized
CHECK_DEADLOCK FALSE
