SPECIFICATION FairSpec
CONSTANTS
  Node <- MCNode
  Conn <- MCConn
  Msg <- MCMsg
  Database <- MCDatabase
  Home <- MCHome
  Path <- MCPath
  From <- MCFrom
  Tag <- MCTag
  NoTag = NoTag
  NoPath = NoPath
  MaxFaults = 0
INVARIANT NothingLost
PROPERTY RemoteDelivery
CHECK_DEADLOCK FALSE
