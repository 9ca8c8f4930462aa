SPECIFICATION Spec
CONSTANTS
  Node <- MCNode
  Conn <- MCConn
  Msg <- MCMsg
  Database <- MCDatabase
  Home <- MCHome
  Path <- MCPath
  From <- MCFrom
  Tag <- MCTag
  NoTag = NoTag
  NoPath = NoPath
  MaxFaults = 0
INVARIANT ReplicasAgreeOnOrder
CHECK_DEADLOCK FALSE
