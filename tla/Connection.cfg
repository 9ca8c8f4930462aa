CONSTANTS
  Conn = {c}
  NoModule = NoModule
  MaxPath = 7
  MaxAsked = 2
  MaxAnswers = 2
SPECIFICATION FairSpec
INVARIANTS
  TypeOK
  RoutedByName
  RelayInOrder
PROPERTIES
  ClosedEnds
  ShutdownReaches
CHECK_DEADLOCK FALSE
