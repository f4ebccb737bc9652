SPECIFICATION FairSpec
CONSTANTS
  nSize = 2
  MaxMsg = 9
  MaxLives = 2
CHECK_DEADLOCK FALSE
INVARIANTS
  RingSafe
PROPERTIES
  ImplementsQueue
  EventDelivered
