SPECIFICATION FairSpec
CONSTANTS
  Client = {"c1", "c2"}
  MaxLives = 2
CHECK_DEADLOCK FALSE
INVARIANTS
  LivesSound
PROPERTIES
  ExitReturns
