SPECIFICATION FairSpec
CONSTANTS
  Sender = {"c1", "c2"}
  MaxSession = 2
  MaxPdu = 2
  BodySize = 2
  Garbage = 3
  NoSender = "none"
CHECK_DEADLOCK FALSE
INVARIANTS
  SessionsSound
  FramesIntact
PROPERTIES
  SessionFinishes
