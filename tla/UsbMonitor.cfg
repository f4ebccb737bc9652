SPECIFICATION UsbFairSpec
CONSTANTS
  User = {"u1", "u2"}
  MaxBus = 2
  MaxEvents = 1
  MaxFail = 1
  NoAddr = 0
CHECK_DEADLOCK FALSE
INVARIANTS
  RecordsSound
PROPERTIES
  PlugNoticed
  MtpSettles
  UnloadsReturn
