SPECIFICATION FairSpec
CONSTANTS
  Device = {"d1", "d2"}
  ProbeCount = 2
  MaxLag = 1
  MaxPlug = 2
  MayUnload = TRUE
  NoDev = "none"
CHECK_DEADLOCK FALSE
INVARIANTS
  TableTrue
PROPERTIES
  DevicesSettle
  BootShown
