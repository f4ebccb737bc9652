SPECIFICATION CmdFairSpec
CONSTANTS
  W = {"w1", "w2"}
  Buf = 3
  MaxDev = 2
  MaxApp = 2
  Commands <- MCCommands
INVARIANTS
  NothingLeaks
  OutputWhole
  ResultRight
PROPERTIES
  CommandEnds
