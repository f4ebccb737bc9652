SPECIFICATION FairSpec
CONSTANTS
  d1 = d1 d2 = d2 q1 = q1 r1 = r1 r2 = r2
  Row = {r1}
  Device = {d1, d2}
  Queue = {q1}
  IdOf <- SameId
  RowId <- AllName
  RowQueue <- OneQueue
  MaxFail = 1
  MaxCrash = 1
  NoRow = NoRow NoDev = NoDev NoCmd = NoCmd
CHECK_DEADLOCK FALSE
INVARIANTS
  QueuedOnce
  RowTrue
  ChangeNotified
PROPERTIES
  RowsAdvance
  RequestDone
