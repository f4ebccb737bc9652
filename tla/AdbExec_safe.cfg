SPECIFICATION Spec
CONSTANTS
  d1 = d1 d2 = d2 w1 = w1 w2 = w2 k1 = k1 k2 = k2
  q1 = q1 c1 = c1 c2 = c2
  Device = {d1, d2}
  Queue = {q1}
  Cmd = {k1, k2}
  Worker = {w1, w2}
  Client = {c1, c2}
  WorkerQueue <- PoolWorkerQueue
  CmdQueue <- PoolCmdQueue2
  NoDev = NoDev NoCmd = NoCmd NoClient = NoClient
SYMMETRY PoolSymmetry
INVARIANTS
  LaneServed
  RefsExact
PROPERTIES
  ImplementsService
