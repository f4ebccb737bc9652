SPECIFICATION LockSpec
CONSTANTS
  t1 = t1 t2 = t2 t3 = t3
  Threads = {t1, t2, t3}
  Crews <- MCCrews
  Devices = {d1, d2}
  Queues = {1}
INVARIANTS
  NoCircularWait
  LocksReleased
