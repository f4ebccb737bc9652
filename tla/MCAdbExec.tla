----------------------------- MODULE MCAdbExec -----------------------------
(***************************************************************************)
(* Instances of AdbExec for TLC.  One queue is served *)
(* by two threads, as ADB_CMD_THREAD_MAP has for queues 2 and 3.           *)
(***************************************************************************)
EXTENDS AdbExec, TLC

CONSTANTS d1, d2, w1, w2, k1, k2, q1, c1, c2

PoolWorkerQueue == w1 :> q1 @@ w2 :> q1
PoolCmdQueue2 == k1 :> q1 @@ k2 :> q1

PoolSymmetry ==
  Permutations({d1, d2}) \cup Permutations({w1, w2}) \cup
  Permutations({k1, k2}) \cup Permutations({c1, c2})
=============================================================================
