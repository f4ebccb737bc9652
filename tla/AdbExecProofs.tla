--------------------------- MODULE AdbExecProofs ---------------------------
(***************************************************************************)
(* Theorems about AdbExec for every number of devices, queues, commands,   *)
(* workers and clients, up to its implementing CmdService; and about       *)
(* AdbCmd, what a worker does while it executes a command, for every       *)
(* number of threads, every list of commands with their outputs and every  *)
(* size of the buffer.                                                     *)
(***************************************************************************)
EXTENDS AdbExec, AdbCmd, FiniteSetTheorems, SequenceTheorems, TLAPS

------------------------------------------------------------------------------
(* Lemmas on what an executor is made of: a table with one entry for each  *)
(* device and queue, and FIFOs in which nothing occurs twice.              *)

\* Updating one entry of a two-level function changes that entry only.
LEMMA Update2 ==
  ASSUME NEW D, NEW Q, NEW S, NEW f \in [D -> [Q -> S]], NEW d \in D, NEW q \in Q,
         NEW v \in S
  PROVE  /\ [f EXCEPT ![d][q] = v] \in [D -> [Q -> S]]
         /\ \A e \in D, p \in Q :
              [f EXCEPT ![d][q] = v][e][p] = IF e = d /\ p = q THEN v ELSE f[e][p]
OBVIOUS

\* Append adds one element.
LEMMA RangeAppend ==
  ASSUME NEW S, NEW s \in Seq(S), NEW x \in S
  PROVE  Range(Append(s, x)) = Range(s) \cup {x}
<1>1. /\ DOMAIN Append(s, x) = 1..(Len(s) + 1) /\ DOMAIN s = 1..Len(s)
      /\ \A i \in 1..Len(s) : Append(s, x)[i] = s[i]
      /\ Append(s, x)[Len(s) + 1] = x
      /\ Len(s) \in Nat
  OBVIOUS
<1> QED
  BY <1>1 DEF Range

\* The elements of a sequence are its head and those of its tail.
LEMMA RangeTail ==
  ASSUME NEW S, NEW s \in Seq(S), s # <<>>
  PROVE  Range(s) = Range(Tail(s)) \cup {Head(s)}
<1>1. /\ DOMAIN s = 1..Len(s) /\ DOMAIN Tail(s) = 1..(Len(s) - 1)
      /\ \A i \in 1..(Len(s) - 1) : Tail(s)[i] = s[i + 1]
      /\ Head(s) = s[1]
      /\ Len(s) \in Nat \ {0}
  OBVIOUS
<1>2. \A i \in 1..Len(s) : i = 1 \/ (i - 1 \in 1..(Len(s) - 1) /\ s[i] = Tail(s)[i - 1])
  BY <1>1
<1>3. \A i \in 1..(Len(s) - 1) : i + 1 \in 1..Len(s)
  BY <1>1
<1>4. ASSUME NEW x \in Range(s) PROVE x \in Range(Tail(s)) \cup {Head(s)}
  <2>1. PICK i \in 1..Len(s) : x = s[i]
    BY <1>1 DEF Range
  <2>2. CASE i = 1
    BY <1>1, <2>1, <2>2
  <2>3. CASE i - 1 \in 1..(Len(s) - 1) /\ s[i] = Tail(s)[i - 1]
    BY <1>1, <2>1, <2>3 DEF Range
  <2> QED
    BY <1>2, <2>2, <2>3
<1>5. ASSUME NEW x \in Range(Tail(s)) \cup {Head(s)} PROVE x \in Range(s)
  <2>1. CASE x = Head(s)
    BY <1>1, <2>1 DEF Range
  <2>2. CASE x \in Range(Tail(s))
    <3>1. PICK i \in 1..(Len(s) - 1) : x = Tail(s)[i]
      BY <1>1, <2>2 DEF Range
    <3> QED
      BY <1>1, <1>3, <3>1 DEF Range
  <2> QED
    BY <2>1, <2>2
<1> QED
  BY <1>4, <1>5

\* In a sequence without repetition the head does not recur, and the tail
\* has no repetition either.
LEMMA TailDistinct ==
  ASSUME NEW S, NEW s \in Seq(S), s # <<>>,
         \A i, j \in 1..Len(s) : s[i] = s[j] => i = j
  PROVE  /\ Head(s) \notin Range(Tail(s))
         /\ \A i, j \in 1..Len(Tail(s)) : Tail(s)[i] = Tail(s)[j] => i = j
<1>1. /\ DOMAIN Tail(s) = 1..(Len(s) - 1) /\ Len(Tail(s)) = Len(s) - 1
      /\ \A i \in 1..(Len(s) - 1) : Tail(s)[i] = s[i + 1]
      /\ Head(s) = s[1]
      /\ Len(s) \in Nat \ {0}
  OBVIOUS
<1>2. \A i \in 1..(Len(s) - 1) : i + 1 \in 1..Len(s) /\ i + 1 # 1
  BY <1>1
<1> QED
  BY <1>1, <1>2 DEF Range

\* Appending a new element to a sequence without repetition adds none.
LEMMA AppendDistinct ==
  ASSUME NEW S, NEW s \in Seq(S), NEW x \in S, x \notin Range(s),
         \A i, j \in 1..Len(s) : s[i] = s[j] => i = j
  PROVE  \A i, j \in 1..Len(Append(s, x)) : Append(s, x)[i] = Append(s, x)[j] => i = j
<1>1. /\ Len(Append(s, x)) = Len(s) + 1 /\ DOMAIN s = 1..Len(s) /\ Len(s) \in Nat
      /\ \A i \in 1..Len(s) : Append(s, x)[i] = s[i]
      /\ Append(s, x)[Len(s) + 1] = x
  OBVIOUS
<1>2. \A i \in 1..(Len(s) + 1) : i \in 1..Len(s) \/ i = Len(s) + 1
  BY <1>1
<1>3. \A i \in 1..Len(s) : s[i] # x
  BY <1>1 DEF Range
<1> QED
  BY <1>1, <1>2, <1>3

------------------------------------------------------------------------------

------------------------------------------------------------------------------
(* Types, and what the program counters say about the other variables.     *)

HasDev == {"begin", "one", "exec", "next", "release"}
HasLock == {"request", "post", "unlock"}

\* A client has a device exactly between GetDevice and Release.
ClientShape ==
  \A c \in Client : IF cpc[c] = "idle" THEN cdev[c] = NoDev ELSE cdev[c] \in Device

\* A worker has a device inside its drain loop and a record inside Execute.
WorkerShape ==
  \A w \in Worker :
    /\ IF wpc[w] \in HasDev THEN wdev[w] \in Device ELSE wdev[w] = NoDev
    /\ IF wpc[w] \in {"one", "exec"} THEN wcmd[w] \in Cmd ELSE wcmd[w] = NoCmd

\* _CmdLock is owned by the clients that are inside Request, and by no other.
LockShape ==
  /\ \A c \in Client : cpc[c] \in HasLock => cmdLock[cdev[c]][cqueue[c]] = c
  /\ \A d \in Device, q \in Queue, c \in Client :
       cmdLock[d][q] = c => cpc[c] \in HasLock /\ cdev[c] = d /\ cqueue[c] = q

Shape == TypeOK /\ ClientShape /\ WorkerShape /\ LockShape

\* Release keeps the types of what it changes.
LEMMA ReleaseType ==
  ASSUME TypeOK, NEW d \in Device, Release(d)
  PROVE  /\ refcnt' \in [Device -> Int]
         /\ cmdList' \in [Device -> [Queue -> Seq(Cmd)]]
         /\ status' \in [Cmd -> {"new", "queued", "executing", "executed", "failed",
                                 "cancelled", "refused"}]
<1>1. refcnt' \in [Device -> Int]
  <2>1. refcnt \in [Device -> Int] /\ refcnt' = [refcnt EXCEPT ![d] = @ - 1]
    BY DEF Release, TypeOK
  <2> QED
    BY <2>1
<1>2. cmdList' \in [Device -> [Queue -> Seq(Cmd)]]
  <2>1. [q \in Queue |-> <<>>] \in [Queue -> Seq(Cmd)]
    OBVIOUS
  <2>2. cmdList \in [Device -> [Queue -> Seq(Cmd)]]
    BY DEF TypeOK
  <2> QED
    BY <2>1, <2>2 DEF Release
<1>3. status' \in [Cmd -> {"new", "queued", "executing", "executed", "failed",
                            "cancelled", "refused"}]
  <2>1. status \in [Cmd -> {"new", "queued", "executing", "executed", "failed",
                            "cancelled", "refused"}]
    BY DEF TypeOK
  <2> QED
    BY <2>1 DEF Release
<1> QED
  BY <1>1, <1>2, <1>3

\* The number of threads meant for a queue is a natural number.
LEMMA PoolSize ==
  ASSUME NEW q \in Queue
  PROVE  Cardinality({w \in Worker : WorkerQueue[w] = q}) \in Nat
<1>1. IsFiniteSet({w \in Worker : WorkerQueue[w] = q})
  BY ConstantsAssumption, FS_Subset
<1> QED
  BY <1>1, FS_CardinalityType

\* The initial state has the shape.
LEMMA InitShape == Init => Shape
<1> SUFFICES ASSUME Init PROVE Shape
  OBVIOUS
<1>1. \A q \in Queue : <<>> \in Seq(Device) /\ <<>> \in Seq(Cmd)
  OBVIOUS
<1>2. cmdList \in [Device -> [Queue -> Seq(Cmd)]]
  BY <1>1 DEF Init
<1>3. running \in [Device -> [Queue -> BOOLEAN]]
  BY DEF Init
<1>4. cmdLock \in [Device -> [Queue -> Client \cup {NoClient}]]
  BY DEF Init
<1>5. execList \in [Queue -> Seq(Device)] /\ sem \in [Queue -> Nat]
  BY <1>1 DEF Init
<1>6. TypeOK
  <2>1. /\ wpc \in [Worker -> {"absent", "test", "wait", "drain", "begin", "one",
                              "exec", "next", "release", "exited"}]
        /\ wdev \in [Worker -> Device \cup {NoDev}]
        /\ wcmd \in [Worker -> Cmd \cup {NoCmd}]
    BY DEF Init
  <2>2. /\ cpc \in [Client -> {"idle", "got", "request", "post", "unlock", "release"}]
        /\ cdev \in [Client -> Device \cup {NoDev}]
        /\ cqueue \in [Client -> Queue]
    BY DEF Init
  <2>3. /\ refcnt \in [Device -> Int]
        /\ mon \in [Device -> {"absent", "attached", "detaching", "gone"}]
        /\ devState \in [Device -> {"booting", "charger", "main"}]
        /\ status \in [Cmd -> {"new", "queued", "executing", "executed", "failed",
                               "cancelled", "refused"}]
    BY DEF Init
  <2>4. /\ mainPc \in {"starting", "up", "posting", "joining", "down"}
        /\ toPost \in SUBSET Queue /\ execQuit \in BOOLEAN
    BY DEF Init
  <2> QED
    BY <1>2, <1>3, <1>4, <1>5, <2>1, <2>2, <2>3, <2>4 DEF TypeOK
<1>7. ClientShape /\ WorkerShape
  BY DEF Init, ClientShape, WorkerShape, HasDev
<1>8. LockShape
  BY ConstantsAssumption DEF Init, LockShape, HasLock
<1> QED
  BY <1>6, <1>7, <1>8 DEF Shape

\* Steps of Startup, Cleanup and the monitor preserve the shape.
LEMMA ControlShape ==
  ASSUME Shape,
         \/ \E w \in Worker : CreateWorker(w)
         \/ CleanupQuit \/ CleanupStep
         \/ \E d \in Device : Attach(d) \/ UpdateState(d) \/ Detach(d) \/ DetachRelease(d)
  PROVE  Shape'
<1> USE DEF Shape, ClientShape, LockShape
<1>1. ASSUME NEW w \in Worker, CreateWorker(w) PROVE Shape'
  <2>1. TypeOK'
    BY <1>1 DEF TypeOK, CreateWorker, WorkerAt, devVars, clientVars
  <2>2. WorkerShape'
    BY <1>1 DEF TypeOK, CreateWorker, WorkerAt, WorkerShape, HasDev
  <2> QED
    BY <1>1, <2>1, <2>2 DEF CreateWorker, clientVars
<1>2. CASE CleanupQuit
  BY <1>2 DEF TypeOK, CleanupQuit, devVars, clientVars, workerVars, WorkerShape
<1>3. ASSUME NEW q \in Queue, CleanupPost(q) PROVE Shape'
  <2>1. sem \in [Queue -> Nat] /\ sem' = [sem EXCEPT ![q] = @ +
                                  Cardinality({w \in Worker : WorkerQueue[w] = q})]
    BY <1>3 DEF TypeOK, CleanupPost
  <2>2. sem' \in [Queue -> Nat]
    BY <2>1, PoolSize
  <2> QED
    BY <1>3, <2>2 DEF TypeOK, CleanupPost, devVars, clientVars, workerVars, WorkerShape
<1>4. CASE CleanupJoin
  BY <1>4 DEF TypeOK, CleanupJoin, devVars, clientVars, workerVars, WorkerShape
<1>5. ASSUME NEW d \in Device, Attach(d) PROVE Shape'
  BY <1>5 DEF TypeOK, Attach, AddRef, mainVars, clientVars, workerVars, WorkerShape
<1>6. ASSUME NEW d \in Device, UpdateState(d) PROVE Shape'
  BY <1>6 DEF TypeOK, UpdateState, mainVars, clientVars, workerVars, WorkerShape
<1>7. ASSUME NEW d \in Device, Detach(d) PROVE Shape'
  BY <1>7 DEF TypeOK, Detach, mainVars, clientVars, workerVars, WorkerShape
<1>8. ASSUME NEW d \in Device, DetachRelease(d) PROVE Shape'
  BY <1>8, ReleaseType
     DEF TypeOK, DetachRelease, mainVars, clientVars, workerVars, WorkerShape
<1> QED
  BY <1>1, <1>2, <1>3, <1>4, <1>5, <1>6, <1>7, <1>8 DEF CleanupStep

\* Steps of a client preserve the shape.
LEMMA ClientStepShape ==
  ASSUME Shape, NEW c \in Client, (\E d \in Device : GetDevice(c, d)) \/ ClientStep(c)
  PROVE  Shape'
<1> USE DEF mainVars, workerVars, devVars, ClientAt, Shape, HasLock
<1>n. NoDev \notin Device /\ NoClient \notin Client
  BY ConstantsAssumption
<1>1. ASSUME NEW d \in Device, GetDevice(c, d) PROVE Shape'
  <2>1. TypeOK'
    BY <1>1 DEF TypeOK, GetDevice, AddRef
  <2>2. ClientShape' /\ WorkerShape'
    BY <1>1 DEF TypeOK, GetDevice, ClientShape, WorkerShape
  <2>3. LockShape'
    BY <1>1 DEF TypeOK, GetDevice, LockShape
  <2> QED
    BY <2>1, <2>2, <2>3
<1>2. ASSUME NEW k \in Cmd, QueueCmd(c, k) PROVE Shape'
  <2> DEFINE d == cdev[c]
             q == CmdQueue[k]
  <2>1. d \in Device /\ q \in Queue
    BY <1>2, ConstantsAssumption DEF QueueCmd, ClientShape
  <2>2. cmdList[d][q] \in Seq(Cmd)
    BY <2>1 DEF TypeOK
  <2>3. cmdList' \in [Device -> [Queue -> Seq(Cmd)]]
    <3>1. Append(cmdList[d][q], k) \in Seq(Cmd)
      BY <2>2
    <3>2. cmdList \in [Device -> [Queue -> Seq(Cmd)]]
      BY DEF TypeOK
    <3>3. cmdList' = [cmdList EXCEPT ![d][q] = Append(cmdList[d][q], k)]
      BY <1>2 DEF QueueCmd
    <3> QED
      BY <2>1, <3>1, <3>2, <3>3, Update2
  <2>4. /\ cmdLock' \in [Device -> [Queue -> Client \cup {NoClient}]]
        /\ cpc' = [cpc EXCEPT ![c] = IF MustRequest(d, q) THEN "request" ELSE "release"]
        /\ \A e \in Device, p \in Queue :
             cmdLock'[e][p] = IF e = d /\ p = q /\ MustRequest(d, q)
                              THEN c ELSE cmdLock[e][p]
    <3>1. cmdLock \in [Device -> [Queue -> Client \cup {NoClient}]]
      BY DEF TypeOK
    <3>2. CASE MustRequest(d, q)
      <4>1. /\ cmdLock' = [cmdLock EXCEPT ![d][q] = c]
            /\ cpc' = [cpc EXCEPT ![c] = "request"]
        BY <1>2, <3>2 DEF QueueCmd
      <4> QED
        BY <4>1, <3>1, <3>2, <2>1, Update2
    <3>3. CASE ~MustRequest(d, q)
      <4>1. cmdLock' = cmdLock /\ cpc' = [cpc EXCEPT ![c] = "release"]
        BY <1>2, <3>3 DEF QueueCmd
      <4> QED
        BY <4>1, <3>1, <3>3
    <3> QED
      BY <3>2, <3>3
  <2>5. cpc' \in [Client -> {"idle", "got", "request", "post", "unlock", "release"}]
    BY <2>4 DEF TypeOK
  <2>6. cqueue' = [cqueue EXCEPT ![c] = q] /\ cqueue' \in [Client -> Queue]
    BY <1>2, <2>1 DEF QueueCmd, TypeOK
  <2>7. TypeOK'
    BY <1>2, <2>3, <2>4, <2>5, <2>6 DEF QueueCmd, TypeOK
  <2>8. ClientShape' /\ WorkerShape'
    BY <1>2, <2>1, <2>4 DEF TypeOK, QueueCmd, ClientShape, WorkerShape
  <2>9. cmdLock[d][q] = NoClient /\ cpc[c] = "got" /\ cdev' = cdev
    BY <1>2 DEF QueueCmd
  <2>10. LockShape'
    <3>1. ASSUME NEW b \in Client, cpc'[b] \in HasLock
          PROVE  cmdLock'[cdev'[b]][cqueue'[b]] = b
      <4>1. CASE b = c
        <5>1. MustRequest(d, q)
          BY <2>4, <3>1, <4>1 DEF TypeOK
        <5> QED
          BY <2>1, <2>4, <2>6, <2>9, <4>1, <5>1 DEF TypeOK
      <4>2. CASE b # c
        <5>1. cpc'[b] = cpc[b] /\ cqueue'[b] = cqueue[b]
          BY <2>4, <2>6, <4>2 DEF TypeOK
        <5>2. cmdLock[cdev[b]][cqueue[b]] = b /\ cdev[b] \in Device /\ cqueue[b] \in Queue
          BY <3>1, <5>1 DEF LockShape, ClientShape, TypeOK
        <5> QED
          BY <2>4, <2>9, <5>1, <5>2, <1>n
      <4> QED
        BY <4>1, <4>2
    <3>2. ASSUME NEW e \in Device, NEW p \in Queue, NEW b \in Client, cmdLock'[e][p] = b
          PROVE  cpc'[b] \in HasLock /\ cdev'[b] = e /\ cqueue'[b] = p
      <4>1. CASE e = d /\ p = q /\ MustRequest(d, q)
        <5>1. b = c
          BY <2>4, <3>2, <4>1
        <5> QED
          BY <2>4, <2>6, <2>9, <4>1, <5>1 DEF TypeOK
      <4>2. CASE ~(e = d /\ p = q /\ MustRequest(d, q))
        <5>1. cmdLock[e][p] = b
          BY <2>4, <3>2, <4>2
        <5>2. cpc[b] \in HasLock /\ cdev[b] = e /\ cqueue[b] = p
          BY <5>1 DEF LockShape
        <5>3. b # c
          BY <2>9, <5>2
        <5> QED
          BY <2>4, <2>6, <2>9, <5>2, <5>3 DEF TypeOK
      <4> QED
        BY <4>1, <4>2
    <3> QED
      BY <3>1, <3>2 DEF LockShape
  <2> QED
    BY <2>7, <2>8, <2>10
<1>3. ASSUME NEW k \in Cmd, QueueCmdNoMemory(c, k) PROVE Shape'
  BY <1>3 DEF TypeOK, QueueCmdNoMemory, ClientShape, WorkerShape, LockShape
<1>4. CASE RejectArgs(c)
  BY SMTT(30), <1>4 DEF TypeOK, RejectArgs, ClientShape, WorkerShape, LockShape
<1>5. CASE Request(c)
  <2>1. cdev[c] \in Device /\ cqueue[c] \in Queue
    BY <1>5 DEF ClientShape, TypeOK, Request
  <2>2. execList' \in [Queue -> Seq(Device)]
    <3>1. execList[cqueue[c]] \in Seq(Device)
      BY <2>1 DEF TypeOK
    <3>2. Append(execList[cqueue[c]], cdev[c]) \in Seq(Device)
      BY <3>1, <2>1
    <3> QED
      BY <1>5, <3>2 DEF Request, TypeOK
  <2>3. refcnt' \in [Device -> Int]
    BY <1>5, <2>1 DEF Request, AddRef, TypeOK
  <2>4. TypeOK'
    BY <1>5, <2>2, <2>3 DEF Request, TypeOK
  <2>5. ClientShape' /\ WorkerShape'
    BY <1>5 DEF TypeOK, Request, ClientShape, WorkerShape
  <2>6. LockShape'
    BY <1>5 DEF TypeOK, Request, LockShape
  <2> QED
    BY <2>4, <2>5, <2>6
<1>6. CASE RequestPost(c)
  BY <1>6 DEF TypeOK, RequestPost, ClientShape, WorkerShape, LockShape
<1>7. CASE QueueCmdUnlock(c)
  <2>1. cdev[c] \in Device /\ cqueue[c] \in Queue
    BY <1>7 DEF ClientShape, TypeOK, QueueCmdUnlock
  <2>2. /\ cmdLock' \in [Device -> [Queue -> Client \cup {NoClient}]]
        /\ \A e \in Device, p \in Queue :
             cmdLock'[e][p] = IF e = cdev[c] /\ p = cqueue[c] THEN NoClient
                                                               ELSE cmdLock[e][p]
    <3>1. cmdLock \in [Device -> [Queue -> Client \cup {NoClient}]]
      BY DEF TypeOK
    <3>2. cmdLock' = [cmdLock EXCEPT ![cdev[c]][cqueue[c]] = NoClient]
      BY <1>7 DEF QueueCmdUnlock
    <3> QED
      BY <2>1, <3>1, <3>2, Update2
  <2>3. TypeOK'
    BY <1>7, <2>2 DEF QueueCmdUnlock, TypeOK
  <2>4. ClientShape' /\ WorkerShape'
    BY <1>7 DEF TypeOK, QueueCmdUnlock, ClientShape, WorkerShape
  <2>5. LockShape'
    BY SMTT(30), <1>7, <2>1, <2>2, <1>n DEF TypeOK, QueueCmdUnlock, LockShape, ClientShape
  <2> QED
    BY <2>3, <2>4, <2>5
<1>8. CASE ClientRelease(c)
  <2>1. cdev[c] \in Device
    BY <1>8 DEF ClientRelease, ClientShape
  <2>2. TypeOK'
    BY <1>8, <2>1, ReleaseType DEF TypeOK, ClientRelease
  <2>3. ClientShape' /\ WorkerShape'
    BY <1>8 DEF TypeOK, ClientRelease, ClientShape, WorkerShape
  <2>4. LockShape'
    BY <1>8 DEF TypeOK, ClientRelease, LockShape
  <2> QED
    BY <2>2, <2>3, <2>4
<1> QED
  BY <1>1, <1>2, <1>3, <1>4, <1>5, <1>6, <1>7, <1>8 DEF ClientStep

\* Steps of a worker preserve the shape.
LEMMA WorkerStepShape ==
  ASSUME Shape, NEW w \in Worker, WorkerStep(w)
  PROVE  Shape'
<1> USE DEF mainVars, clientVars, devVars, WorkerAt, Shape, HasDev, ClientShape, LockShape
<1>q. WorkerQueue[w] \in Queue /\ NoCmd \notin Cmd /\ NoDev \notin Device
  BY ConstantsAssumption
<1>1. CASE WorkerTest(w)
  BY <1>1 DEF TypeOK, WorkerTest, WorkerShape
<1>2. CASE WorkerWait(w)
  BY <1>2, <1>q DEF TypeOK, WorkerWait, WorkerShape
<1>3. CASE WorkerTake(w)
  <2>1. /\ execList[WorkerQueue[w]] \in Seq(Device)
        /\ execList[WorkerQueue[w]] # <<>>
    BY <1>3, <1>q DEF TypeOK, WorkerTake
  <2>2. /\ Head(execList[WorkerQueue[w]]) \in Device
        /\ Tail(execList[WorkerQueue[w]]) \in Seq(Device)
    BY <2>1
  <2>3. TypeOK'
    BY <1>3, <1>q, <2>2 DEF TypeOK, WorkerTake
  <2>4. WorkerShape'
    BY <1>3, <2>2 DEF TypeOK, WorkerTake, WorkerShape
  <2> QED
    BY <1>3, <2>3, <2>4 DEF WorkerTake
<1>4. CASE WorkerDrained(w)
  BY <1>4 DEF TypeOK, WorkerDrained, WorkerShape
<1>5. CASE WorkerPop(w)
  <2> DEFINE d == wdev[w]
             q == WorkerQueue[w]
  <2>1. d \in Device
    BY <1>5 DEF WorkerPop, WorkerShape
  <2>2. cmdList[d][q] \in Seq(Cmd)
    BY <1>q, <2>1 DEF TypeOK
  <2>3. running' \in [Device -> [Queue -> BOOLEAN]]
    <3>1. running \in [Device -> [Queue -> BOOLEAN]]
      BY DEF TypeOK
    <3>2. \E b \in BOOLEAN : running' = [running EXCEPT ![d][q] = b]
      BY <1>5 DEF WorkerPop
    <3> QED
      BY <1>q, <2>1, <3>1, <3>2, Update2
  <2>4. CASE cmdList[d][q] # <<>>
    <3>1. Head(cmdList[d][q]) \in Cmd /\ Tail(cmdList[d][q]) \in Seq(Cmd)
      BY <2>2, <2>4
    <3>2. cmdList' \in [Device -> [Queue -> Seq(Cmd)]]
      <4>1. cmdList \in [Device -> [Queue -> Seq(Cmd)]]
        BY DEF TypeOK
      <4>2. cmdList' = [cmdList EXCEPT ![d][q] = Tail(cmdList[d][q])]
        BY <1>5, <2>4 DEF WorkerPop
      <4> QED
        BY <1>q, <2>1, <3>1, <4>1, <4>2, Update2
    <3>3. wcmd' = [wcmd EXCEPT ![w] = Head(cmdList[d][q])] /\ wpc' = [wpc EXCEPT ![w] = "one"]
      BY <1>5, <2>4 DEF WorkerPop
    <3>4. TypeOK'
      BY <1>5, <2>3, <3>1, <3>2, <3>3 DEF TypeOK, WorkerPop
    <3>5. WorkerShape'
      BY <1>5, <2>1, <3>1, <3>3 DEF TypeOK, WorkerPop, WorkerShape
    <3> QED
      BY <1>5, <3>4, <3>5 DEF WorkerPop
  <2>5. CASE cmdList[d][q] = <<>>
    <3>1. wcmd' = wcmd /\ cmdList' = cmdList /\ wpc' = [wpc EXCEPT ![w] = "release"]
      BY <1>5, <2>5 DEF WorkerPop
    <3>2. TypeOK'
      BY <1>5, <2>3, <3>1 DEF TypeOK, WorkerPop
    <3>3. WorkerShape'
      BY <1>5, <3>1 DEF TypeOK, WorkerPop, WorkerShape
    <3> QED
      BY <1>5, <3>2, <3>3 DEF WorkerPop
  <2> QED
    BY <2>4, <2>5
<1>6. CASE WorkerCancel(w)
  BY <1>6 DEF TypeOK, WorkerCancel, WorkerShape
<1>7. CASE WorkerStart(w)
  BY <1>7 DEF TypeOK, WorkerStart, WorkerShape
<1>8. CASE WorkerFinish(w)
  BY <1>8 DEF TypeOK, WorkerFinish, WorkerShape
<1>9. CASE WorkerRelease(w)
  <2>1. wdev[w] \in Device
    BY <1>9 DEF WorkerRelease, WorkerShape
  <2>2. TypeOK'
    BY <1>9, <2>1, ReleaseType DEF TypeOK, WorkerRelease
  <2>3. WorkerShape'
    BY <1>9 DEF TypeOK, WorkerRelease, WorkerShape
  <2> QED
    BY <1>9, <2>2, <2>3 DEF WorkerRelease
<1> QED
  BY <1>1, <1>2, <1>3, <1>4, <1>5, <1>6, <1>7, <1>8, <1>9 DEF WorkerStep

\* The shape holds in every reachable state.
LEMMA ShapeInvariant == Spec => []Shape
<1>1. Shape /\ [Next]_vars => Shape'
  <2> SUFFICES ASSUME Shape, [Next]_vars PROVE Shape'
    OBVIOUS
  <2>1. CASE UNCHANGED vars
    BY <2>1 DEF vars, Shape, TypeOK, ClientShape, WorkerShape, LockShape
  <2>2. CASE Next
    BY <2>1, <2>2, ControlShape, ClientStepShape, WorkerStepShape DEF Next, Terminated
  <2> QED
    BY <2>1, <2>2
<1> QED
  BY InitShape, <1>1, PTL DEF Spec

\* Every variable keeps its type in every reachable state; the reference
\* count is only known to be an integer here.
THEOREM TypeCorrect == Spec => []TypeOK
<1>1. Shape => TypeOK
  BY DEF Shape
<1> QED
  BY ShapeInvariant, <1>1, PTL

------------------------------------------------------------------------------
(* The inductive invariant.                                                *)

\* A device is on a list at most once.
ListedOnce ==
  \A q \in Queue : \A i, j \in 1..Len(execList[q]) :
     execList[q][i] = execList[q][j] => i = j

\* A listed device has work and is in nobody's hands.
ListedFree ==
  \A d \in Device, q \in Queue :
     d \in Range(execList[q]) =>
        /\ cmdList[d][q] # <<>> /\ ~running[d][q]
        /\ \A w \in Worker : ~Engaged(w, d, q)
        /\ \A c \in Client : ~Requesting(c, d, q)

\* So has a device that is about to be listed.
RequestedFree ==
  \A d \in Device, q \in Queue, c \in Client :
     Requesting(c, d, q) =>
        /\ cmdList[d][q] # <<>> /\ ~running[d][q]
        /\ \A w \in Worker : ~Engaged(w, d, q)

\* _bRunning is set between the first pop of Execute and its end; before the
\* first pop there is work.
RunningExact ==
  \A d \in Device, q \in Queue :
     /\ \A w \in Worker : Engaged(w, d, q) =>
          IF wpc[w] = "begin" THEN ~running[d][q] /\ cmdList[d][q] # <<>>
                              ELSE running[d][q]
     /\ running[d][q] => \E w \in Worker : Engaged(w, d, q)

Token ==
  ListedOnce /\ ListedFree /\ RequestedFree /\ RunningExact /\ SingleRunner /\ NoLostDevice

\* The reference count is that of a finite set of holders.
Counted ==
  \A d \in Device : IsFiniteSet(Holders(d)) /\ refcnt[d] = Cardinality(Holders(d))

IInv == Shape /\ Token /\ Counted

------------------------------------------------------------------------------
(* Finite sets.                                                            *)

\* One element more, one less, one exchanged, only one.
LEMMA OneMore ==
  ASSUME NEW S, IsFiniteSet(S), NEW x, x \notin S
  PROVE  IsFiniteSet(S \cup {x}) /\ Cardinality(S \cup {x}) = Cardinality(S) + 1
BY FS_AddElement

\* One element less in a set is one less in its size.
LEMMA OneLess ==
  ASSUME NEW S, IsFiniteSet(S), NEW x \in S
  PROVE  IsFiniteSet(S \ {x}) /\ Cardinality(S \ {x}) = Cardinality(S) - 1
BY FS_RemoveElement

\* One element for another leaves the size of a set as it is.
LEMMA Exchange ==
  ASSUME NEW S, IsFiniteSet(S), NEW x \in S, NEW y, y \notin S
  PROVE  /\ IsFiniteSet((S \ {x}) \cup {y})
         /\ Cardinality((S \ {x}) \cup {y}) = Cardinality(S)
<1>1. IsFiniteSet(S \ {x}) /\ Cardinality(S \ {x}) = Cardinality(S) - 1
  BY OneLess
<1>2. y \notin S \ {x}
  OBVIOUS
<1>3. Cardinality(S) \in Nat
  BY FS_CardinalityType
<1> QED
  BY <1>1, <1>2, <1>3, OneMore

\* A set of size one has one element.
LEMMA OnlyOne ==
  ASSUME NEW S, IsFiniteSet(S), Cardinality(S) = 1, NEW x \in S, NEW y \in S
  PROVE  x = y
BY FS_Singleton

------------------------------------------------------------------------------
(* Release never runs the destructor on a device with queued commands.     *)

\* A holder that is neither a list, nor a worker inside Execute, nor a client
\* on its way to the list.
Leaving(d, h) ==
  \/ h = <<"monitor", d>> /\ mon[d] = "detaching"
  \/ \E c \in Client : h = <<"client", c>> /\ cdev[c] = d /\ cpc[c] = "release"
  \/ \E w \in Worker : h = <<"worker", w>> /\ wdev[w] = d /\ wpc[w] = "release"

\* If the last holder of a device is leaving, none of its FIFOs has a
\* command: a queued command implies another holder.
LEMMA NothingLeft ==
  ASSUME IInv, NEW d \in Device, NEW h, Leaving(d, h), refcnt[d] = 1
  PROVE  \A q \in Queue : cmdList[d][q] = <<>>
<1>1. IsFiniteSet(Holders(d)) /\ Cardinality(Holders(d)) = 1
  BY DEF IInv, Counted
<1>2. h \in Holders(d)
  BY DEF Leaving, Holders
<1>3. \A x \in Holders(d) : x = h
  BY <1>1, <1>2, OnlyOne
<1> SUFFICES ASSUME NEW q \in Queue, cmdList[d][q] # <<>> PROVE FALSE
  OBVIOUS
<1>4. CASE d \in Range(execList[q])
  <2>1. <<"list", q>> \in Holders(d)
    BY <1>4 DEF Holders
  <2> QED
    BY <1>3, <2>1 DEF Leaving
<1>5. ASSUME NEW w \in Worker, Engaged(w, d, q) PROVE FALSE
  <2>1. <<"worker", w>> \in Holders(d)
    BY <1>5 DEF Holders, Engaged
  <2> QED
    BY <1>3, <1>5, <2>1 DEF Leaving, Engaged
<1>6. ASSUME NEW c \in Client, Requesting(c, d, q) PROVE FALSE
  <2>1. <<"client", c>> \in Holders(d)
    BY <1>6 DEF Holders, Requesting
  <2> QED
    BY <1>3, <1>6, <2>1 DEF Leaving, Requesting
<1> QED
  BY <1>4, <1>5, <1>6 DEF IInv, Token, NoLostDevice

\* So Release changes the reference count and nothing else.
LEMMA ReleaseHarmless ==
  ASSUME IInv, NEW d \in Device, NEW h, Leaving(d, h), Release(d)
  PROVE  cmdList' = cmdList /\ status' = status
<1>1. CASE refcnt[d] # 1
  BY <1>1 DEF Release
<1>2. CASE refcnt[d] = 1
  <2>1. \A q \in Queue : cmdList[d][q] = <<>>
    BY <1>2, NothingLeft
  <2>2. cmdList \in [Device -> [Queue -> Seq(Cmd)]] /\ status \in [Cmd -> {"new",
          "queued", "executing", "executed", "failed", "cancelled", "refused"}]
    BY DEF IInv, Shape, TypeOK
  <2>3. /\ cmdList' = [cmdList EXCEPT ![d] = [q \in Queue |-> <<>>]]
        /\ status' = [k \in Cmd |-> IF k \in Leftover(d) THEN "cancelled" ELSE status[k]]
    BY <1>2 DEF Release
  <2>4. [q \in Queue |-> <<>>] = cmdList[d]
    BY <2>1, <2>2
  <2>5. Leftover(d) = {}
    <3>1. \A q \in Queue : Range(cmdList[d][q]) = {}
      BY <2>1 DEF Range
    <3> QED
      BY <3>1 DEF Leftover
  <2>6. cmdList' = cmdList
    BY <2>2, <2>3, <2>4
  <2>7. status' = status
    BY <2>2, <2>3, <2>5
  <2> QED
    BY <2>6, <2>7
<1> QED
  BY <1>1, <1>2

------------------------------------------------------------------------------
(* The token part: who has a device in hand.                               *)

\* Steps that change neither a list, a FIFO, a flag, nor who has a device.
LEMMA TokenSame ==
  ASSUME Token,
         execList' = execList, cmdList' = cmdList, running' = running,
         \A d \in Device, q \in Queue, w \in Worker :
            /\ Engaged(w, d, q)' = Engaged(w, d, q)
            /\ Engaged(w, d, q) => (wpc'[w] = "begin" <=> wpc[w] = "begin"),
         \A d \in Device, q \in Queue, c \in Client :
            Requesting(c, d, q)' = Requesting(c, d, q)
  PROVE  Token'
<1>1. ListedOnce' /\ ListedFree' /\ RequestedFree'
  BY DEF Token, ListedOnce, ListedFree, RequestedFree, Range
<1>2. RunningExact' /\ SingleRunner'
  BY DEF Token, RunningExact, SingleRunner
<1>3. NoLostDevice'
  BY DEF Token, NoLostDevice, Range
<1> QED
  BY <1>1, <1>2, <1>3 DEF Token

\* Steps of Startup, Cleanup and the monitor.
LEMMA ControlToken ==
  ASSUME IInv,
         \/ \E w \in Worker : CreateWorker(w)
         \/ CleanupQuit \/ CleanupStep
         \/ \E d \in Device : Attach(d) \/ UpdateState(d) \/ Detach(d) \/ DetachRelease(d)
  PROVE  Token'
<1> USE DEF IInv, Engaged, Requesting
<1>1. ASSUME NEW w \in Worker, CreateWorker(w) PROVE Token'
  BY <1>1, TokenSame DEF CreateWorker, WorkerAt, clientVars, Shape, TypeOK
<1>2. CASE CleanupQuit
  BY <1>2, TokenSame DEF CleanupQuit, clientVars, workerVars
<1>3. ASSUME NEW q \in Queue, CleanupPost(q) PROVE Token'
  BY <1>3, TokenSame DEF CleanupPost, clientVars, workerVars
<1>4. CASE CleanupJoin
  BY <1>4, TokenSame DEF CleanupJoin, clientVars, workerVars
<1>5. ASSUME NEW d \in Device, Attach(d) \/ UpdateState(d) \/ Detach(d) PROVE Token'
  BY <1>5, TokenSame DEF Attach, UpdateState, Detach, clientVars, workerVars
<1>6. ASSUME NEW d \in Device, DetachRelease(d) PROVE Token'
  <2>1. Leaving(d, <<"monitor", d>>)
    BY <1>6 DEF DetachRelease, Leaving
  <2>2. cmdList' = cmdList
    BY <1>6, <2>1, ReleaseHarmless DEF DetachRelease
  <2> QED
    BY <1>6, <2>2, TokenSame DEF DetachRelease, clientVars, workerVars
<1> QED
  BY <1>1, <1>2, <1>3, <1>4, <1>5, <1>6 DEF CleanupStep

\* Steps of a client that do not touch a list or a FIFO.
LEMMA ClientTokenSame ==
  ASSUME IInv, NEW c \in Client,
         \/ \E d \in Device : GetDevice(c, d)
         \/ \E k \in Cmd : QueueCmdNoMemory(c, k)
         \/ RejectArgs(c) \/ RequestPost(c) \/ QueueCmdUnlock(c) \/ ClientRelease(c)
  PROVE  Token'
<1> USE DEF IInv, Engaged, Requesting, workerVars, ClientAt
<1>1. ASSUME NEW d \in Device, GetDevice(c, d) PROVE Token'
  BY <1>1, TokenSame DEF GetDevice, Shape, TypeOK
<1>2. ASSUME NEW k \in Cmd, QueueCmdNoMemory(c, k) PROVE Token'
  BY <1>2, TokenSame DEF QueueCmdNoMemory, Shape, TypeOK
<1>3. CASE RejectArgs(c) \/ RequestPost(c) \/ QueueCmdUnlock(c)
  BY <1>3, TokenSame DEF RejectArgs, RequestPost, QueueCmdUnlock, Shape, TypeOK
<1>4. CASE ClientRelease(c)
  <2>1. cdev[c] \in Device
    BY <1>4 DEF ClientRelease, Shape, ClientShape
  <2>2. Leaving(cdev[c], <<"client", c>>)
    BY <1>4 DEF ClientRelease, Leaving
  <2>3. cmdList' = cmdList
    BY <1>4, <2>1, <2>2, ReleaseHarmless DEF ClientRelease
  <2> QED
    BY <1>4, <2>3, TokenSame DEF ClientRelease, Shape, TypeOK
<1> QED
  BY <1>1, <1>2, <1>3, <1>4

\* Steps of a worker that do not touch a list or a FIFO.
LEMMA WorkerTokenSame ==
  ASSUME IInv, NEW w \in Worker,
         \/ WorkerTest(w) \/ WorkerWait(w) \/ WorkerDrained(w)
         \/ WorkerCancel(w) \/ WorkerStart(w) \/ WorkerFinish(w) \/ WorkerRelease(w)
  PROVE  Token'
<1> USE DEF IInv, Engaged, Requesting, clientVars, WorkerAt
<1>1. CASE WorkerTest(w) \/ WorkerWait(w) \/ WorkerDrained(w)
  BY <1>1, TokenSame DEF WorkerTest, WorkerWait, WorkerDrained, Shape, TypeOK
<1>2. CASE WorkerCancel(w) \/ WorkerStart(w) \/ WorkerFinish(w)
  BY <1>2, TokenSame DEF WorkerCancel, WorkerStart, WorkerFinish, Shape, TypeOK
<1>3. CASE WorkerRelease(w)
  <2>1. wdev[w] \in Device
    BY <1>3 DEF WorkerRelease, Shape, WorkerShape, HasDev
  <2>2. Leaving(wdev[w], <<"worker", w>>)
    BY <1>3 DEF WorkerRelease, Leaving
  <2>3. cmdList' = cmdList
    BY <1>3, <2>1, <2>2, ReleaseHarmless DEF WorkerRelease
  <2> QED
    BY <1>3, <2>3, TokenSame DEF WorkerRelease, Shape, TypeOK
<1> QED
  BY <1>1, <1>2, <1>3

\* QueueCmd: the client leaves Request out only if a worker is engaged.
LEMMA QueueCmdToken ==
  ASSUME IInv, NEW c \in Client, NEW k \in Cmd, QueueCmd(c, k)
  PROVE  Token'
<1> DEFINE d == cdev[c]
           q == CmdQueue[k]
<1>1. d \in Device /\ q \in Queue /\ cpc[c] = "got"
  BY ConstantsAssumption DEF QueueCmd, IInv, Shape, ClientShape
<1>2. /\ execList' = execList /\ running' = running
      /\ \A e \in Device, p \in Queue, w \in Worker :
            Engaged(w, e, p)' = Engaged(w, e, p) /\ wpc' = wpc
  BY DEF QueueCmd, workerVars, Engaged
<1>3. /\ \A e \in Device, p \in Queue :
            cmdList'[e][p] = IF e = d /\ p = q THEN Append(cmdList[d][q], k)
                                               ELSE cmdList[e][p]
      /\ cmdList'[d][q] # <<>>
  <2>1. cmdList \in [Device -> [Queue -> Seq(Cmd)]]
    BY DEF IInv, Shape, TypeOK
  <2>2. cmdList[d][q] \in Seq(Cmd)
    BY <1>1, <2>1
  <2>3. Append(cmdList[d][q], k) \in Seq(Cmd) /\ Append(cmdList[d][q], k) # <<>>
    <3>1. Append(cmdList[d][q], k) \in Seq(Cmd)
      BY <2>2
    <3>2. Len(Append(cmdList[d][q], k)) = Len(cmdList[d][q]) + 1
      BY <2>2
    <3>3. Len(cmdList[d][q]) \in Nat /\ Len(<<>>) = 0
      BY <2>2
    <3>4. Append(cmdList[d][q], k) # <<>>
      BY <3>2, <3>3
    <3> QED
      BY <3>1, <3>4
  <2>4. cmdList' = [cmdList EXCEPT ![d][q] = Append(cmdList[d][q], k)]
    BY DEF QueueCmd
  <2> QED
    BY <1>1, <2>1, <2>3, <2>4, Update2
<1>4. \A e \in Device, p \in Queue, b \in Client :
        Requesting(b, e, p)' =
          IF b = c THEN MustRequest(d, q) /\ e = d /\ p = q ELSE Requesting(b, e, p)
  <2>1. /\ cdev' = cdev
        /\ cqueue' = [cqueue EXCEPT ![c] = q]
        /\ \/ MustRequest(d, q) /\ cpc' = [cpc EXCEPT ![c] = "request"]
           \/ ~MustRequest(d, q) /\ cpc' = [cpc EXCEPT ![c] = "release"]
    BY DEF QueueCmd
  <2>2. DOMAIN cpc = Client /\ DOMAIN cqueue = Client
    BY DEF IInv, Shape, TypeOK
  <2> QED
    BY <2>1, <2>2 DEF Requesting
<1>5. ~Requesting(c, d, q)
  BY <1>1 DEF Requesting
<1>6. ListedOnce'
  BY <1>2 DEF IInv, Token, ListedOnce
<1>7. MustRequest(d, q) => /\ d \notin Range(execList[q])
                           /\ \A w \in Worker : ~Engaged(w, d, q)
  BY <1>1 DEF MustRequest, IInv, Token, ListedFree, RunningExact
<1>8. ListedFree'
  <2> SUFFICES ASSUME NEW e \in Device, NEW p \in Queue, e \in Range(execList[p])
               PROVE  /\ cmdList'[e][p] # <<>> /\ ~running[e][p]
                      /\ \A w \in Worker : ~Engaged(w, e, p)
                      /\ \A b \in Client : ~Requesting(b, e, p)'
    BY <1>2 DEF ListedFree, Range
  <2>1. /\ cmdList[e][p] # <<>> /\ ~running[e][p]
        /\ \A w \in Worker : ~Engaged(w, e, p)
        /\ \A b \in Client : ~Requesting(b, e, p)
    BY DEF IInv, Token, ListedFree
  <2>2. cmdList'[e][p] # <<>>
    BY <1>3, <2>1
  <2>3. ASSUME NEW b \in Client PROVE ~Requesting(b, e, p)'
    BY <1>4, <1>7, <2>1
  <2> QED
    BY <2>1, <2>2, <2>3
<1>9. RequestedFree'
  <2> SUFFICES ASSUME NEW e \in Device, NEW p \in Queue, NEW b \in Client,
                      Requesting(b, e, p)'
               PROVE  /\ cmdList'[e][p] # <<>> /\ ~running[e][p]
                      /\ \A w \in Worker : ~Engaged(w, e, p)
    BY <1>2 DEF RequestedFree
  <2>1. CASE b = c
    BY ZenonT(30), <1>3, <1>4, <1>7, <2>1 DEF MustRequest
  <2>2. CASE b # c
    <3>1. /\ cmdList[e][p] # <<>> /\ ~running[e][p]
          /\ \A w \in Worker : ~Engaged(w, e, p)
      BY <1>4, <2>2 DEF IInv, Token, RequestedFree
    <3>2. cmdList'[e][p] # <<>>
      BY <1>3, <3>1
    <3> QED
      BY <3>1, <3>2
  <2> QED
    BY <2>1, <2>2
<1>10. RunningExact'
  BY <1>1, <1>2, <1>3 DEF IInv, Token, RunningExact
<1>11. SingleRunner'
  BY <1>2 DEF IInv, Token, SingleRunner
<1>12. NoLostDevice'
  <2> SUFFICES ASSUME NEW e \in Device, NEW p \in Queue, cmdList'[e][p] # <<>>
               PROVE  \/ e \in Range(execList[p])
                      \/ \E w \in Worker : Engaged(w, e, p)
                      \/ \E b \in Client : Requesting(b, e, p)'
    BY <1>2 DEF NoLostDevice, Range
  <2>1. CASE cmdList[e][p] # <<>>
    <3>1. \/ e \in Range(execList[p])
          \/ \E w \in Worker : Engaged(w, e, p)
          \/ \E b \in Client : Requesting(b, e, p)
      BY <2>1 DEF IInv, Token, NoLostDevice
    <3>2. \A b \in Client : Requesting(b, e, p) => b # c
      BY <1>1 DEF Requesting
    <3> QED
      BY <1>4, <3>1, <3>2
  <2>2. CASE cmdList[e][p] = <<>>
    <3>1. e = d /\ p = q
      BY <1>3, <2>2
    <3>2. CASE MustRequest(d, q)
      BY <1>4, <3>1, <3>2
    <3>3. CASE ~MustRequest(d, q)
      BY <1>1, <2>2, <3>1, <3>3 DEF MustRequest, IInv, Token, RunningExact
    <3> QED
      BY <3>2, <3>3
  <2> QED
    BY <2>1, <2>2
<1> QED
  BY <1>6, <1>8, <1>9, <1>10, <1>11, <1>12 DEF Token

\* Request: the work announced by one client becomes one list entry.
LEMMA RequestToken ==
  ASSUME IInv, NEW c \in Client, Request(c)
  PROVE  Token'
<1> DEFINE d == cdev[c]
           q == cqueue[c]
<1>1. d \in Device /\ q \in Queue /\ Requesting(c, d, q)
  BY DEF Request, Requesting, IInv, Shape, ClientShape, TypeOK
<1>2. execList \in [Queue -> Seq(Device)] /\ execList[q] \in Seq(Device)
  BY <1>1 DEF IInv, Shape, TypeOK
<1>3. /\ d \notin Range(execList[q])
      /\ execList' = [execList EXCEPT ![q] = Append(execList[q], d)]
      /\ cmdList' = cmdList /\ running' = running /\ wpc' = wpc
  BY DEF Request, workerVars
<1>4. \A e \in Device, p \in Queue, w \in Worker : Engaged(w, e, p)' = Engaged(w, e, p)
  BY DEF Request, workerVars, Engaged
<1>5. \A e \in Device, p \in Queue, b \in Client :
        Requesting(b, e, p)' = (Requesting(b, e, p) /\ b # c)
  <2>1. /\ cdev' = cdev /\ cqueue' = cqueue /\ DOMAIN cpc = Client
        /\ \E to \in {"post", "unlock"} : cpc' = [cpc EXCEPT ![c] = to]
    BY DEF Request, IInv, Shape, TypeOK
  <2> QED
    BY <2>1 DEF Requesting
<1>6. \A b \in Client : Requesting(b, d, q) => b = c
  <2> SUFFICES ASSUME NEW b \in Client, Requesting(b, d, q) PROVE b = c
    OBVIOUS
  <2>1. cmdLock[d][q] = c /\ cmdLock[d][q] = b
    BY <1>1 DEF IInv, Shape, LockShape, Requesting, HasLock
  <2> QED
    BY <2>1
<1>7. \A e \in Device, p \in Queue :
        e \in Range(execList'[p]) <=> e \in Range(execList[p]) \/ (e = d /\ p = q)
  BY <1>1, <1>2, <1>3, RangeAppend
<1>8. ListedOnce'
  <2> SUFFICES ASSUME NEW p \in Queue
               PROVE  \A i, j \in 1..Len(execList'[p]) :
                         execList'[p][i] = execList'[p][j] => i = j
    BY DEF ListedOnce
  <2>1. \A i, j \in 1..Len(execList[p]) : execList[p][i] = execList[p][j] => i = j
    BY DEF IInv, Token, ListedOnce
  <2>2. CASE p # q
    BY <1>2, <1>3, <2>1, <2>2
  <2>3. CASE p = q
    <3>1. execList'[q] = Append(execList[q], d)
      BY <1>1, <1>2, <1>3
    <3>2. \A i, j \in 1..Len(execList[q]) : execList[q][i] = execList[q][j] => i = j
      BY <2>1, <2>3
    <3>3. \A i, j \in 1..Len(Append(execList[q], d)) :
             Append(execList[q], d)[i] = Append(execList[q], d)[j] => i = j
      BY <1>1, <1>2, <1>3, <3>2, AppendDistinct
    <3> QED
      BY <2>3, <3>1, <3>3
  <2> QED
    BY <2>2, <2>3
<1>9. ListedFree'
  <2> SUFFICES ASSUME NEW e \in Device, NEW p \in Queue, e \in Range(execList'[p])
               PROVE  /\ cmdList[e][p] # <<>> /\ ~running[e][p]
                      /\ \A w \in Worker : ~Engaged(w, e, p)
                      /\ \A b \in Client : ~Requesting(b, e, p)'
    BY <1>3, <1>4 DEF ListedFree, Range
  <2>1. CASE e \in Range(execList[p])
    BY <1>5, <2>1 DEF IInv, Token, ListedFree
  <2>2. CASE e = d /\ p = q
    BY <1>1, <1>5, <1>6, <2>2 DEF IInv, Token, RequestedFree
  <2> QED
    BY <1>7, <2>1, <2>2
<1>10. RequestedFree' /\ RunningExact' /\ SingleRunner'
  <2>1. RequestedFree'
    BY <1>3, <1>4, <1>5 DEF IInv, Token, RequestedFree
  <2>2. RunningExact'
    BY <1>3, <1>4 DEF IInv, Token, RunningExact
  <2>3. SingleRunner'
    BY <1>4 DEF IInv, Token, SingleRunner
  <2> QED
    BY <2>1, <2>2, <2>3
<1>11. NoLostDevice'
  <2> SUFFICES ASSUME NEW e \in Device, NEW p \in Queue, cmdList[e][p] # <<>>
               PROVE  \/ e \in Range(execList'[p])
                      \/ \E w \in Worker : Engaged(w, e, p)
                      \/ \E b \in Client : Requesting(b, e, p)'
    BY <1>3, <1>4 DEF NoLostDevice, Range
  <2>1. \/ e \in Range(execList[p])
        \/ \E w \in Worker : Engaged(w, e, p)
        \/ \E b \in Client : Requesting(b, e, p)
    BY DEF IInv, Token, NoLostDevice
  <2>2. ASSUME NEW b \in Client, Requesting(b, e, p), b = c
        PROVE  e \in Range(execList'[p])
    BY <1>7, <2>2 DEF Requesting
  <2> QED
    BY <1>5, <1>7, <2>1, <2>2
<1> QED
  BY <1>8, <1>9, <1>10, <1>11 DEF Token

\* WorkerTake: a list entry becomes one engaged worker.
LEMMA TakeToken ==
  ASSUME IInv, NEW w \in Worker, WorkerTake(w)
  PROVE  Token'
<1> DEFINE q == WorkerQueue[w]
           d == Head(execList[q])
<1>1. q \in Queue
  BY ConstantsAssumption
<1>2. execList \in [Queue -> Seq(Device)] /\ execList[q] \in Seq(Device) /\ execList[q] # <<>>
  BY <1>1 DEF IInv, Shape, TypeOK, WorkerTake
<1>3. /\ execList' = [execList EXCEPT ![q] = Tail(execList[q])]
      /\ cmdList' = cmdList /\ running' = running
  BY DEF WorkerTake
<1>4. d \in Device
  BY <1>2
<1>5. /\ wpc[w] = "drain" /\ wpc'[w] = "begin" /\ wdev'[w] = d
      /\ \A v \in Worker : v # w => wpc'[v] = wpc[v] /\ wdev'[v] = wdev[v]
  BY DEF WorkerTake, WorkerAt, IInv, Shape, TypeOK
<1>6. \A e \in Device, p \in Queue, v \in Worker :
        Engaged(v, e, p)' = IF v = w THEN e = d /\ p = q ELSE Engaged(v, e, p)
  BY <1>5 DEF Engaged
<1>7. \A e \in Device, p \in Queue : ~Engaged(w, e, p)
  BY <1>5 DEF Engaged
<1>8. \A e \in Device, p \in Queue, c \in Client :
        Requesting(c, e, p)' = Requesting(c, e, p)
  BY DEF WorkerTake, clientVars, Requesting
<1>9. /\ d \notin Range(Tail(execList[q]))
      /\ \A i, j \in 1..Len(Tail(execList[q])) :
            Tail(execList[q])[i] = Tail(execList[q])[j] => i = j
  <2>1. \A i, j \in 1..Len(execList[q]) : execList[q][i] = execList[q][j] => i = j
    BY <1>1 DEF IInv, Token, ListedOnce
  <2> QED
    BY <1>2, <2>1, TailDistinct
<1>10. \A e \in Device, p \in Queue :
         e \in Range(execList'[p]) <=> e \in Range(execList[p]) /\ ~(e = d /\ p = q)
  BY <1>1, <1>2, <1>3, <1>9, RangeTail
<1>11. /\ cmdList[d][q] # <<>> /\ ~running[d][q]
       /\ \A v \in Worker : ~Engaged(v, d, q)
       /\ \A c \in Client : ~Requesting(c, d, q)
  <2>1. d \in Range(execList[q])
    BY <1>2, RangeTail
  <2> QED
    BY <1>1, <1>4, <2>1 DEF IInv, Token, ListedFree
<1>12. ListedOnce'
  BY <1>1, <1>2, <1>3, <1>9 DEF IInv, Token, ListedOnce
<1>13. ListedFree'
  <2> SUFFICES ASSUME NEW e \in Device, NEW p \in Queue, e \in Range(execList'[p])
               PROVE  /\ cmdList[e][p] # <<>> /\ ~running[e][p]
                      /\ \A v \in Worker : ~Engaged(v, e, p)'
                      /\ \A c \in Client : ~Requesting(c, e, p)
    BY <1>3, <1>8 DEF ListedFree, Range
  <2>1. e \in Range(execList[p]) /\ ~(e = d /\ p = q)
    BY <1>10
  <2> QED
    BY <1>6, <2>1 DEF IInv, Token, ListedFree
<1>14. RequestedFree'
  <2> SUFFICES ASSUME NEW e \in Device, NEW p \in Queue, NEW c \in Client,
                      Requesting(c, e, p)
               PROVE  /\ cmdList[e][p] # <<>> /\ ~running[e][p]
                      /\ \A v \in Worker : ~Engaged(v, e, p)'
    BY <1>3, <1>8 DEF RequestedFree
  <2>1. ~(e = d /\ p = q)
    BY <1>11
  <2> QED
    BY <1>6, <2>1 DEF IInv, Token, RequestedFree
<1>15. RunningExact'
  <2> SUFFICES ASSUME NEW e \in Device, NEW p \in Queue
               PROVE  /\ \A v \in Worker : Engaged(v, e, p)' =>
                           IF wpc'[v] = "begin"
                           THEN ~running[e][p] /\ cmdList[e][p] # <<>>
                           ELSE running[e][p]
                      /\ running[e][p] => \E v \in Worker : Engaged(v, e, p)'
    BY <1>3 DEF RunningExact
  <2>1. ASSUME NEW v \in Worker, Engaged(v, e, p)'
        PROVE  IF wpc'[v] = "begin" THEN ~running[e][p] /\ cmdList[e][p] # <<>>
                                    ELSE running[e][p]
    <3>1. CASE v = w
      BY <1>5, <1>6, <1>11, <2>1, <3>1
    <3>2. CASE v # w
      BY <1>5, <1>6, <2>1, <3>2 DEF IInv, Token, RunningExact
    <3> QED
      BY <3>1, <3>2
  <2>2. ASSUME running[e][p] PROVE \E v \in Worker : Engaged(v, e, p)'
    BY <1>6, <1>7, <2>2 DEF IInv, Token, RunningExact
  <2> QED
    BY <2>1, <2>2
<1>16. SingleRunner'
  <2> SUFFICES ASSUME NEW e \in Device, NEW p \in Queue, NEW u \in Worker, NEW v \in Worker,
                      Engaged(u, e, p)', Engaged(v, e, p)'
               PROVE  u = v
    BY DEF SingleRunner
  <2>1. CASE u = w \/ v = w
    <3>1. e = d /\ p = q
      BY <1>6, <2>1
    <3> QED
      BY <1>1, <1>4, <1>6, <1>11, <3>1
  <2>2. CASE u # w /\ v # w
    BY <1>6, <2>2 DEF IInv, Token, SingleRunner
  <2> QED
    BY <2>1, <2>2
<1>17. NoLostDevice'
  <2> SUFFICES ASSUME NEW e \in Device, NEW p \in Queue, cmdList[e][p] # <<>>
               PROVE  \/ e \in Range(execList'[p])
                      \/ \E v \in Worker : Engaged(v, e, p)'
                      \/ \E c \in Client : Requesting(c, e, p)
    BY <1>3, <1>8 DEF NoLostDevice, Range
  <2>1. \/ e \in Range(execList[p])
        \/ \E v \in Worker : Engaged(v, e, p)
        \/ \E c \in Client : Requesting(c, e, p)
    BY DEF IInv, Token, NoLostDevice
  <2>2. CASE e = d /\ p = q
    BY <1>6, <2>2
  <2>3. CASE ~(e = d /\ p = q)
    BY <1>6, <1>7, <1>10, <2>1, <2>3
  <2> QED
    BY <2>2, <2>3
<1> QED
  BY <1>12, <1>13, <1>14, <1>15, <1>16, <1>17 DEF Token

\* WorkerPop: a worker that finds the FIFO empty lets go of the device in
\* the step that clears _bRunning.
LEMMA PopToken ==
  ASSUME IInv, NEW w \in Worker, WorkerPop(w)
  PROVE  Token'
<1> DEFINE d == wdev[w]
           q == WorkerQueue[w]
           more == cmdList[d][q] # <<>>
<1>1. d \in Device /\ q \in Queue /\ Engaged(w, d, q)
  BY ConstantsAssumption DEF WorkerPop, IInv, Shape, WorkerShape, HasDev, Engaged
<1>2. execList' = execList
  BY DEF WorkerPop
<1>3. \A e \in Device, p \in Queue, c \in Client :
        Requesting(c, e, p)' = Requesting(c, e, p)
  BY DEF WorkerPop, clientVars, Requesting
<1>4. /\ more => running'[d][q]
      /\ ~more => ~running'[d][q]
      /\ \A e \in Device, p \in Queue :
            ~(e = d /\ p = q) => running'[e][p] = running[e][p]
  <2>1. running \in [Device -> [Queue -> BOOLEAN]]
    BY DEF IInv, Shape, TypeOK
  <2>2. ASSUME NEW b \in BOOLEAN, running' = [running EXCEPT ![d][q] = b]
        PROVE  /\ running'[d][q] = b
               /\ \A e \in Device, p \in Queue :
                     ~(e = d /\ p = q) => running'[e][p] = running[e][p]
    BY <1>1, <2>1, <2>2, Update2
  <2>3. CASE more
    <3>1. running' = [running EXCEPT ![d][q] = TRUE]
      BY <2>3 DEF WorkerPop
    <3> QED
      BY <2>2, <2>3, <3>1
  <2>4. CASE ~more
    <3>1. running' = [running EXCEPT ![d][q] = FALSE]
      BY <2>4 DEF WorkerPop
    <3> QED
      BY <2>2, <2>4, <3>1
  <2> QED
    BY <2>3, <2>4
<1>5. \A e \in Device, p \in Queue : ~(e = d /\ p = q) => cmdList'[e][p] = cmdList[e][p]
  <2>1. cmdList \in [Device -> [Queue -> Seq(Cmd)]]
    BY DEF IInv, Shape, TypeOK
  <2>2. CASE more
    <3>1. cmdList' = [cmdList EXCEPT ![d][q] = Tail(cmdList[d][q])]
      BY <2>2 DEF WorkerPop
    <3>2. cmdList[d][q] \in Seq(Cmd)
      BY <1>1, <2>1
    <3>3. Tail(cmdList[d][q]) \in Seq(Cmd)
      BY <2>2, <3>2
    <3> QED
      BY <1>1, <2>1, <3>1, <3>3, Update2
  <2>3. CASE ~more
    BY <2>3 DEF WorkerPop
  <2> QED
    BY <2>2, <2>3
<1>6. ~more => cmdList'[d][q] = <<>>
  BY DEF WorkerPop
<1>7. /\ wdev' = wdev
      /\ wpc'[w] = IF more THEN "one" ELSE "release"
      /\ \A v \in Worker : v # w => wpc'[v] = wpc[v]
  BY DEF WorkerPop, IInv, Shape, TypeOK
<1>8. \A e \in Device, p \in Queue, v \in Worker :
        Engaged(v, e, p)' <=> (Engaged(v, e, p) /\ (v = w => more))
  BY <1>1, <1>7 DEF Engaged
<1>9. \A e \in Device, p \in Queue : Engaged(w, e, p) => e = d /\ p = q
  BY DEF Engaged
<1>10. \A v \in Worker : Engaged(v, d, q) => v = w
  BY <1>1 DEF IInv, Token, SingleRunner
<1>11. d \notin Range(execList[q]) /\ \A c \in Client : ~Requesting(c, d, q)
  BY <1>1 DEF IInv, Token, ListedFree, RequestedFree
<1>12. ListedOnce'
  BY <1>2 DEF IInv, Token, ListedOnce
<1>13. ListedFree'
  <2> SUFFICES ASSUME NEW e \in Device, NEW p \in Queue, e \in Range(execList[p])
               PROVE  /\ cmdList'[e][p] # <<>> /\ ~running'[e][p]
                      /\ \A v \in Worker : ~Engaged(v, e, p)'
                      /\ \A c \in Client : ~Requesting(c, e, p)
    BY <1>2, <1>3 DEF ListedFree, Range
  <2>1. ~(e = d /\ p = q)
    BY <1>11
  <2>2. /\ cmdList[e][p] # <<>> /\ ~running[e][p]
        /\ \A v \in Worker : ~Engaged(v, e, p)
        /\ \A c \in Client : ~Requesting(c, e, p)
    BY DEF IInv, Token, ListedFree
  <2>3. cmdList'[e][p] = cmdList[e][p] /\ running'[e][p] = running[e][p]
    BY <1>4, <1>5, <2>1
  <2> QED
    BY <1>8, <2>2, <2>3
<1>14. RequestedFree'
  <2> SUFFICES ASSUME NEW e \in Device, NEW p \in Queue, NEW c \in Client,
                      Requesting(c, e, p)
               PROVE  /\ cmdList'[e][p] # <<>> /\ ~running'[e][p]
                      /\ \A v \in Worker : ~Engaged(v, e, p)'
    BY <1>3 DEF RequestedFree
  <2>1. ~(e = d /\ p = q)
    BY <1>11
  <2>2. /\ cmdList[e][p] # <<>> /\ ~running[e][p]
        /\ \A v \in Worker : ~Engaged(v, e, p)
    BY DEF IInv, Token, RequestedFree
  <2>3. cmdList'[e][p] = cmdList[e][p] /\ running'[e][p] = running[e][p]
    BY <1>4, <1>5, <2>1
  <2> QED
    BY <1>8, <2>2, <2>3
<1>15. RunningExact'
  <2> SUFFICES ASSUME NEW e \in Device, NEW p \in Queue
               PROVE  /\ \A v \in Worker : Engaged(v, e, p)' =>
                           IF wpc'[v] = "begin"
                           THEN ~running'[e][p] /\ cmdList'[e][p] # <<>>
                           ELSE running'[e][p]
                      /\ running'[e][p] => \E v \in Worker : Engaged(v, e, p)'
    BY DEF RunningExact
  <2>1. CASE e = d /\ p = q
    BY <1>1, <1>4, <1>7, <1>8, <1>10, <2>1
  <2>2. CASE ~(e = d /\ p = q)
    <3>1. \A v \in Worker : Engaged(v, e, p)' <=> Engaged(v, e, p)
      BY <1>8, <1>9, <2>2
    <3>2. \A v \in Worker : Engaged(v, e, p) => wpc'[v] = wpc[v]
      BY <1>7, <1>9, <2>2
    <3> QED
      BY <1>4, <1>5, <2>2, <3>1, <3>2 DEF IInv, Token, RunningExact
  <2> QED
    BY <2>1, <2>2
<1>16. SingleRunner'
  BY <1>8 DEF IInv, Token, SingleRunner
<1>17. NoLostDevice'
  <2> SUFFICES ASSUME NEW e \in Device, NEW p \in Queue, cmdList'[e][p] # <<>>
               PROVE  \/ e \in Range(execList[p])
                      \/ \E v \in Worker : Engaged(v, e, p)'
                      \/ \E c \in Client : Requesting(c, e, p)
    BY <1>2, <1>3 DEF NoLostDevice, Range
  <2>1. CASE e = d /\ p = q
    BY <1>1, <1>6, <1>8, <2>1
  <2>2. CASE ~(e = d /\ p = q)
    BY <1>5, <1>8, <1>9, <2>2 DEF IInv, Token, NoLostDevice
  <2> QED
    BY <2>1, <2>2
<1> QED
  BY <1>12, <1>13, <1>14, <1>15, <1>16, <1>17 DEF Token

------------------------------------------------------------------------------
(* The counting part: the reference count is the number of holders.        *)

\* Steps that change no holder and no count.
LEMMA CountedSame ==
  ASSUME Counted, refcnt' = refcnt, cdev' = cdev, execList' = execList, wdev' = wdev,
         \A d \in Device : mon'[d] \in {"attached", "detaching"} <=>
                           mon[d] \in {"attached", "detaching"}
  PROVE  Counted'
<1>1. \A d \in Device : Holders(d)' = Holders(d)
  BY DEF Holders, Range
<1> QED
  BY <1>1 DEF Counted

\* One device gets a new holder and a reference, the others keep theirs.
LEMMA CountedMore ==
  ASSUME Counted, refcnt \in [Device -> Int], NEW d \in Device, AddRef(d), NEW h,
         h \notin Holders(d), Holders(d)' = Holders(d) \cup {h},
         \A e \in Device \ {d} : Holders(e)' = Holders(e)
  PROVE  Counted'
<1>1. IsFiniteSet(Holders(d)) /\ refcnt[d] = Cardinality(Holders(d))
  BY DEF Counted
<1>2. /\ IsFiniteSet(Holders(d) \cup {h})
      /\ Cardinality(Holders(d) \cup {h}) = Cardinality(Holders(d)) + 1
  BY <1>1, OneMore
<1>3. refcnt'[d] = refcnt[d] + 1 /\ \A e \in Device \ {d} : refcnt'[e] = refcnt[e]
  BY DEF AddRef
<1> QED
  BY <1>1, <1>2, <1>3 DEF Counted

\* One device loses a holder and a reference, the others keep theirs.
LEMMA CountedLess ==
  ASSUME Counted, refcnt \in [Device -> Int], NEW d \in Device, Release(d), NEW h,
         h \in Holders(d), Holders(d)' = Holders(d) \ {h},
         \A e \in Device \ {d} : Holders(e)' = Holders(e)
  PROVE  Counted'
<1>1. IsFiniteSet(Holders(d)) /\ refcnt[d] = Cardinality(Holders(d))
  BY DEF Counted
<1>2. /\ IsFiniteSet(Holders(d) \ {h})
      /\ Cardinality(Holders(d) \ {h}) = Cardinality(Holders(d)) - 1
  BY <1>1, OneLess
<1>3. refcnt'[d] = refcnt[d] - 1 /\ \A e \in Device \ {d} : refcnt'[e] = refcnt[e]
  BY DEF Release
<1> QED
  BY <1>1, <1>2, <1>3 DEF Counted

\* Startup, Cleanup and the monitor.
LEMMA ControlCounted ==
  ASSUME IInv,
         \/ \E w \in Worker : CreateWorker(w)
         \/ CleanupQuit \/ CleanupStep
         \/ \E d \in Device : Attach(d) \/ UpdateState(d) \/ Detach(d) \/ DetachRelease(d)
  PROVE  Counted'
<1>t. /\ mon \in [Device -> {"absent", "attached", "detaching", "gone"}]
      /\ refcnt \in [Device -> Int] /\ Counted
  BY DEF IInv, Shape, TypeOK
<1>1. ASSUME NEW w \in Worker, CreateWorker(w) PROVE Counted'
  BY <1>t, <1>1, CountedSame DEF CreateWorker, clientVars, devVars
<1>2. CASE CleanupQuit
  BY <1>t, <1>2, CountedSame DEF CleanupQuit, clientVars, workerVars, devVars
<1>3. ASSUME NEW q \in Queue, CleanupPost(q) PROVE Counted'
  BY <1>t, <1>3, CountedSame DEF CleanupPost, clientVars, workerVars, devVars
<1>4. CASE CleanupJoin
  BY <1>t, <1>4, CountedSame DEF CleanupJoin, clientVars, workerVars, devVars
<1>5. ASSUME NEW d \in Device, UpdateState(d) \/ Detach(d) PROVE Counted'
  BY <1>t, <1>5, CountedSame DEF UpdateState, Detach, clientVars, workerVars
<1>6. ASSUME NEW d \in Device, Attach(d) PROVE Counted'
  <2>1. /\ mon[d] = "absent" /\ mon' = [mon EXCEPT ![d] = "attached"]
        /\ cdev' = cdev /\ execList' = execList /\ wdev' = wdev /\ AddRef(d)
    BY <1>6 DEF Attach, clientVars, workerVars
  <2>2. <<"monitor", d>> \notin Holders(d)
    BY <2>1 DEF Holders
  <2>3. Holders(d)' = Holders(d) \cup {<<"monitor", d>>}
    BY <1>t, <2>1 DEF Holders, Range
  <2>4. \A e \in Device \ {d} : Holders(e)' = Holders(e)
    BY <1>t, <2>1 DEF Holders, Range
  <2> QED
    BY <1>t, <2>1, <2>2, <2>3, <2>4, CountedMore
<1>7. ASSUME NEW d \in Device, DetachRelease(d) PROVE Counted'
  <2>1. /\ mon[d] = "detaching" /\ mon' = [mon EXCEPT ![d] = "gone"]
        /\ cdev' = cdev /\ execList' = execList /\ wdev' = wdev /\ Release(d)
    BY <1>7 DEF DetachRelease, clientVars, workerVars
  <2>2. <<"monitor", d>> \in Holders(d)
    BY <2>1 DEF Holders
  <2>3. Holders(d)' = Holders(d) \ {<<"monitor", d>>}
    BY <1>t, <2>1 DEF Holders, Range
  <2>4. \A e \in Device \ {d} : Holders(e)' = Holders(e)
    BY <1>t, <2>1 DEF Holders, Range
  <2> QED
    BY <1>t, <2>1, <2>2, <2>3, <2>4, CountedLess
<1> QED
  BY <1>1, <1>2, <1>3, <1>4, <1>5, <1>6, <1>7 DEF CleanupStep

\* Clients.
LEMMA ClientCounted ==
  ASSUME IInv, NEW c \in Client, (\E d \in Device : GetDevice(c, d)) \/ ClientStep(c)
  PROVE  Counted'
<1>t. /\ cdev \in [Client -> Device \cup {NoDev}] /\ refcnt \in [Device -> Int] /\ Counted
      /\ execList \in [Queue -> Seq(Device)]
  BY DEF IInv, Shape, TypeOK
<1>n. NoDev \notin Device
  BY ConstantsAssumption
<1>1. ASSUME NEW k \in Cmd, QueueCmd(c, k) PROVE Counted'
  BY <1>t, <1>1, CountedSame DEF QueueCmd, workerVars, devVars
<1>2. ASSUME NEW k \in Cmd, QueueCmdNoMemory(c, k) PROVE Counted'
  BY <1>t, <1>2, CountedSame DEF QueueCmdNoMemory, workerVars, devVars
<1>3. CASE RejectArgs(c) \/ RequestPost(c) \/ QueueCmdUnlock(c)
  BY <1>t, <1>3, CountedSame DEF RejectArgs, RequestPost, QueueCmdUnlock, workerVars,
     devVars
<1>4. ASSUME NEW d \in Device, GetDevice(c, d) PROVE Counted'
  <2>1. /\ cdev[c] = NoDev /\ cdev' = [cdev EXCEPT ![c] = d]
        /\ mon' = mon /\ execList' = execList /\ wdev' = wdev /\ AddRef(d)
    BY <1>4 DEF GetDevice, ClientAt, workerVars, devVars, IInv, Shape, ClientShape
  <2>2. <<"client", c>> \notin Holders(d)
    BY <2>1, <1>n DEF Holders
  <2>3. Holders(d)' = Holders(d) \cup {<<"client", c>>}
    BY <1>t, <1>n, <2>1 DEF Holders, Range
  <2>4. \A e \in Device \ {d} : Holders(e)' = Holders(e)
    BY <1>t, <1>n, <2>1 DEF Holders, Range
  <2> QED
    BY <1>t, <2>1, <2>2, <2>3, <2>4, CountedMore
<1>5. CASE Request(c)
  <2> DEFINE d == cdev[c]
             q == cqueue[c]
  <2>1. d \in Device /\ q \in Queue
    BY <1>5 DEF Request, IInv, Shape, ClientShape, TypeOK
  <2>2. /\ d \notin Range(execList[q])
        /\ execList' = [execList EXCEPT ![q] = Append(execList[q], d)]
        /\ mon' = mon /\ cdev' = cdev /\ wdev' = wdev /\ AddRef(d)
    BY <1>5 DEF Request, workerVars, devVars
  <2>3. \A e \in Device, p \in Queue :
          e \in Range(execList'[p]) <=> e \in Range(execList[p]) \/ (e = d /\ p = q)
    BY <1>t, <2>1, <2>2, RangeAppend
  <2>4. <<"list", q>> \notin Holders(d)
    BY <2>2 DEF Holders
  <2>5. Holders(d)' = Holders(d) \cup {<<"list", q>>}
    BY <2>1, <2>2, <2>3 DEF Holders, Range
  <2>6. \A e \in Device \ {d} : Holders(e)' = Holders(e)
    BY <2>1, <2>2, <2>3 DEF Holders, Range
  <2> QED
    BY <1>t, <2>1, <2>2, <2>4, <2>5, <2>6, CountedMore
<1>6. CASE ClientRelease(c)
  <2>0. PICK d \in Device : d = cdev[c]
    BY <1>6 DEF ClientRelease, ClientAt, IInv, Shape, ClientShape
  <2>1. /\ cdev[c] = d /\ cdev' = [cdev EXCEPT ![c] = NoDev]
        /\ mon' = mon /\ execList' = execList /\ wdev' = wdev /\ Release(d)
    BY <1>6, <2>0 DEF ClientRelease, ClientAt, workerVars, devVars
  <2>2. <<"client", c>> \in Holders(d)
    BY <2>1 DEF Holders
  <2>3. Holders(d)' = Holders(d) \ {<<"client", c>>}
    BY <1>t, <1>n, <2>1 DEF Holders, Range
  <2>4. \A e \in Device \ {d} : Holders(e)' = Holders(e)
    BY <1>t, <1>n, <2>1 DEF Holders, Range
  <2> QED
    BY <1>t, <2>1, <2>2, <2>3, <2>4, CountedLess
<1> QED
  BY <1>1, <1>2, <1>3, <1>4, <1>5, <1>6 DEF ClientStep

\* Workers.
LEMMA WorkerCounted ==
  ASSUME IInv, NEW w \in Worker, WorkerStep(w)
  PROVE  Counted'
<1>t. /\ wdev \in [Worker -> Device \cup {NoDev}] /\ refcnt \in [Device -> Int] /\ Counted
      /\ execList \in [Queue -> Seq(Device)] /\ ListedOnce
  BY DEF IInv, Shape, TypeOK, Token
<1>n. NoDev \notin Device /\ WorkerQueue[w] \in Queue
  BY ConstantsAssumption
<1>1. CASE WorkerTest(w) \/ WorkerWait(w) \/ WorkerDrained(w)
  BY <1>t, <1>1, CountedSame
     DEF WorkerTest, WorkerWait, WorkerDrained, clientVars, devVars
<1>2. CASE WorkerPop(w)
  BY <1>t, <1>2, CountedSame DEF WorkerPop, clientVars, devVars
<1>3. CASE WorkerCancel(w) \/ WorkerStart(w) \/ WorkerFinish(w)
  BY <1>t, <1>3, CountedSame
     DEF WorkerCancel, WorkerStart, WorkerFinish, clientVars, devVars
<1>4. CASE WorkerTake(w)
  <2> DEFINE q == WorkerQueue[w]
  <2>0. execList[q] \in Seq(Device) /\ execList[q] # <<>>
    BY <1>t, <1>n, <1>4 DEF WorkerTake
  <2>1. PICK d \in Device : d = Head(execList[q])
    BY <2>0
  <2>2. /\ execList' = [execList EXCEPT ![q] = Tail(execList[q])]
        /\ wdev[w] = NoDev /\ wdev' = [wdev EXCEPT ![w] = d]
        /\ mon' = mon /\ cdev' = cdev /\ refcnt' = refcnt
    BY <1>4, <2>1
       DEF WorkerTake, WorkerAt, clientVars, devVars, IInv, Shape, WorkerShape, HasDev
  <2>3. d \notin Range(Tail(execList[q]))
    BY <1>t, <1>n, <2>0, <2>1, TailDistinct DEF ListedOnce
  <2>4. \A e \in Device, p \in Queue :
          e \in Range(execList'[p]) <=> e \in Range(execList[p]) /\ ~(e = d /\ p = q)
    BY <1>t, <1>n, <2>0, <2>1, <2>2, <2>3, RangeTail
  <2>5. <<"list", q>> \in Holders(d)
    BY <1>n, <2>0, <2>1, RangeTail DEF Holders
  <2>6. <<"worker", w>> \notin Holders(d)
    BY <1>n, <2>1, <2>2 DEF Holders
  <2>7. Holders(d)' = (Holders(d) \ {<<"list", q>>}) \cup {<<"worker", w>>}
    BY SMTT(30), <1>t, <1>n, <2>1, <2>2, <2>4 DEF Holders, Range
  <2>8. \A e \in Device \ {d} : Holders(e)' = Holders(e)
    BY <1>t, <1>n, <2>1, <2>2, <2>4 DEF Holders, Range
  <2>9. /\ IsFiniteSet((Holders(d) \ {<<"list", q>>}) \cup {<<"worker", w>>})
        /\ Cardinality((Holders(d) \ {<<"list", q>>}) \cup {<<"worker", w>>})
             = Cardinality(Holders(d))
    <3>1. IsFiniteSet(Holders(d))
      BY <1>t, <2>1 DEF Counted
    <3> QED
      BY ZenonT(30), <3>1, <2>5, <2>6, Exchange
  <2> QED
    BY <1>t, <2>1, <2>2, <2>7, <2>8, <2>9 DEF Counted
<1>5. CASE WorkerRelease(w)
  <2>0. PICK d \in Device : d = wdev[w]
    BY <1>5 DEF WorkerRelease, WorkerAt, IInv, Shape, WorkerShape, HasDev
  <2>1. /\ wdev[w] = d /\ wdev' = [wdev EXCEPT ![w] = NoDev]
        /\ mon' = mon /\ execList' = execList /\ cdev' = cdev /\ Release(d)
    BY <1>5, <2>0 DEF WorkerRelease, WorkerAt, clientVars, devVars
  <2>2. <<"worker", w>> \in Holders(d)
    BY <2>1 DEF Holders
  <2>3. Holders(d)' = Holders(d) \ {<<"worker", w>>}
    BY <1>t, <1>n, <2>1 DEF Holders, Range
  <2>4. \A e \in Device \ {d} : Holders(e)' = Holders(e)
    BY <1>t, <1>n, <2>1 DEF Holders, Range
  <2> QED
    BY <1>t, <2>1, <2>2, <2>3, <2>4, CountedLess
<1> QED
  BY <1>1, <1>2, <1>3, <1>4, <1>5 DEF WorkerStep

------------------------------------------------------------------------------
(* The theorems.                                                           *)

\* Nothing is listed, queued, held or referenced initially.
LEMMA InitIInv == Init => IInv
<1> SUFFICES ASSUME Init PROVE IInv
  OBVIOUS
<1>1. Shape
  BY InitShape
<1>2. \A q \in Queue : execList[q] = <<>> /\ Range(execList[q]) = {}
  BY DEF Init, Range
<1>3. /\ \A d \in Device, q \in Queue : cmdList[d][q] = <<>> /\ ~running[d][q]
      /\ \A w \in Worker : wpc[w] = "absent" /\ wdev[w] = NoDev
      /\ \A c \in Client : cpc[c] = "idle" /\ cdev[c] = NoDev
      /\ \A d \in Device : mon[d] = "absent" /\ refcnt[d] = 0
  BY DEF Init
<1>4. ListedOnce
  BY <1>2 DEF ListedOnce
<1>5. ListedFree /\ RequestedFree /\ RunningExact /\ SingleRunner /\ NoLostDevice
  BY <1>2, <1>3 DEF ListedFree, RequestedFree, RunningExact, SingleRunner, NoLostDevice,
                    Engaged, Requesting
<1>6. \A d \in Device : Holders(d) = {}
  BY <1>2, <1>3, ConstantsAssumption DEF Holders
<1>7. Counted
  BY <1>3, <1>6, FS_EmptySet DEF Counted
<1> QED
  BY <1>1, <1>4, <1>5, <1>7 DEF IInv, Token

\* Every step preserves the invariant.
LEMMA NextIInv == IInv /\ [Next]_vars => IInv'
<1> SUFFICES ASSUME IInv, [Next]_vars PROVE IInv'
  OBVIOUS
<1>1. CASE UNCHANGED vars
  <2>1. Shape'
    BY <1>1 DEF vars, IInv, Shape, TypeOK, ClientShape, WorkerShape, LockShape
  <2>2. Token'
    BY <1>1, TokenSame DEF vars, IInv, Engaged, Requesting
  <2>3. Counted'
    BY <1>1, CountedSame DEF vars, IInv
  <2> QED
    BY <2>1, <2>2, <2>3 DEF IInv
<1>2. ASSUME \/ \E w \in Worker : CreateWorker(w)
             \/ CleanupQuit \/ CleanupStep
             \/ \E d \in Device : Attach(d) \/ UpdateState(d) \/ Detach(d) \/ DetachRelease(d)
      PROVE  IInv'
  BY <1>2, ControlShape, ControlToken, ControlCounted DEF IInv
<1>3. ASSUME NEW c \in Client, (\E d \in Device : GetDevice(c, d)) \/ ClientStep(c)
      PROVE  IInv'
  <2>1. Shape' /\ Counted'
    BY <1>3, ClientStepShape, ClientCounted DEF IInv
  <2>2. Token'
    BY <1>3, ClientTokenSame, QueueCmdToken, RequestToken DEF ClientStep
  <2> QED
    BY <2>1, <2>2 DEF IInv
<1>4. ASSUME NEW w \in Worker, WorkerStep(w) PROVE IInv'
  <2>1. Shape' /\ Counted'
    BY <1>4, WorkerStepShape, WorkerCounted DEF IInv
  <2>2. Token'
    BY <1>4, WorkerTokenSame, TakeToken, PopToken DEF WorkerStep
  <2> QED
    BY <2>1, <2>2 DEF IInv
<1>5. CASE Terminated
  BY <1>1, <1>5 DEF Terminated
<1> QED
  BY <1>1, <1>2, <1>3, <1>4, <1>5 DEF Next

\* The inductive invariant holds in every state.
LEMMA IInvariant == Spec => []IInv
BY InitIInv, NextIInv, PTL DEF Spec

\* The assertion of Request holds for any number of devices, threads and
\* clients.
THEOREM RequestAssertion == Spec => []NoDuplicateRequest
<1>1. IInv => NoDuplicateRequest
  <2> SUFFICES ASSUME IInv, NEW c \in Client, cpc[c] = "request"
               PROVE  cdev[c] \notin Range(execList[cqueue[c]])
    BY DEF NoDuplicateRequest
  <2>1. cdev[c] \in Device /\ cqueue[c] \in Queue
    BY DEF IInv, Shape, ClientShape, TypeOK
  <2> QED
    BY <2>1 DEF IInv, Token, ListedFree, Requesting
<1> QED
  BY IInvariant, <1>1, PTL

\* No two workers ever drain the same FIFO.
THEOREM OneRunnerPerLane == Spec => []SingleRunner
<1>1. IInv => SingleRunner
  BY DEF IInv, Token
<1> QED
  BY IInvariant, <1>1, PTL

\* A queued command is always in sight of somebody.
THEOREM NoCommandForgotten == Spec => []NoLostDevice
<1>1. IInv => NoLostDevice
  BY DEF IInv, Token
<1> QED
  BY IInvariant, <1>1, PTL

\* The reference count is the number of holders in every reachable state.
THEOREM ReferencesExact == Spec => []RefsExact
<1>1. IInv => RefsExact
  BY DEF IInv, Counted, RefsExact
<1> QED
  BY IInvariant, <1>1, PTL

------------------------------------------------------------------------------
(* The destructor.                                                         *)

\* Only a Release by a leaving holder takes a count from one to zero.
LEMMA LastRelease ==
  ASSUME IInv, [Next]_vars, NEW d \in Device, refcnt[d] = 1, refcnt'[d] = 0
  PROVE  \E h : Leaving(d, h)
<1>t. refcnt \in [Device -> Int]
  BY DEF IInv, Shape, TypeOK
<1>1. refcnt' # refcnt
  OBVIOUS
<1>2. ASSUME NEW e \in Device, Release(e) PROVE e = d
  BY <1>t, <1>2 DEF Release
<1>3. ASSUME NEW e, AddRef(e) PROVE FALSE
  BY <1>t, <1>3 DEF AddRef
<1>4. ~UNCHANGED vars /\ ~Terminated
  BY <1>1 DEF vars, Terminated
<1>5. \A w \in Worker : ~CreateWorker(w)
  BY <1>1 DEF CreateWorker
<1>6. ~CleanupQuit /\ ~CleanupStep
  BY <1>1 DEF CleanupQuit, CleanupStep, CleanupPost, CleanupJoin
<1>7. ASSUME NEW e \in Device, Attach(e) \/ UpdateState(e) \/ Detach(e) PROVE FALSE
  BY <1>1, <1>3, <1>7 DEF Attach, UpdateState, Detach
<1>8. ASSUME NEW e \in Device, DetachRelease(e) PROVE Leaving(d, <<"monitor", d>>)
  BY <1>2, <1>8 DEF DetachRelease, Leaving
<1>9. ASSUME NEW c \in Client, NEW e \in Device, GetDevice(c, e) PROVE FALSE
  BY <1>3, <1>9 DEF GetDevice
<1>10. ASSUME NEW c \in Client, ClientStep(c) PROVE Leaving(d, <<"client", c>>)
  <2>1. ClientRelease(c)
    BY <1>1, <1>3, <1>10
       DEF ClientStep, QueueCmd, QueueCmdNoMemory, RejectArgs, Request, RequestPost,
           QueueCmdUnlock
  <2>2. cdev[c] \in Device
    BY <2>1 DEF ClientRelease, ClientAt, IInv, Shape, ClientShape
  <2> QED
    BY <1>2, <2>1, <2>2 DEF ClientRelease, ClientAt, Leaving
<1>11. ASSUME NEW w \in Worker, WorkerStep(w) PROVE Leaving(d, <<"worker", w>>)
  <2>1. WorkerRelease(w)
    BY <1>1, <1>11
       DEF WorkerStep, WorkerTest, WorkerWait, WorkerTake, WorkerDrained, WorkerPop,
           WorkerCancel, WorkerStart, WorkerFinish
  <2>2. wdev[w] \in Device
    BY <2>1 DEF WorkerRelease, WorkerAt, IInv, Shape, WorkerShape, HasDev
  <2> QED
    BY <1>2, <2>1, <2>2 DEF WorkerRelease, WorkerAt, Leaving
<1>12. Next
  BY <1>4
<1> QED
  BY <1>4, <1>5, <1>6, <1>7, <1>8, <1>9, <1>10, <1>11, <1>12 DEF Next

\* The destructor finds no command, no lock held and no worker inside.
THEOREM DestructorIdle == Spec => DestructorFindsNothing
<1>1. ASSUME IInv, [Next]_vars, NEW d \in Device, refcnt[d] = 1, refcnt'[d] = 0
      PROVE  /\ Leftover(d) = {}
             /\ \A q \in Queue : cmdLock[d][q] = NoClient /\ ~running[d][q]
  <2>1. PICK h : Leaving(d, h)
    BY <1>1, LastRelease
  <2>2. Leftover(d) = {}
    <3>1. \A q \in Queue : Range(cmdList[d][q]) = {}
      BY <1>1, <2>1, NothingLeft DEF Range
    <3> QED
      BY <3>1 DEF Leftover
  <2>3. \A x \in Holders(d) : x = h
    <3>1. IsFiniteSet(Holders(d)) /\ Cardinality(Holders(d)) = 1
      BY <1>1 DEF IInv, Counted
    <3>2. h \in Holders(d)
      BY <2>1 DEF Leaving, Holders
    <3> QED
      BY <3>1, <3>2, OnlyOne
  <2>4. ASSUME NEW q \in Queue, cmdLock[d][q] # NoClient PROVE FALSE
    <3>1. PICK c \in Client : cmdLock[d][q] = c
      BY <1>1, <2>4 DEF IInv, Shape, TypeOK
    <3>2. cpc[c] \in HasLock /\ cdev[c] = d
      BY <1>1, <3>1 DEF IInv, Shape, LockShape
    <3>3. <<"client", c>> \in Holders(d)
      BY <3>2 DEF Holders
    <3> QED
      BY <2>1, <2>3, <3>2, <3>3 DEF Leaving, HasLock
  <2>5. ASSUME NEW q \in Queue, running[d][q] PROVE FALSE
    <3>1. PICK w \in Worker : Engaged(w, d, q)
      BY <1>1, <2>5 DEF IInv, Token, RunningExact
    <3>2. <<"worker", w>> \in Holders(d)
      BY <3>1 DEF Holders, Engaged
    <3> QED
      BY <2>1, <2>3, <3>1, <3>2 DEF Leaving, Engaged
  <2> QED
    BY <2>2, <2>4, <2>5
<1>2. IInv /\ [Next]_vars =>
        [\A d \in Device : refcnt[d] = 1 /\ refcnt'[d] = 0 =>
           /\ Leftover(d) = {}
           /\ \A q \in Queue : cmdLock[d][q] = NoClient /\ ~running[d][q]]_vars
  BY <1>1
<1> QED
  BY IInvariant, <1>2, PTL DEF Spec, DestructorFindsNothing

------------------------------------------------------------------------------
(* The semaphore.                                                          *)

Awake == {"drain", "begin", "one", "exec", "next", "release"}

\* Steps that leave the lists alone and can only add posts, due posts and
\* awake workers keep NoLostWakeup.
LEMMA WakeupSame ==
  ASSUME NoLostWakeup, execList' = execList, execQuit => execQuit',
         \A q \in Queue : sem[q] > 0 => sem'[q] > 0,
         \A c \in Client : cpc[c] = "post" =>
            \/ cpc'[c] = "post" /\ cqueue'[c] = cqueue[c]
            \/ sem'[cqueue[c]] > 0,
         \A w \in Worker : wpc[w] \in Awake =>
            wpc'[w] \in Awake \/ execList[WorkerQueue[w]] = <<>>
  PROVE  NoLostWakeup'
BY DEF NoLostWakeup, Awake

\* No step of a worker loses the wakeup.
LEMMA WorkerWakeup ==
  ASSUME Shape, NoLostWakeup, NEW w \in Worker, WorkerStep(w)
  PROVE  NoLostWakeup'
<1> USE DEF WorkerAt, mainVars, clientVars, Awake
<1>t. /\ sem \in [Queue -> Nat] /\ DOMAIN wpc = Worker /\ WorkerQueue[w] \in Queue
      /\ DOMAIN execList = Queue
  BY ConstantsAssumption DEF Shape, TypeOK
<1>1. CASE WorkerTest(w) \/ WorkerDrained(w)
  BY <1>t, <1>1, WakeupSame DEF WorkerTest, WorkerDrained
<1>2. CASE WorkerWait(w)
  <2>1. wpc'[w] = "drain" /\ \A v \in Worker : v # w => wpc'[v] = wpc[v]
    BY <1>t, <1>2 DEF WorkerWait
  <2>2. \A q \in Queue : q # WorkerQueue[w] => sem'[q] = sem[q]
    BY <1>t, <1>2 DEF WorkerWait
  <2>3. /\ execList' = execList /\ execQuit' = execQuit /\ cpc' = cpc /\ cqueue' = cqueue
        /\ wpc[w] = "wait"
    BY <1>2 DEF WorkerWait
  <2> SUFFICES ASSUME NEW q \in Queue, execList[q] # <<>>, ~execQuit
               PROVE  \/ sem'[q] > 0
                      \/ \E c \in Client : cpc[c] = "post" /\ cqueue[c] = q
                      \/ \E v \in Worker : WorkerQueue[v] = q /\ wpc'[v] \in Awake
    BY <2>3 DEF NoLostWakeup
  <2>4. CASE q = WorkerQueue[w]
    BY <2>1, <2>4
  <2>5. CASE q # WorkerQueue[w]
    BY <2>1, <2>2, <2>3, <2>5 DEF NoLostWakeup
  <2> QED
    BY <2>4, <2>5
<1>3. CASE WorkerTake(w)
  <2>1. wpc'[w] = "begin" /\ \A v \in Worker : v # w => wpc'[v] = wpc[v]
    BY <1>t, <1>3 DEF WorkerTake
  <2>2. \A q \in Queue : q # WorkerQueue[w] => execList'[q] = execList[q]
    BY <1>t, <1>3 DEF WorkerTake
  <2>3. /\ sem' = sem /\ execQuit' = execQuit /\ cpc' = cpc /\ cqueue' = cqueue
    BY <1>3 DEF WorkerTake
  <2> SUFFICES ASSUME NEW q \in Queue, execList'[q] # <<>>, ~execQuit
               PROVE  \/ sem[q] > 0
                      \/ \E c \in Client : cpc[c] = "post" /\ cqueue[c] = q
                      \/ \E v \in Worker : WorkerQueue[v] = q /\ wpc'[v] \in Awake
    BY <2>3 DEF NoLostWakeup
  <2>4. CASE q = WorkerQueue[w]
    BY <2>1, <2>4
  <2>5. CASE q # WorkerQueue[w]
    BY <1>3, <2>1, <2>2, <2>5 DEF NoLostWakeup, WorkerTake
  <2> QED
    BY <2>4, <2>5
<1>4. CASE WorkerPop(w) \/ WorkerCancel(w) \/ WorkerStart(w) \/ WorkerFinish(w)
           \/ WorkerRelease(w)
  BY <1>t, <1>4, WakeupSame
     DEF WorkerPop, WorkerCancel, WorkerStart, WorkerFinish, WorkerRelease
<1> QED
  BY <1>1, <1>2, <1>3, <1>4 DEF WorkerStep

\* No step of a client loses the wakeup: Request leaves out the post only
\* when the list already had an entry.
LEMMA ClientWakeup ==
  ASSUME Shape, NoLostWakeup, NEW c \in Client,
         (\E d \in Device : GetDevice(c, d)) \/ ClientStep(c)
  PROVE  NoLostWakeup'
<1> USE DEF ClientAt, mainVars, workerVars
<1>t. /\ sem \in [Queue -> Nat] /\ DOMAIN cpc = Client /\ cqueue \in [Client -> Queue]
      /\ DOMAIN execList = Queue
  BY DEF Shape, TypeOK
<1>1. ASSUME NEW d \in Device, GetDevice(c, d) PROVE NoLostWakeup'
  BY <1>t, <1>1, WakeupSame DEF GetDevice
<1>2. ASSUME NEW k \in Cmd, QueueCmd(c, k) PROVE NoLostWakeup'
  <2>1. cpc[c] = "got" /\ \A b \in Client : b # c => cpc'[b] = cpc[b] /\ cqueue'[b] = cqueue[b]
    BY <1>t, <1>2 DEF QueueCmd
  <2> QED
    BY <1>2, <2>1, WakeupSame DEF QueueCmd
<1>3. ASSUME NEW k \in Cmd, QueueCmdNoMemory(c, k) PROVE NoLostWakeup'
  BY <1>t, <1>3, WakeupSame DEF QueueCmdNoMemory
<1>4. CASE RejectArgs(c) \/ QueueCmdUnlock(c) \/ ClientRelease(c)
  BY <1>t, <1>4, WakeupSame DEF RejectArgs, QueueCmdUnlock, ClientRelease
<1>5. CASE RequestPost(c)
  BY <1>t, <1>5, WakeupSame DEF RequestPost
<1>6. CASE Request(c)
  <2> DEFINE q == cqueue[c]
  <2>1. /\ sem' = sem /\ execQuit' = execQuit /\ wpc' = wpc /\ cqueue' = cqueue
        /\ cpc[c] = "request" /\ \A b \in Client : b # c => cpc'[b] = cpc[b]
        /\ execList[q] = <<>> => cpc'[c] = "post"
        /\ \A p \in Queue : p # q => execList'[p] = execList[p]
    BY <1>t, <1>6 DEF Request
  <2> SUFFICES ASSUME NEW p \in Queue, execList'[p] # <<>>, ~execQuit
               PROVE  \/ sem[p] > 0
                      \/ \E b \in Client : cpc'[b] = "post" /\ cqueue[b] = p
                      \/ \E w \in Worker :
                            /\ WorkerQueue[w] = p
                            /\ wpc[w] \in {"drain", "begin", "one", "exec", "next", "release"}
    BY <2>1 DEF NoLostWakeup
  <2>2. CASE p = q /\ execList[q] = <<>>
    BY <2>1, <2>2
  <2>3. CASE execList[p] # <<>>
    BY <2>1, <2>3 DEF NoLostWakeup
  <2> QED
    BY <2>1, <2>2, <2>3
<1> QED
  BY <1>1, <1>2, <1>3, <1>4, <1>5, <1>6 DEF ClientStep

\* The pool sleeps only on empty lists, although Request posts once per
\* transition of a list from empty to non-empty.
THEOREM WakeupNotLost == Spec => []NoLostWakeup
<1>1. Init => NoLostWakeup
  BY DEF Init, NoLostWakeup
<1>2. Shape /\ NoLostWakeup /\ [Next]_vars => NoLostWakeup'
  <2> SUFFICES ASSUME Shape, NoLostWakeup, [Next]_vars PROVE NoLostWakeup'
    OBVIOUS
  <2>1. CASE UNCHANGED vars
    BY <2>1 DEF vars, NoLostWakeup
  <2>2. ASSUME NEW w \in Worker, CreateWorker(w) PROVE NoLostWakeup'
    BY <2>2, WakeupSame DEF CreateWorker, WorkerAt, clientVars, Awake, Shape, TypeOK
  <2>3. CASE CleanupQuit
    BY <2>3 DEF CleanupQuit, NoLostWakeup
  <2>4. ASSUME NEW q \in Queue, CleanupPost(q) PROVE NoLostWakeup'
    <3> DEFINE n == Cardinality({w \in Worker : WorkerQueue[w] = q})
    <3>1. sem \in [Queue -> Nat] /\ sem' = [sem EXCEPT ![q] = @ + n] /\ n \in Nat
      BY <2>4, PoolSize DEF CleanupPost, Shape, TypeOK
    <3> HIDE DEF n
    <3>2. \A p \in Queue : sem[p] > 0 => sem'[p] > 0
      BY <3>1
    <3> QED
      BY <2>4, <3>2, WakeupSame DEF CleanupPost, clientVars, workerVars, Awake
  <2>5. CASE CleanupJoin
    BY <2>5, WakeupSame DEF CleanupJoin, clientVars, workerVars, Awake
  <2>6. ASSUME NEW d \in Device, Attach(d) \/ UpdateState(d) \/ Detach(d) \/ DetachRelease(d)
        PROVE  NoLostWakeup'
    BY <2>6, WakeupSame
       DEF Attach, UpdateState, Detach, DetachRelease, mainVars, clientVars, workerVars,
           Awake
  <2>7. CASE Terminated
    BY <2>1, <2>7 DEF Terminated
  <2> QED
    BY <2>1, <2>2, <2>3, <2>4, <2>5, <2>6, <2>7, ClientWakeup, WorkerWakeup
       DEF Next, CleanupStep
<1> QED
  BY ShapeInvariant, <1>1, <1>2, PTL DEF Spec

\* Every device with commands has one worker, present or coming, for every
\* number of devices, queues, workers and clients.
THEOREM LanesServed == Spec => []LaneServed
BY OneRunnerPerLane, NoCommandForgotten, WakeupNotLost, PTL DEF LaneServed

------------------------------------------------------------------------------
(* The executor implements CmdService: the lanes and the active commands   *)
(* that ImplementsService sees, step by step.                              *)

\* Worker w has the record it popped for (d, q) and is at place.
InHand(w, d, q, place) == wpc[w] = place /\ wdev[w] = d /\ WorkerQueue[w] = q

\* What the state functions Lane and ActiveCmd are: the one worker that has a
\* command of the lane in hand is the one their CHOOSE finds.
LanesSeen ==
  \A d \in Device, q \in Queue :
     /\ \A w \in Worker :
          InHand(w, d, q, "one") =>
             Lane(d, q) = <<wcmd[w]>> \o cmdList[d][q] /\ ActiveCmd(d, q) = NoCmd
     /\ \A w \in Worker :
          InHand(w, d, q, "exec") =>
             Lane(d, q) = cmdList[d][q] /\ ActiveCmd(d, q) = wcmd[w]
     /\ (\A w \in Worker : ~InHand(w, d, q, "one") /\ ~InHand(w, d, q, "exec")) =>
             Lane(d, q) = cmdList[d][q] /\ ActiveCmd(d, q) = NoCmd

\* They are that because at most one worker runs a lane.
LEMMA LanesSeenInvariant == Spec => []LanesSeen
<1>1. SingleRunner => LanesSeen
  <2> SUFFICES ASSUME SingleRunner, NEW d \in Device, NEW q \in Queue
               PROVE  /\ \A w \in Worker :
                           InHand(w, d, q, "one") =>
                              /\ Lane(d, q) = <<wcmd[w]>> \o cmdList[d][q]
                              /\ ActiveCmd(d, q) = NoCmd
                      /\ \A w \in Worker :
                           InHand(w, d, q, "exec") =>
                              Lane(d, q) = cmdList[d][q] /\ ActiveCmd(d, q) = wcmd[w]
                      /\ (\A w \in Worker : ~InHand(w, d, q, "one") /\ ~InHand(w, d, q, "exec")) =>
                           Lane(d, q) = cmdList[d][q] /\ ActiveCmd(d, q) = NoCmd
    BY DEF LanesSeen
  <2>1. \A v, w \in Worker :
          v \in Popped(d, q) \cup Running(d, q) /\ w \in Popped(d, q) \cup Running(d, q) => v = w
    BY DEF SingleRunner, Engaged, Popped, Running
  <2>2. ASSUME NEW w \in Worker, InHand(w, d, q, "one")
        PROVE  Lane(d, q) = <<wcmd[w]>> \o cmdList[d][q] /\ ActiveCmd(d, q) = NoCmd
    <3>1. w \in Popped(d, q) /\ w \notin Running(d, q)
      BY <2>2 DEF InHand, Popped, Running
    <3>2. Popped(d, q) = {w} /\ Running(d, q) = {}
      BY <2>1, <3>1 DEF Popped, Running
    <3> QED
      BY <3>2 DEF Lane, ActiveCmd
  <2>3. ASSUME NEW w \in Worker, InHand(w, d, q, "exec")
        PROVE  Lane(d, q) = cmdList[d][q] /\ ActiveCmd(d, q) = wcmd[w]
    <3>1. w \in Running(d, q) /\ w \notin Popped(d, q)
      BY <2>3 DEF InHand, Popped, Running
    <3>2. Running(d, q) = {w} /\ Popped(d, q) = {}
      BY <2>1, <3>1 DEF Popped, Running
    <3> QED
      BY <3>2 DEF Lane, ActiveCmd
  <2>4. ASSUME \A w \in Worker : ~InHand(w, d, q, "one") /\ ~InHand(w, d, q, "exec")
        PROVE  Lane(d, q) = cmdList[d][q] /\ ActiveCmd(d, q) = NoCmd
    <3>1. Popped(d, q) = {} /\ Running(d, q) = {}
      BY <2>4 DEF InHand, Popped, Running
    <3> QED
      BY <3>1 DEF Lane, ActiveCmd
  <2> QED
    BY <2>2, <2>3, <2>4
<1> QED
  BY OneRunnerPerLane, <1>1, PTL

\* A lane whose FIFO, whose worker and whose record in hand stay is seen as
\* before.
LEMMA LaneSame ==
  ASSUME LanesSeen, LanesSeen', NEW d \in Device, NEW q \in Queue,
         cmdList'[d][q] = cmdList[d][q],
         \A w \in Worker, place \in {"one", "exec"} :
            /\ InHand(w, d, q, place)' <=> InHand(w, d, q, place)
            /\ InHand(w, d, q, place) => wcmd'[w] = wcmd[w]
  PROVE  Lane(d, q)' = Lane(d, q) /\ ActiveCmd(d, q)' = ActiveCmd(d, q)
<1>1. ASSUME NEW w \in Worker, InHand(w, d, q, "one")
      PROVE  Lane(d, q)' = Lane(d, q) /\ ActiveCmd(d, q)' = ActiveCmd(d, q)
  <2>1. InHand(w, d, q, "one")' /\ wcmd'[w] = wcmd[w]
    BY <1>1
  <2>2. Lane(d, q) = <<wcmd[w]>> \o cmdList[d][q] /\ ActiveCmd(d, q) = NoCmd
    BY <1>1 DEF LanesSeen
  <2>3. Lane(d, q)' = <<wcmd'[w]>> \o cmdList'[d][q] /\ ActiveCmd(d, q)' = NoCmd
    BY <2>1 DEF LanesSeen
  <2> QED
    BY <2>1, <2>2, <2>3
<1>2. ASSUME NEW w \in Worker, InHand(w, d, q, "exec")
      PROVE  Lane(d, q)' = Lane(d, q) /\ ActiveCmd(d, q)' = ActiveCmd(d, q)
  <2>1. InHand(w, d, q, "exec")' /\ wcmd'[w] = wcmd[w]
    BY <1>2
  <2>2. Lane(d, q) = cmdList[d][q] /\ ActiveCmd(d, q) = wcmd[w]
    BY <1>2 DEF LanesSeen
  <2>3. Lane(d, q)' = cmdList'[d][q] /\ ActiveCmd(d, q)' = wcmd'[w]
    BY <2>1 DEF LanesSeen
  <2> QED
    BY <2>1, <2>2, <2>3
<1>3. ASSUME \A w \in Worker : ~InHand(w, d, q, "one") /\ ~InHand(w, d, q, "exec")
      PROVE  Lane(d, q)' = Lane(d, q) /\ ActiveCmd(d, q)' = ActiveCmd(d, q)
  <2>1. \A w \in Worker : ~InHand(w, d, q, "one")' /\ ~InHand(w, d, q, "exec")'
    BY <1>3
  <2>2. Lane(d, q) = cmdList[d][q] /\ ActiveCmd(d, q) = NoCmd
    BY <1>3 DEF LanesSeen
  <2>3. Lane(d, q)' = cmdList'[d][q] /\ ActiveCmd(d, q)' = NoCmd
    BY <2>1 DEF LanesSeen
  <2> QED
    BY <2>2, <2>3
<1> QED
  BY <1>1, <1>2, <1>3

Lanes == [d \in Device |-> [q \in Queue |-> Lane(d, q)]]
Actives == [d \in Device |-> [q \in Queue |-> ActiveCmd(d, q)]]

\* What is seen of all lanes when one changes, and when none does.
LEMMA OneLaneChanges ==
  ASSUME NEW d \in Device, NEW q \in Queue,
         \A e \in Device, p \in Queue : ~(e = d /\ p = q) =>
            Lane(e, p)' = Lane(e, p) /\ ActiveCmd(e, p)' = ActiveCmd(e, p)
  PROVE  /\ Lanes' = [Lanes EXCEPT ![d][q] = Lane(d, q)']
         /\ Actives' = [Actives EXCEPT ![d][q] = ActiveCmd(d, q)']
         /\ Lane(d, q)' = Lane(d, q) => Lanes' = Lanes
         /\ ActiveCmd(d, q)' = ActiveCmd(d, q) => Actives' = Actives
         /\ Lanes[d][q] = Lane(d, q) /\ Actives[d][q] = ActiveCmd(d, q)
BY DEF Lanes, Actives

\* If no lane changes, neither do the functions of them.
LEMMA NoLaneChanges ==
  ASSUME \A e \in Device, p \in Queue :
            Lane(e, p)' = Lane(e, p) /\ ActiveCmd(e, p)' = ActiveCmd(e, p)
  PROVE  Lanes' = Lanes /\ Actives' = Actives
BY DEF Lanes, Actives

\* A step that keeps every FIFO, every outcome and what the workers have in
\* hand is not seen at all.
LEMMA Unseen ==
  ASSUME LanesSeen, LanesSeen', cmdList' = cmdList, status' = status,
         \A w \in Worker, place \in {"one", "exec"} :
            (wpc'[w] = place) <=> (wpc[w] = place),
         \A w \in Worker :
            wpc[w] \in {"one", "exec"} => wdev'[w] = wdev[w] /\ wcmd'[w] = wcmd[w]
  PROVE  UNCHANGED Service!svars
<1>1. ASSUME NEW d \in Device, NEW q \in Queue
      PROVE  Lane(d, q)' = Lane(d, q) /\ ActiveCmd(d, q)' = ActiveCmd(d, q)
  <2>1. \A w \in Worker, place \in {"one", "exec"} :
            /\ InHand(w, d, q, place)' <=> InHand(w, d, q, place)
            /\ InHand(w, d, q, place) => wcmd'[w] = wcmd[w]
    BY DEF InHand
  <2> QED
    BY <2>1, LaneSame
<1>2. Lanes' = Lanes /\ Actives' = Actives
  BY <1>1, NoLaneChanges
<1> QED
  BY <1>2 DEF Service!svars, Lanes, Actives

\* The steps of Startup, Cleanup and the monitor are not seen.
LEMMA ControlUnseen ==
  ASSUME IInv, LanesSeen, LanesSeen',
         \/ UNCHANGED vars \/ \E w \in Worker : CreateWorker(w)
         \/ CleanupQuit \/ CleanupStep \/ Terminated
         \/ \E d \in Device : Attach(d) \/ UpdateState(d) \/ Detach(d) \/ DetachRelease(d)
  PROVE  UNCHANGED Service!svars
<1>1. ASSUME NEW w \in Worker, CreateWorker(w) PROVE UNCHANGED Service!svars
  BY <1>1, Unseen DEF CreateWorker, WorkerAt, IInv, Shape, TypeOK
<1>2. CASE CleanupQuit \/ CleanupStep
  BY <1>2, Unseen DEF CleanupQuit, CleanupStep, CleanupPost, CleanupJoin, workerVars
<1>3. ASSUME NEW d \in Device, Attach(d) \/ UpdateState(d) \/ Detach(d)
      PROVE  UNCHANGED Service!svars
  BY <1>3, Unseen DEF Attach, UpdateState, Detach, workerVars
<1>4. ASSUME NEW d \in Device, DetachRelease(d) PROVE UNCHANGED Service!svars
  <2>1. Leaving(d, <<"monitor", d>>) /\ Release(d)
    BY <1>4 DEF Leaving, DetachRelease
  <2>2. cmdList' = cmdList /\ status' = status
    BY <2>1, ReleaseHarmless
  <2> QED
    BY <1>4, <2>2, Unseen DEF DetachRelease, workerVars
<1>5. CASE UNCHANGED vars \/ Terminated
  BY <1>5, Unseen DEF vars, Terminated
<1> QED
  BY <1>1, <1>2, <1>3, <1>4, <1>5

\* QueueCmd is seen as Submit, its failure as Refuse; the other steps of a
\* client are not seen.
LEMMA ClientSeen ==
  ASSUME IInv, LanesSeen, LanesSeen', NEW c \in Client,
         (\E d \in Device : GetDevice(c, d)) \/ ClientStep(c)
  PROVE  [Service!SNext]_(Service!svars)
<1>t. /\ cmdList \in [Device -> [Queue -> Seq(Cmd)]]
      /\ \A k \in Cmd : CmdQueue[k] \in Queue
  BY ConstantsAssumption DEF IInv, Shape, TypeOK
<1>1. CASE \E d \in Device : GetDevice(c, d)
  <2>1. UNCHANGED Service!svars
    BY <1>1, Unseen DEF GetDevice, workerVars
  <2> QED
    BY <2>1
<1>2. ASSUME NEW k \in Cmd, QueueCmd(c, k) PROVE Service!SNext
  <2>1. PICK d \in Device : d = cdev[c]
    BY <1>2 DEF QueueCmd, IInv, Shape, ClientShape
  <2>2. PICK q \in Queue : q = CmdQueue[k]
    BY <1>t
  <2>3. /\ status[k] = "new" /\ status' = [status EXCEPT ![k] = "queued"]
        /\ cmdList' = [cmdList EXCEPT ![d][q] = Append(@, k)]
        /\ wpc' = wpc /\ wdev' = wdev /\ wcmd' = wcmd
    BY <1>2, <2>1, <2>2 DEF QueueCmd, workerVars
  <2>4. cmdList[d][q] \in Seq(Cmd) /\ Append(cmdList[d][q], k) \in Seq(Cmd)
    BY <1>t
  <2>5. \A e \in Device, p \in Queue :
          cmdList'[e][p] = IF e = d /\ p = q THEN Append(cmdList[d][q], k) ELSE cmdList[e][p]
    BY <1>t, <2>3, <2>4, Update2
  <2>6. ASSUME NEW e \in Device, NEW p \in Queue, ~(e = d /\ p = q)
        PROVE  Lane(e, p)' = Lane(e, p) /\ ActiveCmd(e, p)' = ActiveCmd(e, p)
    <3>1. \A w \in Worker, place \in {"one", "exec"} :
              /\ InHand(w, e, p, place)' <=> InHand(w, e, p, place)
              /\ InHand(w, e, p, place) => wcmd'[w] = wcmd[w]
      BY <2>3 DEF InHand
    <3> QED
      BY <2>5, <2>6, <3>1, LaneSame
  <2>7. Lane(d, q)' = Append(Lane(d, q), k) /\ ActiveCmd(d, q)' = ActiveCmd(d, q)
    <3>1. \A w \in Worker, place \in {"one", "exec"} :
             InHand(w, d, q, place)' <=> InHand(w, d, q, place)
      BY <2>3 DEF InHand
    <3>2. cmdList'[d][q] = Append(cmdList[d][q], k)
      BY <2>5
    <3>3. ASSUME NEW w \in Worker, InHand(w, d, q, "one")
          PROVE  Lane(d, q)' = Append(Lane(d, q), k) /\ ActiveCmd(d, q)' = ActiveCmd(d, q)
      <4>1. Lane(d, q) = <<wcmd[w]>> \o cmdList[d][q] /\ ActiveCmd(d, q) = NoCmd
        BY <3>3 DEF LanesSeen
      <4>2. Lane(d, q)' = <<wcmd[w]>> \o cmdList'[d][q] /\ ActiveCmd(d, q)' = NoCmd
        BY <2>3, <3>1, <3>3 DEF LanesSeen
      <4>3. wcmd[w] \in Cmd
        BY <3>3 DEF InHand, IInv, Shape, WorkerShape
      <4>4. <<wcmd[w]>> \o Append(cmdList[d][q], k) = Append(<<wcmd[w]>> \o cmdList[d][q], k)
        BY <2>4, <4>3
      <4> QED
        BY <3>2, <4>1, <4>2, <4>4
    <3>4. ASSUME NEW w \in Worker, InHand(w, d, q, "exec")
          PROVE  Lane(d, q)' = Append(Lane(d, q), k) /\ ActiveCmd(d, q)' = ActiveCmd(d, q)
      <4>1. Lane(d, q) = cmdList[d][q] /\ ActiveCmd(d, q) = wcmd[w]
        BY <3>4 DEF LanesSeen
      <4>2. Lane(d, q)' = cmdList'[d][q] /\ ActiveCmd(d, q)' = wcmd[w]
        BY <2>3, <3>1, <3>4 DEF LanesSeen
      <4> QED
        BY <3>2, <4>1, <4>2
    <3>5. ASSUME \A w \in Worker : ~InHand(w, d, q, "one") /\ ~InHand(w, d, q, "exec")
          PROVE  Lane(d, q)' = Append(Lane(d, q), k) /\ ActiveCmd(d, q)' = ActiveCmd(d, q)
      <4>1. Lane(d, q) = cmdList[d][q] /\ ActiveCmd(d, q) = NoCmd
        BY <3>5 DEF LanesSeen
      <4>2. Lane(d, q)' = cmdList'[d][q] /\ ActiveCmd(d, q)' = NoCmd
        BY <3>1, <3>5 DEF LanesSeen
      <4> QED
        BY <3>2, <4>1, <4>2
    <3> QED
      BY <3>3, <3>4, <3>5
  <2>8. Lanes' = [Lanes EXCEPT ![d][q] = Append(Lanes[d][q], k)] /\ Actives' = Actives
    BY <2>6, <2>7, OneLaneChanges
  <2>9. Service!Submit(d, k)
    BY <2>2, <2>3, <2>8 DEF Service!Submit, Lanes, Actives
  <2> QED
    BY <2>9 DEF Service!SNext
<1>3. ASSUME NEW k \in Cmd, QueueCmdNoMemory(c, k) PROVE Service!SNext
  <2>1. ASSUME NEW e \in Device, NEW p \in Queue
        PROVE  Lane(e, p)' = Lane(e, p) /\ ActiveCmd(e, p)' = ActiveCmd(e, p)
    <3>1. \A w \in Worker, place \in {"one", "exec"} :
              /\ InHand(w, e, p, place)' <=> InHand(w, e, p, place)
              /\ InHand(w, e, p, place) => wcmd'[w] = wcmd[w]
      BY <1>3 DEF QueueCmdNoMemory, workerVars, InHand
    <3> QED
      BY <1>3, <3>1, LaneSame DEF QueueCmdNoMemory
  <2>2. Lanes' = Lanes /\ Actives' = Actives
    BY <2>1, NoLaneChanges
  <2>3. Service!Refuse(k)
    BY <1>3, <2>2 DEF QueueCmdNoMemory, Service!Refuse, Lanes, Actives
  <2> QED
    BY <2>3 DEF Service!SNext
<1>4. CASE RejectArgs(c) \/ Request(c) \/ RequestPost(c) \/ QueueCmdUnlock(c)
  BY <1>4, Unseen DEF RejectArgs, Request, RequestPost, QueueCmdUnlock, workerVars
<1>5. CASE ClientRelease(c)
  <2>1. cdev[c] \in Device
    BY <1>5 DEF ClientRelease, ClientAt, IInv, Shape, ClientShape
  <2>2. Leaving(cdev[c], <<"client", c>>) /\ Release(cdev[c])
    BY <1>5 DEF Leaving, ClientRelease, ClientAt
  <2>3. cmdList' = cmdList /\ status' = status
    BY <2>1, <2>2, ReleaseHarmless
  <2> QED
    BY <1>5, <2>3, Unseen DEF ClientRelease, workerVars
<1> QED
  BY <1>1, <1>2, <1>3, <1>4, <1>5 DEF ClientStep

\* A worker that is at "one" or "exec" has a command of the lane of its device,
\* and no other worker has one; nor has any while it is at "begin" or "next".
LEMMA AloneInLane ==
  ASSUME IInv, NEW w \in Worker, wpc[w] \in {"begin", "one", "exec", "next"}
  PROVE  /\ wdev[w] \in Device /\ WorkerQueue[w] \in Queue
         /\ wpc[w] \in {"one", "exec"} => wcmd[w] \in Cmd
         /\ \A v \in Worker, place \in {"one", "exec"} :
               v # w => ~InHand(v, wdev[w], WorkerQueue[w], place)
<1>1. wdev[w] \in Device /\ WorkerQueue[w] \in Queue
  BY ConstantsAssumption DEF IInv, Shape, WorkerShape, HasDev
<1>2. wpc[w] \in {"one", "exec"} => wcmd[w] \in Cmd
  BY DEF IInv, Shape, WorkerShape
<1>3. \A v \in Worker, place \in {"one", "exec"} :
         v # w => ~InHand(v, wdev[w], WorkerQueue[w], place)
  BY <1>1 DEF IInv, Token, SingleRunner, Engaged, InHand
<1> QED
  BY <1>1, <1>2, <1>3

\* ExecuteOne is seen as Cancel or as Begin and Finish; the other steps of a
\* worker, popping the command included, are not seen.
LEMMA WorkerSeen ==
  ASSUME IInv, LanesSeen, LanesSeen', NEW w \in Worker, WorkerStep(w)
  PROVE  [Service!SNext]_(Service!svars)
<1>t. /\ cmdList \in [Device -> [Queue -> Seq(Cmd)]] /\ DOMAIN wpc = Worker
      /\ DOMAIN wcmd = Worker /\ DOMAIN wdev = Worker /\ NoCmd \notin Cmd
  BY ConstantsAssumption DEF IInv, Shape, TypeOK
<1>1. CASE WorkerTest(w) \/ WorkerWait(w) \/ WorkerDrained(w) \/ WorkerTake(w)
  BY <1>t, <1>1, Unseen DEF WorkerTest, WorkerWait, WorkerDrained, WorkerTake, WorkerAt
<1>2. CASE WorkerRelease(w)
  <2>1. wdev[w] \in Device
    BY <1>2 DEF WorkerRelease, WorkerAt, IInv, Shape, WorkerShape, HasDev
  <2>2. Leaving(wdev[w], <<"worker", w>>) /\ Release(wdev[w])
    BY <1>2 DEF Leaving, WorkerRelease, WorkerAt
  <2>3. cmdList' = cmdList /\ status' = status
    BY <2>1, <2>2, ReleaseHarmless
  <2> QED
    BY <1>t, <1>2, <2>3, Unseen DEF WorkerRelease, WorkerAt
<1>3. CASE WorkerPop(w) \/ WorkerCancel(w) \/ WorkerStart(w) \/ WorkerFinish(w)
  <2>1. wpc[w] \in {"begin", "one", "exec", "next"}
    BY <1>3 DEF WorkerPop, WorkerCancel, WorkerStart, WorkerFinish, WorkerAt
  <2>2. PICK d \in Device : d = wdev[w]
    BY <2>1, AloneInLane
  <2>3. PICK q \in Queue : q = WorkerQueue[w]
    BY <2>1, AloneInLane
  <2>4. /\ wpc[w] \in {"one", "exec"} => wcmd[w] \in Cmd
        /\ \A v \in Worker, place \in {"one", "exec"} : v # w => ~InHand(v, d, q, place)
    BY <2>1, <2>2, <2>3, AloneInLane
  <2>5. /\ wdev' = wdev
        /\ \A v \in Worker : v # w => wpc'[v] = wpc[v] /\ wcmd'[v] = wcmd[v]
    BY <1>t, <1>3 DEF WorkerPop, WorkerCancel, WorkerStart, WorkerFinish, WorkerAt
  <2>6. \A v \in Worker, place \in {"one", "exec"} : v # w => ~InHand(v, d, q, place)'
    BY <2>4, <2>5 DEF InHand
  <2>7. \A e \in Device, p \in Queue : ~(e = d /\ p = q) => cmdList'[e][p] = cmdList[e][p]
    <3>1. CASE WorkerPop(w) /\ cmdList[d][q] # <<>>
      <4>1. cmdList' = [cmdList EXCEPT ![d][q] = Tail(@)]
        BY <2>2, <2>3, <3>1 DEF WorkerPop
      <4>2. Tail(cmdList[d][q]) \in Seq(Cmd)
        BY <1>t, <3>1
      <4> QED
        BY <1>t, <4>1, <4>2, Update2
    <3>2. CASE ~(WorkerPop(w) /\ cmdList[d][q] # <<>>)
      BY <1>3, <2>2, <2>3, <3>2 DEF WorkerPop, WorkerCancel, WorkerStart, WorkerFinish
    <3> QED
      BY <3>1, <3>2
  <2>8. ASSUME NEW e \in Device, NEW p \in Queue, ~(e = d /\ p = q)
        PROVE  Lane(e, p)' = Lane(e, p) /\ ActiveCmd(e, p)' = ActiveCmd(e, p)
    <3>1. \A v \in Worker, place \in {"one", "exec"} :
             /\ InHand(v, e, p, place)' <=> InHand(v, e, p, place)
             /\ InHand(v, e, p, place) => wcmd'[v] = wcmd[v]
      BY <2>2, <2>3, <2>5, <2>8 DEF InHand
    <3> QED
      BY <2>7, <2>8, <3>1, LaneSame
  <2>9. /\ Lanes' = [Lanes EXCEPT ![d][q] = Lane(d, q)']
        /\ Actives' = [Actives EXCEPT ![d][q] = ActiveCmd(d, q)']
        /\ Lane(d, q)' = Lane(d, q) => Lanes' = Lanes
        /\ ActiveCmd(d, q)' = ActiveCmd(d, q) => Actives' = Actives
        /\ Lanes[d][q] = Lane(d, q) /\ Actives[d][q] = ActiveCmd(d, q)
    BY <2>8, OneLaneChanges
  <2>10. CASE WorkerPop(w) /\ cmdList[d][q] # <<>>
    <3>1. /\ wpc[w] \in {"begin", "next"} /\ wpc'[w] = "one" /\ status' = status
          /\ wcmd'[w] = Head(cmdList[d][q])
          /\ cmdList' = [cmdList EXCEPT ![d][q] = Tail(@)]
      BY <1>t, <2>2, <2>3, <2>10 DEF WorkerPop
    <3>2. \A v \in Worker : ~InHand(v, d, q, "one") /\ ~InHand(v, d, q, "exec")
      BY <2>4, <3>1 DEF InHand
    <3>3. InHand(w, d, q, "one")'
      BY <2>2, <2>3, <2>5, <3>1 DEF InHand
    <3>4. Lane(d, q) = cmdList[d][q] /\ ActiveCmd(d, q) = NoCmd
      BY <3>2 DEF LanesSeen
    <3>5. Lane(d, q)' = <<wcmd'[w]>> \o cmdList'[d][q] /\ ActiveCmd(d, q)' = NoCmd
      BY <3>3 DEF LanesSeen
    <3>6. cmdList[d][q] \in Seq(Cmd) /\ cmdList'[d][q] = Tail(cmdList[d][q])
      BY <1>t, <3>1
    <3>7. <<Head(cmdList[d][q])>> \o Tail(cmdList[d][q]) = cmdList[d][q]
      BY <2>10, <3>6
    <3>8. Lanes' = Lanes /\ Actives' = Actives
      BY <2>9, <3>1, <3>4, <3>5, <3>6, <3>7
    <3> QED
      BY <3>1, <3>8 DEF Service!svars, Lanes, Actives
  <2>11. CASE WorkerPop(w) /\ cmdList[d][q] = <<>>
    <3>1. /\ wpc[w] \in {"begin", "next"} /\ wpc'[w] = "release" /\ status' = status
          /\ cmdList' = cmdList /\ wcmd' = wcmd
      BY <1>t, <2>2, <2>3, <2>11 DEF WorkerPop
    <3>2. \A v \in Worker, place \in {"one", "exec"} : (wpc'[v] = place) <=> (wpc[v] = place)
      BY <2>5, <3>1
    <3>3. UNCHANGED Service!svars
      BY <2>5, <3>1, <3>2, Unseen
    <3> QED
      BY <3>3
  <2>12. CASE WorkerCancel(w) \/ WorkerStart(w)
    <3>1. /\ wpc[w] = "one" /\ cmdList' = cmdList /\ wcmd[w] \in Cmd
          /\ cmdList[d][q] \in Seq(Cmd)
      BY <1>t, <2>4, <2>12 DEF WorkerCancel, WorkerStart, WorkerAt
    <3>2. InHand(w, d, q, "one")
      BY <2>2, <2>3, <3>1 DEF InHand
    <3>3. Lane(d, q) = <<wcmd[w]>> \o cmdList[d][q] /\ ActiveCmd(d, q) = NoCmd
      BY <3>2 DEF LanesSeen
    <3>4. /\ Lane(d, q) # <<>> /\ Head(Lane(d, q)) = wcmd[w]
          /\ Tail(Lane(d, q)) = cmdList[d][q]
      <4>1. PICK x \in Cmd : x = wcmd[w]
        BY <3>1
      <4>2. PICK s \in Seq(Cmd) : s = cmdList[d][q]
        BY <3>1
      <4>3. <<x>> \o s # <<>> /\ Head(<<x>> \o s) = x /\ Tail(<<x>> \o s) = s
        OBVIOUS
      <4> QED
        BY <3>3, <4>1, <4>2, <4>3
    <3>5. CASE WorkerCancel(w)
      <4>1. wpc'[w] = "next" /\ status' = [status EXCEPT ![wcmd[w]] = "cancelled"]
        BY <1>t, <3>5 DEF WorkerCancel, WorkerAt
      <4>2. \A v \in Worker : ~InHand(v, d, q, "one")' /\ ~InHand(v, d, q, "exec")'
        BY <2>6, <4>1 DEF InHand
      <4>3. Lane(d, q)' = cmdList'[d][q] /\ ActiveCmd(d, q)' = NoCmd
        BY <4>2 DEF LanesSeen
      <4>4. Lanes' = [Lanes EXCEPT ![d][q] = Tail(Lanes[d][q])] /\ Actives' = Actives
        BY <2>9, <3>1, <3>3, <3>4, <4>3
      <4>5. Service!Cancel(d, q)
        BY <2>9, <3>3, <3>4, <4>1, <4>4 DEF Service!Cancel, Lanes, Actives
      <4> QED
        BY <4>5 DEF Service!SNext
    <3>6. CASE WorkerStart(w)
      <4>1. /\ wpc'[w] = "exec" /\ status' = [status EXCEPT ![wcmd[w]] = "executing"]
            /\ wcmd' = wcmd
        BY <1>t, <3>6 DEF WorkerStart, WorkerAt
      <4>2. InHand(w, d, q, "exec")'
        BY <2>2, <2>3, <2>5, <4>1 DEF InHand
      <4>3. Lane(d, q)' = cmdList'[d][q] /\ ActiveCmd(d, q)' = wcmd[w]
        BY <4>1, <4>2 DEF LanesSeen
      <4>4. /\ Lanes' = [Lanes EXCEPT ![d][q] = Tail(Lanes[d][q])]
            /\ Actives' = [Actives EXCEPT ![d][q] = Head(Lanes[d][q])]
        BY <2>9, <3>1, <3>4, <4>3
      <4>5. Service!Begin(d, q)
        BY <2>9, <3>3, <3>4, <4>1, <4>4 DEF Service!Begin, Lanes, Actives
      <4> QED
        BY <4>5 DEF Service!SNext
    <3> QED
      BY <2>12, <3>5, <3>6
  <2>13. CASE WorkerFinish(w)
    <3>1. /\ wpc[w] = "exec" /\ wpc'[w] = "next" /\ cmdList' = cmdList /\ wcmd[w] \in Cmd
          /\ \E r \in {"executed", "failed"} : status' = [status EXCEPT ![wcmd[w]] = r]
      BY <1>t, <2>4, <2>13 DEF WorkerFinish, WorkerAt
    <3>2. InHand(w, d, q, "exec")
      BY <2>2, <2>3, <3>1 DEF InHand
    <3>3. \A v \in Worker : ~InHand(v, d, q, "one")' /\ ~InHand(v, d, q, "exec")'
      BY <2>6, <3>1 DEF InHand
    <3>4. Lane(d, q) = cmdList[d][q] /\ ActiveCmd(d, q) = wcmd[w]
      BY <3>2 DEF LanesSeen
    <3>5. Lane(d, q)' = cmdList'[d][q] /\ ActiveCmd(d, q)' = NoCmd
      BY <3>3 DEF LanesSeen
    <3>6. Lanes' = Lanes /\ Actives' = [Actives EXCEPT ![d][q] = NoCmd]
      BY <2>9, <3>1, <3>4, <3>5
    <3>7. Service!Finish(d, q)
      BY <1>t, <2>9, <3>1, <3>4, <3>6 DEF Service!Finish, Lanes, Actives
    <3> QED
      BY <3>7 DEF Service!SNext
  <2> QED
    BY <1>3, <2>10, <2>11, <2>12, <2>13
<1> QED
  BY <1>1, <1>2, <1>3 DEF WorkerStep

\* Seen through the callbacks, the pool of threads is a set of independent
\* FIFO lanes that report every command once, for every number of devices,
\* queues, commands, workers and clients (inc/CmdObserver.h).
THEOREM ExecutorImplementsService == Spec => ImplementsService
<1>1. Init /\ LanesSeen => Service!SInit
  <2> SUFFICES ASSUME Init, LanesSeen PROVE Service!SInit
    OBVIOUS
  <2>1. \A d \in Device, q \in Queue : Lane(d, q) = <<>> /\ ActiveCmd(d, q) = NoCmd
    BY DEF Init, LanesSeen, InHand
  <2> QED
    BY <2>1 DEF Init, Service!SInit
<1>2. IInv /\ LanesSeen /\ LanesSeen' /\ [Next]_vars => [Service!SNext]_(Service!svars)
  BY ControlUnseen, ClientSeen, WorkerSeen DEF Next
<1> QED
  BY <1>1, <1>2, IInvariant, LanesSeenInvariant, PTL
     DEF Spec, ImplementsService, Service!ServiceSpec

------------------------------------------------------------------------------
(* The child process of a command: the theorems about AdbCmd.              *)

\* The places of Execute at which both pipes are open, and one of them is: the
\* build decides which.
BothPipes == {"fork", "err3", "close"}
OnePipe == {"second", "err2"}
ReadingOut == {"read", "cleanup"}

\* What the program holds open follows from the thread's place in Execute.
Places ==
  \A w \in W :
    /\ "inRd" \in held[w] <=> pc[w] \in BothPipes \/ (pc[w] \in OnePipe /\ ~windows)
    /\ "inWr" \in held[w] <=>
         pc[w] \in BothPipes \cup ReadingOut \/ (pc[w] \in OnePipe /\ ~windows)
    /\ "outRd" \in held[w] <=>
         pc[w] \in BothPipes \cup ReadingOut \/ (pc[w] \in OnePipe /\ windows)
    /\ "outWr" \in held[w] <=> pc[w] \in BothPipes \/ (pc[w] \in OnePipe /\ windows)
    /\ "process" \in held[w] <=> pc[w] \in {"close", "reap"} \cup ReadingOut

\* What a command can have returned.
Result == {None, Failed} \cup {Parsed(c.kind, c.text) : c \in Commands}

\* A child is there from Fork to the end of Cleanup; while it runs its own copy
\* of the write end keeps the output open, and it exits when all is written.
Children ==
  \A w \in W :
    /\ pc[w] # "idle" => cmd[w] \in Commands
    /\ child[w] # "none" <=> pc[w] \in {"close", "read", "cleanup", "reap"}
    /\ child[w] = "running" => pc[w] \in {"close", "read"} /\ w \in writers[w]
    /\ child[w] = "running" => wrote[w] <= Len(cmd[w].text)
    /\ child[w] = "exited" => wrote[w] = Len(cmd[w].text)

\* The thread has read no more than was written, and all of it when the read
\* loop has ended.
Output ==
  \A w \in W :
    /\ pc[w] = "read" => got[w] <= wrote[w]
    /\ pc[w] \in {"cleanup", "reap", "process"} => got[w] = Len(cmd[w].text)

Results == result \in [W -> Result]

CInv == CmdTypeOK /\ Results /\ Places /\ Children /\ Output /\ OutputWhole

\* Everything the program may hold open for a command.
End == In \cup Out \cup {"process"}

\* The two pipes of CreateChildProcess, by the build.
LEMMA FirstSecond ==
  /\ First \in SUBSET End /\ Second \in SUBSET End
  /\ "inRd" \in First <=> ~windows
  /\ "inWr" \in First <=> ~windows
  /\ "outRd" \in First <=> windows
  /\ "outWr" \in First <=> windows
  /\ "inRd" \in Second <=> windows
  /\ "inWr" \in Second <=> windows
  /\ "outRd" \in Second <=> ~windows
  /\ "outWr" \in Second <=> ~windows
  /\ "process" \notin First /\ "process" \notin Second
<1>1. CASE windows
  BY <1>1 DEF First, Second, In, Out, End
<1>2. CASE ~windows
  BY <1>2 DEF First, Second, In, Out, End
<1> QED
  BY <1>1, <1>2

\* What opening and closing descriptors does to the thread and to no other.
LEMMA OpensEffect ==
  ASSUME CmdTypeOK, NEW w \in W, NEW F \in SUBSET End, Opens(w, F)
  PROVE  /\ held' \in [W -> SUBSET End]
         /\ \A v \in W : held'[v] = IF v = w THEN held[v] \cup F ELSE held[v]
BY DEF Opens, CmdTypeOK, End

\* Closing descriptors likewise.
LEMMA ClosesEffect ==
  ASSUME CmdTypeOK, NEW w \in W, NEW F \in SUBSET End, Closes(w, F)
  PROVE  /\ held' \in [W -> SUBSET End]
         /\ \A v \in W : held'[v] = IF v = w THEN held[v] \ F ELSE held[v]
BY DEF Closes, CmdTypeOK, End

\* The invariant holds before any command, and every step keeps it.
LEMMA InitCInv == CmdInit => CInv
<1> SUFFICES ASSUME CmdInit PROVE CInv
  OBVIOUS
<1>1. CmdTypeOK
  BY DEF CmdInit, CmdTypeOK
<1>2. Results /\ Places /\ Children /\ Output /\ OutputWhole
  BY
     DEF CmdInit, Results, Result, Places, BothPipes, OnePipe, ReadingOut, Children,
         Output, OutputWhole
<1> QED
  BY <1>1, <1>2 DEF CInv

\* Every step of an adb command preserves CInv.
LEMMA NextCInv == CInv /\ [CmdNext]_cmdVars => CInv'
<1> SUFFICES ASSUME CInv, [CmdNext]_cmdVars
             PROVE  CInv'
  OBVIOUS
<1>c. /\ Buf \in Nat /\ Buf > 1
      /\ \A c \in Commands : c.text \in Seq(STRING \X STRING) /\ Len(c.text) \in Nat
  BY SizesAssumption
<1> USE DEF CInv, proc, io
<1>1. ASSUME NEW w \in W, Execute(w)
      PROVE  CInv'
  <2>1. CmdTypeOK'
    BY <1>1, <1>c DEF Execute, At, CmdTypeOK, In, Out
  <2>2. Places'
    BY <1>1, <1>c DEF Execute, At, CmdTypeOK, Places, BothPipes, OnePipe, ReadingOut, In,
       Out
  <2>3. Children'
    BY <1>1, <1>c DEF Execute, At, CmdTypeOK, Children, Output
  <2>4. Output'
    BY <1>1, <1>c DEF Execute, At, CmdTypeOK, Children, Output
  <2>5. OutputWhole'
    BY <1>1, <1>c DEF Execute, At, CmdTypeOK, Results, Children, Output, OutputWhole
  <2>6. Results'
    BY <1>1, <1>c DEF Execute, At, CmdTypeOK, Results, Result
  <2> QED
    BY <2>1, <2>2, <2>3, <2>4, <2>5, <2>6
<1>2. ASSUME NEW w \in W, FirstPipe(w)
      PROVE  CInv'
  <2>h. /\ held' \in [W -> SUBSET End]
        /\ \/ /\ pc'[w] = "second"
              /\ \A v \in W : held'[v] = IF v = w THEN held[v] \cup First ELSE held[v]
           \/ pc'[w] = "done" /\ held' = held
    BY <1>2, OpensEffect, FirstSecond DEF FirstPipe, At, CmdTypeOK, End
  <2>1. CmdTypeOK'
    BY <1>2, <2>h DEF FirstPipe, At, CmdTypeOK, End, Fails
  <2>2. Places'
    <3>1. ASSUME NEW v \in W, v # w PROVE held'[v] = held[v] /\ pc'[v] = pc[v]
      BY <1>2, <2>h, <3>1 DEF FirstPipe, At, CmdTypeOK
    <3>2. windows' = windows /\ pc[w] = "first"
      BY <1>2 DEF FirstPipe, At
    <3>3. CASE pc'[w] = "second" /\ held'[w] = held[w] \cup First
      BY <3>1, <3>2, <3>3, FirstSecond DEF Places, BothPipes, OnePipe, ReadingOut
    <3>4. CASE pc'[w] = "done" /\ held' = held
      BY <3>1, <3>2, <3>4 DEF Places, BothPipes, OnePipe, ReadingOut
    <3> QED
      BY <2>h, <3>3, <3>4
  <2>3. Children'
    BY <1>2, <1>c DEF FirstPipe, At, CmdTypeOK, Children, Output, Fails, Opens, First
  <2>4. Output'
    BY <1>2, <1>c DEF FirstPipe, At, CmdTypeOK, Children, Output, Fails, Opens, First
  <2>5. OutputWhole'
    BY <1>2, <1>c
       DEF FirstPipe, At, CmdTypeOK, Results, Children, Output, OutputWhole, Fails, Opens,
           First
  <2>6. Results'
    BY <1>2, <1>c DEF FirstPipe, At, CmdTypeOK, Results, Result, Fails, Failure
  <2> QED
    BY <2>1, <2>2, <2>3, <2>4, <2>5, <2>6
<1>3. ASSUME NEW w \in W, SecondPipe(w)
      PROVE  CInv'
  <2>h. /\ held' \in [W -> SUBSET End]
        /\ \/ /\ pc'[w] = "fork"
              /\ \A v \in W : held'[v] = IF v = w THEN held[v] \cup Second ELSE held[v]
           \/ pc'[w] = "err2" /\ held' = held
    BY <1>3, OpensEffect, FirstSecond DEF SecondPipe, At, CmdTypeOK, End
  <2>1. CmdTypeOK'
    BY <1>3, <2>h DEF SecondPipe, At, CmdTypeOK, End
  <2>2. Places'
    <3>1. ASSUME NEW v \in W, v # w PROVE held'[v] = held[v] /\ pc'[v] = pc[v]
      BY <1>3, <2>h, <3>1 DEF SecondPipe, At, CmdTypeOK
    <3>2. windows' = windows /\ pc[w] = "second"
      BY <1>3 DEF SecondPipe, At
    <3>3. CASE pc'[w] = "fork" /\ held'[w] = held[w] \cup Second
      BY <3>1, <3>2, <3>3, FirstSecond DEF Places, BothPipes, OnePipe, ReadingOut
    <3>4. CASE pc'[w] = "err2" /\ held' = held
      BY <3>1, <3>2, <3>4 DEF Places, BothPipes, OnePipe, ReadingOut
    <3> QED
      BY <2>h, <3>3, <3>4
  <2>3. Children'
    BY <1>3, <1>c DEF SecondPipe, At, CmdTypeOK, Children, Output, Opens, First, Second
  <2>4. Output'
    BY <1>3, <1>c DEF SecondPipe, At, CmdTypeOK, Children, Output, Opens, First, Second
  <2>5. OutputWhole'
    BY <1>3, <1>c
       DEF SecondPipe, At, CmdTypeOK, Results, Children, Output, OutputWhole, Opens,
           First, Second
  <2>6. Results'
    BY <1>3, <1>c DEF SecondPipe, At, CmdTypeOK, Results, Result
  <2> QED
    BY <2>1, <2>2, <2>3, <2>4, <2>5, <2>6
<1>4. ASSUME NEW w \in W, Fork(w)
      PROVE  CInv'
  <2>h. /\ held' \in [W -> SUBSET End]
        /\ \/ /\ pc'[w] = "close"
              /\ \A v \in W : held'[v] = IF v = w THEN held[v] \cup {"process"} ELSE held[v]
           \/ pc'[w] = "err3" /\ held' = held
    BY <1>4, OpensEffect DEF Fork, At, CmdTypeOK, End
  <2>1. CmdTypeOK'
    <3>1. writers' \in [W -> SUBSET W]
      <4>1. CASE writers' = writers
        BY <4>1 DEF CmdTypeOK
      <4>2. CASE writers' = [v \in W |->
                   IF "outWr" \in held[v] THEN writers[v] \cup {w} ELSE writers[v]]
        <5>1. \A v \in W : writers[v] \in SUBSET W
          BY DEF CmdTypeOK
        <5> QED
          BY <4>2, <5>1
      <4> QED
        BY <1>4, <4>1, <4>2 DEF Fork
    <3>2. child' \in [W -> {"none", "running", "exited"}] /\ wrote' \in [W -> Nat]
      <4>1. child \in [W -> {"none", "running", "exited"}] /\ wrote \in [W -> Nat]
        BY DEF CmdTypeOK
      <4>2. \/ child' = [child EXCEPT ![w] = "running"] /\ wrote' = [wrote EXCEPT ![w] = 0]
            \/ child' = child /\ wrote' = wrote
        BY <1>4 DEF Fork
      <4> QED
        BY <4>1, <4>2
    <3>3. pc' \in [W -> {"idle", "first", "second", "fork", "err3", "err2", "close", "read",
                         "cleanup", "reap", "process", "done"}]
      BY <1>4 DEF Fork, At, CmdTypeOK
    <3> QED
      BY <1>4, <2>h, <3>1, <3>2, <3>3 DEF Fork, CmdTypeOK, End
  <2>2. Places'
    <3>1. ASSUME NEW v \in W, v # w PROVE held'[v] = held[v] /\ pc'[v] = pc[v]
      BY <1>4, <2>h, <3>1 DEF Fork, At, CmdTypeOK
    <3>2. windows' = windows /\ pc[w] = "fork"
      BY <1>4 DEF Fork, At
    <3>3. CASE pc'[w] = "close" /\ held'[w] = held[w] \cup {"process"}
      BY <3>1, <3>2, <3>3 DEF Places, BothPipes, OnePipe, ReadingOut
    <3>4. CASE pc'[w] = "err3" /\ held' = held
      BY <3>1, <3>2, <3>4 DEF Places, BothPipes, OnePipe, ReadingOut
    <3> QED
      BY <2>h, <3>3, <3>4
  <2>3. Children'
    <3>1. CASE pc'[w] = "close"
      <4>1. pc[w] = "fork" /\ "outWr" \in held[w]
        BY <1>4 DEF Fork, At, Places, BothPipes
      <4>2. /\ wrote' = [wrote EXCEPT ![w] = 0] /\ child' = [child EXCEPT ![w] = "running"]
            /\ pc' = [pc EXCEPT ![w] = "close"] /\ cmd' = cmd
        BY <1>4, <3>1, <4>1 DEF Fork, At, CmdTypeOK
      <4>3. \A v \in W : writers'[v] =
              IF "outWr" \in held[v] THEN writers[v] \cup {w} ELSE writers[v]
        BY <1>4, <3>1, <4>1 DEF Fork, At, CmdTypeOK
      <4>4. w \in writers'[w] /\ \A v \in W : writers[v] \subseteq writers'[v]
        BY <4>1, <4>3
      <4> QED
        BY <4>1, <4>2, <4>4, <1>c DEF CmdTypeOK, Children
    <3>2. CASE pc'[w] # "close"
      BY <1>4, <3>2 DEF Fork, At, CmdTypeOK, Children
    <3> QED
      BY <3>1, <3>2
  <2>4. Output'
    BY <1>4, <1>c DEF Fork, At, CmdTypeOK, Children, Output, Opens, First
  <2>5. OutputWhole'
    BY <1>4, <1>c
       DEF Fork, At, CmdTypeOK, Results, Children, Output, OutputWhole, Opens, First
  <2>6. Results'
    BY <1>4, <1>c DEF Fork, At, CmdTypeOK, Results, Result
  <2> QED
    BY <2>1, <2>2, <2>3, <2>4, <2>5, <2>6
<1>5. ASSUME NEW w \in W, Err3(w)
      PROVE  CInv'
  <2>1. CmdTypeOK'
    BY <1>5, <1>c DEF Err3, At, CmdTypeOK, Closes, First, Second, In, Out
  <2>2. Places'
    BY <1>5, <1>c
       DEF Err3, At, CmdTypeOK, Places, BothPipes, OnePipe, ReadingOut, Closes, First,
           Second, In, Out
  <2>3. Children'
    BY <1>5, <1>c DEF Err3, At, CmdTypeOK, Children, Output, Closes, First, Second
  <2>4. Output'
    BY <1>5, <1>c DEF Err3, At, CmdTypeOK, Children, Output, Closes, First, Second
  <2>5. OutputWhole'
    BY <1>5, <1>c
       DEF Err3, At, CmdTypeOK, Results, Children, Output, OutputWhole, Closes, First,
           Second
  <2>6. Results'
    BY <1>5, <1>c DEF Err3, At, CmdTypeOK, Results, Result
  <2> QED
    BY <2>1, <2>2, <2>3, <2>4, <2>5, <2>6
<1>6. ASSUME NEW w \in W, Err2(w)
      PROVE  CInv'
  <2>1. CmdTypeOK'
    BY <1>6, <1>c, FirstSecond DEF Err2, At, CmdTypeOK, Closes, Fails, In, Out, End
  <2>2. Places'
    BY <1>6, <1>c, FirstSecond
       DEF Err2, At, CmdTypeOK, Places, BothPipes, OnePipe, ReadingOut, Closes, Fails
  <2>3. Children'
    BY <1>6, <1>c DEF Err2, At, CmdTypeOK, Children, Output, Closes, First, Fails
  <2>4. Output'
    BY <1>6, <1>c DEF Err2, At, CmdTypeOK, Children, Output, Closes, First, Fails
  <2>5. OutputWhole'
    BY <1>6, <1>c
       DEF Err2, At, CmdTypeOK, Results, Children, Output, OutputWhole, Closes, First, Fails
  <2>6. Results'
    BY <1>6, <1>c DEF Err2, At, CmdTypeOK, Results, Result, Fails, Failure
  <2> QED
    BY <2>1, <2>2, <2>3, <2>4, <2>5, <2>6
<1>7. ASSUME NEW w \in W, CloseChildEnds(w)
      PROVE  CInv'
  <2>1. CmdTypeOK'
    BY <1>7, <1>c DEF CloseChildEnds, At, CmdTypeOK, Closes, First, In, Out
  <2>2. Places'
    BY <1>7, <1>c
       DEF CloseChildEnds, At, CmdTypeOK, Places, BothPipes, OnePipe, ReadingOut, Closes,
           First, In, Out
  <2>3. Children'
    BY <1>7, <1>c DEF CloseChildEnds, At, CmdTypeOK, Children, Output, Closes, First
  <2>4. Output'
    BY <1>7, <1>c DEF CloseChildEnds, At, CmdTypeOK, Children, Output, Closes, First
  <2>5. OutputWhole'
    BY <1>7, <1>c
       DEF CloseChildEnds, At, CmdTypeOK, Results, Children, Output, OutputWhole, Closes,
           First
  <2>6. Results'
    BY <1>7, <1>c DEF CloseChildEnds, At, CmdTypeOK, Results, Result
  <2> QED
    BY <2>1, <2>2, <2>3, <2>4, <2>5, <2>6
<1>8. ASSUME NEW w \in W, ReadPiece(w)
      PROVE  CInv'
  <2>1. CmdTypeOK'
    BY <1>8, <1>c DEF ReadPiece, At, CmdTypeOK, Pending, Expand, TailSize, In, Out
  <2>2. Places'
    BY <1>8, <1>c
       DEF ReadPiece, At, CmdTypeOK, Places, BothPipes, OnePipe, ReadingOut, Pending,
           Expand, TailSize, In, Out
  <2>3. Children'
    BY <1>8, <1>c DEF ReadPiece, At, CmdTypeOK, Children, Output, Pending, Expand, TailSize
  <2>4. Output'
    BY <1>8, <1>c DEF ReadPiece, At, CmdTypeOK, Children, Output, Pending, Expand, TailSize
  <2>5. OutputWhole'
    BY <1>8, <1>c
       DEF ReadPiece, At, CmdTypeOK, Results, Children, Output, OutputWhole, Pending,
           Expand, TailSize
  <2>6. Results'
    BY <1>8, <1>c DEF ReadPiece, At, CmdTypeOK, Results, Result
  <2> QED
    BY <2>1, <2>2, <2>3, <2>4, <2>5, <2>6
<1>9. ASSUME NEW w \in W, ReadEnd(w)
      PROVE  CInv'
  <2>1. CmdTypeOK'
    BY <1>9, <1>c DEF ReadEnd, At, CmdTypeOK, Pending, In, Out
  <2>2. Places'
    BY <1>9, <1>c DEF ReadEnd, At, CmdTypeOK, Places, BothPipes, OnePipe, ReadingOut,
       Pending, In, Out
  <2>3. Children'
    BY <1>9, <1>c DEF ReadEnd, At, CmdTypeOK, Children, Output, Pending
  <2>4. Output'
    BY <1>9, <1>c DEF ReadEnd, At, CmdTypeOK, Children, Output, Pending
  <2>5. OutputWhole'
    BY <1>9, <1>c
       DEF ReadEnd, At, CmdTypeOK, Results, Children, Output, OutputWhole, Pending
  <2>6. Results'
    BY <1>9, <1>c DEF ReadEnd, At, CmdTypeOK, Results, Result
  <2> QED
    BY <2>1, <2>2, <2>3, <2>4, <2>5, <2>6
<1>10. ASSUME NEW w \in W, CleanupPipes(w)
      PROVE  CInv'
  <2>1. CmdTypeOK'
    BY <1>10, <1>c DEF CleanupPipes, At, CmdTypeOK, Closes, First, In, Out
  <2>2. Places'
    BY <1>10, <1>c
       DEF CleanupPipes, At, CmdTypeOK, Places, BothPipes, OnePipe, ReadingOut, Closes,
           First, In, Out
  <2>3. Children'
    BY <1>10, <1>c DEF CleanupPipes, At, CmdTypeOK, Children, Output, Closes, First
  <2>4. Output'
    BY <1>10, <1>c DEF CleanupPipes, At, CmdTypeOK, Children, Output, Closes, First
  <2>5. OutputWhole'
    BY <1>10, <1>c
       DEF CleanupPipes, At, CmdTypeOK, Results, Children, Output, OutputWhole, Closes,
           First
  <2>6. Results'
    BY <1>10, <1>c DEF CleanupPipes, At, CmdTypeOK, Results, Result
  <2> QED
    BY <2>1, <2>2, <2>3, <2>4, <2>5, <2>6
<1>11. ASSUME NEW w \in W, CleanupChild(w)
      PROVE  CInv'
  <2>1. CmdTypeOK'
    BY <1>11, <1>c DEF CleanupChild, At, CmdTypeOK, Closes, First, In, Out
  <2>2. Places'
    BY <1>11, <1>c
       DEF CleanupChild, At, CmdTypeOK, Places, BothPipes, OnePipe, ReadingOut, Closes,
           First, In, Out
  <2>3. Children'
    BY <1>11, <1>c DEF CleanupChild, At, CmdTypeOK, Children, Output, Closes, First
  <2>4. Output'
    BY <1>11, <1>c DEF CleanupChild, At, CmdTypeOK, Children, Output, Closes, First
  <2>5. OutputWhole'
    BY <1>11, <1>c
       DEF CleanupChild, At, CmdTypeOK, Results, Children, Output, OutputWhole, Closes,
           First
  <2>6. Results'
    BY <1>11, <1>c DEF CleanupChild, At, CmdTypeOK, Results, Result
  <2> QED
    BY <2>1, <2>2, <2>3, <2>4, <2>5, <2>6
<1>12. ASSUME NEW w \in W, ProcessResult(w)
      PROVE  CInv'
  <2>1. CmdTypeOK'
    BY <1>12 DEF ProcessResult, At, CmdTypeOK
  <2>2. Places'
    BY <1>12 DEF ProcessResult, At, CmdTypeOK, Places, BothPipes, OnePipe, ReadingOut
  <2>3. Children' /\ Output'
    BY <1>12, <1>c DEF ProcessResult, At, CmdTypeOK, Children, Output
  <2>h. /\ cmd[w] \in Commands /\ cmd' = cmd
        /\ result' = [result EXCEPT ![w] = Parsed(cmd[w].kind, cmd[w].text)]
    <3>1. cmd[w] \in Commands /\ got[w] = Len(cmd[w].text)
      BY <1>12 DEF ProcessResult, At, Children, Output
    <3>2. SubSeq(cmd[w].text, 1, got[w]) = cmd[w].text
      BY <3>1, <1>c
    <3> QED
      BY <1>12, <3>1, <3>2 DEF ProcessResult
  <2>4. OutputWhole'
    BY <1>12, <2>h DEF ProcessResult, At, CmdTypeOK, Results, OutputWhole
  <2>5. Results'
    BY <2>h DEF Results, Result
  <2> QED
    BY <2>1, <2>2, <2>3, <2>4, <2>5
<1>13. ASSUME NEW w \in W, GetResult(w)
      PROVE  CInv'
  <2>1. CmdTypeOK'
    BY <1>13, <1>c DEF GetResult, At, CmdTypeOK, In, Out
  <2>2. Places'
    BY <1>13, <1>c DEF GetResult, At, CmdTypeOK, Places, BothPipes, OnePipe, ReadingOut,
       In, Out
  <2>3. Children'
    BY <1>13, <1>c DEF GetResult, At, CmdTypeOK, Children, Output
  <2>4. Output'
    BY <1>13, <1>c DEF GetResult, At, CmdTypeOK, Children, Output
  <2>5. OutputWhole'
    BY <1>13, <1>c DEF GetResult, At, CmdTypeOK, Results, Children, Output, OutputWhole
  <2>6. Results'
    BY <1>13, <1>c DEF GetResult, At, CmdTypeOK, Results, Result
  <2> QED
    BY <2>1, <2>2, <2>3, <2>4, <2>5, <2>6
<1>14. ASSUME NEW w \in W, ChildWrite(w)
      PROVE  CInv'
  <2>1. CmdTypeOK'
    BY <1>14, <1>c DEF ChildWrite, At, CmdTypeOK, In, Out
  <2>2. Places'
    BY <1>14, <1>c DEF ChildWrite, At, CmdTypeOK, Places, BothPipes, OnePipe, ReadingOut,
       In, Out
  <2>3. Children'
    BY <1>14, <1>c DEF ChildWrite, At, CmdTypeOK, Children, Output
  <2>4. Output'
    BY <1>14, <1>c DEF ChildWrite, At, CmdTypeOK, Children, Output
  <2>5. OutputWhole'
    BY <1>14, <1>c DEF ChildWrite, At, CmdTypeOK, Results, Children, Output, OutputWhole
  <2>6. Results'
    BY <1>14, <1>c DEF ChildWrite, At, CmdTypeOK, Results, Result
  <2> QED
    BY <2>1, <2>2, <2>3, <2>4, <2>5, <2>6
<1>15. ASSUME NEW w \in W, ChildExit(w)
      PROVE  CInv'
  <2>1. CmdTypeOK'
    BY <1>15, <1>c DEF ChildExit, At, CmdTypeOK, In, Out
  <2>2. Places'
    BY <1>15, <1>c DEF ChildExit, At, CmdTypeOK, Places, BothPipes, OnePipe, ReadingOut,
       In, Out
  <2>3. Children'
    BY <1>15, <1>c DEF ChildExit, At, CmdTypeOK, Children, Output
  <2>4. Output'
    BY <1>15, <1>c DEF ChildExit, At, CmdTypeOK, Children, Output
  <2>5. OutputWhole'
    BY <1>15, <1>c DEF ChildExit, At, CmdTypeOK, Results, Children, Output, OutputWhole
  <2>6. Results'
    BY <1>15, <1>c DEF ChildExit, At, CmdTypeOK, Results, Result
  <2> QED
    BY <2>1, <2>2, <2>3, <2>4, <2>5, <2>6
<1>16. CASE UNCHANGED cmdVars
  BY <1>16
     DEF cmdVars, CmdTypeOK, Results, Places, BothPipes, OnePipe, ReadingOut, Children,
         Output, OutputWhole
<1> QED
  BY <1>1, <1>2, <1>3, <1>4, <1>5, <1>6, <1>7, <1>8, <1>9, <1>10, <1>11, <1>12, <1>13,
     <1>14, <1>15, <1>16 DEF CmdNext, Step, ChildStep

\* Hence it holds in every state.
LEMMA CInvariant == CmdSpec => []CInv
BY InitCInv, NextCInv, PTL DEF CmdSpec

\* Every variable of AdbCmd keeps its type.
THEOREM CmdTypeCorrect == CmdSpec => []CmdTypeOK
BY CInvariant, PTL DEF CInv

\* However a command ends, all of CreateChildProcess's descriptors are closed
\* again and its child has been waited for, whatever the other threads do.
THEOREM NoCommandLeaks == CmdSpec => []NothingLeaks
<1>1. CInv => NothingLeaks
  <2> SUFFICES ASSUME CInv, NEW w \in W, pc[w] = "done"
               PROVE  held[w] = {} /\ child[w] = "none"
    BY DEF NothingLeaks
  <2>1. /\ "inRd" \notin held[w] /\ "inWr" \notin held[w] /\ "outRd" \notin held[w]
        /\ "outWr" \notin held[w] /\ "process" \notin held[w]
    BY DEF CInv, Places, BothPipes, OnePipe, ReadingOut
  <2>2. held[w] \in SUBSET (In \cup Out \cup {"process"})
    BY DEF CInv, CmdTypeOK
  <2>3. child[w] = "none"
    BY DEF CInv, Children
  <2> QED
    BY <2>1, <2>2, <2>3 DEF In, Out
<1> QED
  BY <1>1, CInvariant, PTL

\* ProcessResult is given all the child wrote, in a buffer it fits in, in
\* whatever pieces it was read and whatever the size of the pieces.
THEOREM OutputIsWhole == CmdSpec => []OutputWhole
BY CInvariant, PTL DEF CInv
=============================================================================
