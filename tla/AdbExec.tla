------------------------------- MODULE AdbExec -------------------------------
(***************************************************************************)
(* The command executor of libdevmgr (dev/SmartDeviceAdb.cpp) with the     *)
(* reference counting it relies on (comm/PObject.cpp).                     *)
(*                                                                         *)
(* A SmartDeviceAdb object holds, for each of the executor's queues, a     *)
(* FIFO of commands (_CmdList) and a flag saying that a worker is draining *)
(* it (_bRunning), both under _CmdLock.  The executor holds, for each      *)
(* queue, a list of devices with work (_ExecList) under _ExecLock and a    *)
(* semaphore (_hExecEvent).  Worker threads take devices off the list and  *)
(* drain their command FIFOs; clients (CmdTableMod, AppTableMod,           *)
(* DevTableMod) obtain a device, queue a command and release the device;   *)
(* the monitor attaches and detaches devices.                              *)
(*                                                                         *)
(* _ExecLock sections call nothing that blocks, so each is one step.       *)
(* _CmdLock is held by QueueCmd across Request, so it is a variable.       *)
(***************************************************************************)
EXTENDS Integers, Sequences, FiniteSets, Functions

CONSTANTS
  Device,      \* SmartDeviceAdb objects
  Queue,       \* 0 .. ADB_DEV_QUEUE_CNT - 1
  Cmd,         \* commands that may be submitted, each once
  Worker,      \* worker threads
  Client,      \* threads that call QueueCmd
  WorkerQueue, \* ADB_CMD_THREAD_MAP: the queue each worker serves
  CmdQueue,    \* ADB_CMD_QUEUE_MAP: the queue of each command
  NoDev, NoCmd, NoClient

ASSUME ConstantsAssumption ==
  /\ IsFiniteSet(Worker)
  /\ WorkerQueue \in [Worker -> Queue]
  /\ CmdQueue \in [Cmd -> Queue]
  /\ NoDev \notin Device /\ NoCmd \notin Cmd /\ NoClient \notin Client

VARIABLES
  mainPc,    \* the thread that calls Startup and Cleanup
  toPost,    \* queues Cleanup has still to post
  execQuit,  \* _bExecQuit
  sem,       \* _hExecEvent[q]
  execList,  \* _ExecList[q]
  cmdList,   \* _CmdList[q] of each device
  running,   \* _bRunning[q] of each device
  cmdLock,   \* owner of _CmdLock[q] of each device, when held across steps
  refcnt,    \* _lRefCnt of each device; 0: not constructed or deleted
  mon,       \* the monitor's side of a device
  devState,  \* _DeviceState
  wpc, wdev, wcmd,    \* each worker: where it is, its pDevice, its pRec
  cpc, cdev, cqueue,  \* each client: where it is, its pDevice, its nQueue
  status     \* what the observer of each command has been told

vars == <<mainPc, toPost, execQuit, sem, execList, cmdList, running, cmdLock,
          refcnt, mon, devState, wpc, wdev, wcmd, cpc, cdev, cqueue, status>>

mainVars   == <<mainPc, toPost, execQuit>>
workerVars == <<wpc, wdev, wcmd>>
clientVars == <<cpc, cdev, cqueue>>
devVars    == <<mon, devState>>

TypeOK ==
  /\ mainPc \in {"starting", "up", "posting", "joining", "down"}
  /\ toPost \in SUBSET Queue
  /\ execQuit \in BOOLEAN
  /\ sem \in [Queue -> Nat]
  /\ execList \in [Queue -> Seq(Device)]
  /\ cmdList \in [Device -> [Queue -> Seq(Cmd)]]
  /\ running \in [Device -> [Queue -> BOOLEAN]]
  /\ cmdLock \in [Device -> [Queue -> Client \cup {NoClient}]]
  /\ refcnt \in [Device -> Int]
  /\ mon \in [Device -> {"absent", "attached", "detaching", "gone"}]
  /\ devState \in [Device -> {"booting", "charger", "main"}]
  /\ wpc \in [Worker -> {"absent", "test", "wait", "drain", "begin", "one",
                         "exec", "next", "release", "exited"}]
  /\ wdev \in [Worker -> Device \cup {NoDev}]
  /\ wcmd \in [Worker -> Cmd \cup {NoCmd}]
  /\ cpc \in [Client -> {"idle", "got", "request", "post", "unlock", "release"}]
  /\ cdev \in [Client -> Device \cup {NoDev}]
  /\ cqueue \in [Client -> Queue]
  /\ status \in [Cmd -> {"new", "queued", "executing", "executed", "failed",
                         "cancelled", "refused"}]

Init ==
  /\ mainPc = "starting" /\ toPost = {} /\ execQuit = FALSE
  /\ sem = [q \in Queue |-> 0]
  /\ execList = [q \in Queue |-> <<>>]
  /\ cmdList = [d \in Device |-> [q \in Queue |-> <<>>]]
  /\ running = [d \in Device |-> [q \in Queue |-> FALSE]]
  /\ cmdLock = [d \in Device |-> [q \in Queue |-> NoClient]]
  /\ refcnt = [d \in Device |-> 0]
  /\ mon = [d \in Device |-> "absent"]
  /\ devState = [d \in Device |-> "booting"]
  /\ wpc = [w \in Worker |-> "absent"]
  /\ wdev = [w \in Worker |-> NoDev]
  /\ wcmd = [w \in Worker |-> NoCmd]
  /\ cpc = [c \in Client |-> "idle"]
  /\ cdev = [c \in Client |-> NoDev]
  /\ cqueue \in [Client -> Queue]
  /\ status = [k \in Cmd |-> "new"]

------------------------------------------------------------------------------
(* Helpers.                                                                *)

AddRef(d) == refcnt' = [refcnt EXCEPT ![d] = @ + 1]

\* The commands ~SmartDeviceAdb finds in the device's FIFOs.
Leftover(d) == UNION {Range(cmdList[d][q]) : q \in Queue}

\* PObject::Release.  The last reference runs the destructor, whose
\* FlushCmds cancels whatever is still queued.
Release(d) ==
  /\ refcnt' = [refcnt EXCEPT ![d] = @ - 1]
  /\ \/ /\ refcnt[d] = 1
        /\ cmdList' = [cmdList EXCEPT ![d] = [q \in Queue |-> <<>>]]
        /\ status' = [k \in Cmd |-> IF k \in Leftover(d) THEN "cancelled"
                                                         ELSE status[k]]
     \/ /\ refcnt[d] # 1
        /\ UNCHANGED <<cmdList, status>>

WorkerAt(w, from, to) == wpc[w] = from /\ wpc' = [wpc EXCEPT ![w] = to]
ClientAt(c, from, to) == cpc[c] = from /\ cpc' = [cpc EXCEPT ![c] = to]

------------------------------------------------------------------------------
(* Startup and Cleanup.                                                    *)

\* Startup creates one more worker; the last one completes it.
CreateWorker(w) ==
  /\ mainPc = "starting"
  /\ WorkerAt(w, "absent", "test")
  /\ mainPc' = IF \A v \in Worker \ {w} : wpc[v] # "absent" THEN "up" ELSE "starting"
  /\ UNCHANGED <<toPost, execQuit, sem, execList, cmdList, running, cmdLock, refcnt,
                 devVars, wdev, wcmd, clientVars, status>>

\* Cleanup sets _bExecQuit: after pthread_create failed in Startup, or when
\* the owner of the library shuts it down, its client threads being stopped.
CleanupQuit ==
  /\ \/ mainPc = "starting"
     \/ mainPc = "up" /\ \A c \in Client : cpc[c] = "idle"
  /\ execQuit' = TRUE
  /\ mainPc' = "posting"
  /\ toPost' = Queue
  /\ UNCHANGED <<sem, execList, cmdList, running, cmdLock, refcnt, devVars,
                 workerVars, clientVars, status>>

\* Mutant: one post per queue, as if each had one thread.
CleanupPostOnce(q) ==
  /\ mainPc = "posting"
  /\ q \in toPost
  /\ sem' = [sem EXCEPT ![q] = @ + 1]
  /\ toPost' = toPost \ {q}
  /\ mainPc' = IF toPost = {q} THEN "joining" ELSE "posting"
  /\ UNCHANGED <<execQuit, execList, cmdList, running, cmdLock, refcnt, devVars,
                 workerVars, clientVars, status>>

\* One post for every thread the queue was meant to have.
CleanupPost(q) ==
  /\ mainPc = "posting"
  /\ q \in toPost
  /\ sem' = [sem EXCEPT ![q] = @ + Cardinality({w \in Worker : WorkerQueue[w] = q})]
  /\ toPost' = toPost \ {q}
  /\ mainPc' = IF toPost = {q} THEN "joining" ELSE "posting"
  /\ UNCHANGED <<execQuit, execList, cmdList, running, cmdLock, refcnt, devVars,
                 workerVars, clientVars, status>>

\* All created threads have been joined; the semaphores are destroyed.
CleanupJoin ==
  /\ mainPc = "joining"
  /\ \A w \in Worker : wpc[w] \in {"absent", "exited"}
  /\ mainPc' = "down"
  /\ UNCHANGED <<toPost, execQuit, sem, execList, cmdList, running, cmdLock, refcnt,
                 devVars, workerVars, clientVars, status>>

------------------------------------------------------------------------------
(* The monitor: DeviceCenter and AdbDeviceMon, holding one reference.      *)

Attach(d) ==
  /\ mainPc = "up"
  /\ mon[d] = "absent"
  /\ mon' = [mon EXCEPT ![d] = "attached"]
  /\ AddRef(d)
  /\ UNCHANGED <<mainVars, sem, execList, cmdList, running, cmdLock, devState,
                 workerVars, clientVars, status>>

\* UpdateState: a booting device is found in charger or in main mode.
UpdateState(d) ==
  /\ mon[d] = "attached"
  /\ devState[d] = "booting"
  /\ \E s \in {"charger", "main"} : devState' = [devState EXCEPT ![d] = s]
  /\ UNCHANGED <<mainVars, sem, execList, cmdList, running, cmdLock, refcnt, mon,
                 workerVars, clientVars, status>>

\* OnDeviceDetached takes the device off the list GetDevice searches ...
Detach(d) ==
  /\ mon[d] = "attached"
  /\ mon' = [mon EXCEPT ![d] = "detaching"]
  /\ UNCHANGED <<mainVars, sem, execList, cmdList, running, cmdLock, refcnt, devState,
                 workerVars, clientVars, status>>

\* ... and the monitor's reference is dropped.
DetachRelease(d) ==
  /\ mon[d] = "detaching"
  /\ mon' = [mon EXCEPT ![d] = "gone"]
  /\ Release(d)
  /\ UNCHANGED <<mainVars, sem, execList, running, cmdLock, devState, workerVars,
                 clientVars>>

------------------------------------------------------------------------------
(* Clients.                                                                *)

\* GetDevice: find the device and take a reference, in one DeviceLock section.
GetDevice(c, d) ==
  /\ mainPc = "up"
  /\ mon[d] = "attached"
  /\ ClientAt(c, "idle", "got")
  /\ cdev' = [cdev EXCEPT ![c] = d]
  /\ AddRef(d)
  /\ UNCHANGED <<mainVars, sem, execList, cmdList, running, cmdLock, devVars,
                 workerVars, cqueue, status>>

\* CmdTableMod::ProcessCmd rejects the arguments and queues nothing.
RejectArgs(c) ==
  /\ ClientAt(c, "got", "release")
  /\ UNCHANGED <<mainVars, sem, execList, cmdList, running, cmdLock, refcnt, devVars,
                 workerVars, cdev, cqueue, status>>

\* QueueCmd fails to allocate the record.
QueueCmdNoMemory(c, k) ==
  /\ ClientAt(c, "got", "release")
  /\ status[k] = "new"
  /\ status' = [status EXCEPT ![k] = "refused"]
  /\ UNCHANGED <<mainVars, sem, execList, cmdList, running, cmdLock, refcnt, devVars,
                 workerVars, cdev, cqueue>>

\* The condition under which QueueCmd hands the device to the executor.
MustRequest(d, q) == cmdList[d][q] = <<>> /\ ~running[d][q]

\* QueueCmd: push under _CmdLock and, unless some thread has the queue in
\* hand, keep the lock and go on to Request.
QueueCmd(c, k) ==
  LET d == cdev[c]
      q == CmdQueue[k]
  IN /\ cpc[c] = "got"
     /\ status[k] = "new"
     /\ cmdLock[d][q] = NoClient
     /\ status' = [status EXCEPT ![k] = "queued"]
     /\ cmdList' = [cmdList EXCEPT ![d][q] = Append(@, k)]
     /\ cqueue' = [cqueue EXCEPT ![c] = q]
     /\ \/ /\ MustRequest(d, q)
           /\ cmdLock' = [cmdLock EXCEPT ![d][q] = c]
           /\ cpc' = [cpc EXCEPT ![c] = "request"]
        \/ /\ ~MustRequest(d, q)
           /\ cpc' = [cpc EXCEPT ![c] = "release"]
           /\ UNCHANGED cmdLock
     /\ UNCHANGED <<mainVars, sem, execList, running, refcnt, devVars, workerVars, cdev>>

\* Mutant: the list gets no reference of its own.
RequestNoRef(c) ==
  LET d == cdev[c]
      q == cqueue[c]
  IN /\ cpc[c] = "request"
     /\ d \notin Range(execList[q])
     /\ execList' = [execList EXCEPT ![q] = Append(@, d)]
     /\ cpc' = [cpc EXCEPT ![c] = IF execList[q] = <<>> THEN "post" ELSE "unlock"]
     /\ UNCHANGED <<mainVars, sem, cmdList, running, cmdLock, refcnt, devVars,
                    workerVars, cdev, cqueue, status>>

\* Request: append the device with a reference of its own.  The semaphore
\* is posted only if the list was empty.  Finding the device listed already
\* is the assert(0) of the code, which NoDuplicateRequest excludes.
Request(c) ==
  LET d == cdev[c]
      q == cqueue[c]
  IN /\ cpc[c] = "request"
     /\ d \notin Range(execList[q])
     /\ execList' = [execList EXCEPT ![q] = Append(@, d)]
     /\ AddRef(d)
     /\ cpc' = [cpc EXCEPT ![c] = IF execList[q] = <<>> THEN "post" ELSE "unlock"]
     /\ UNCHANGED <<mainVars, sem, cmdList, running, cmdLock, devVars, workerVars,
                    cdev, cqueue, status>>

RequestPost(c) ==
  /\ ClientAt(c, "post", "unlock")
  /\ sem' = [sem EXCEPT ![cqueue[c]] = @ + 1]
  /\ UNCHANGED <<mainVars, execList, cmdList, running, cmdLock, refcnt, devVars,
                 workerVars, cdev, cqueue, status>>

QueueCmdUnlock(c) ==
  /\ ClientAt(c, "unlock", "release")
  /\ cmdLock' = [cmdLock EXCEPT ![cdev[c]][cqueue[c]] = NoClient]
  /\ UNCHANGED <<mainVars, sem, execList, cmdList, running, refcnt, devVars,
                 workerVars, cdev, cqueue, status>>

ClientRelease(c) ==
  /\ ClientAt(c, "release", "idle")
  /\ cdev' = [cdev EXCEPT ![c] = NoDev]
  /\ Release(cdev[c])
  /\ UNCHANGED <<mainVars, sem, execList, running, cmdLock, devVars, workerVars, cqueue>>

------------------------------------------------------------------------------
(* Workers.                                                                *)

\* while ( !_bExecQuit )
WorkerTest(w) ==
  /\ WorkerAt(w, "test", IF execQuit THEN "exited" ELSE "wait")
  /\ UNCHANGED <<mainVars, sem, execList, cmdList, running, cmdLock, refcnt, devVars,
                 wdev, wcmd, clientVars, status>>

\* sem_wait
WorkerWait(w) ==
  LET q == WorkerQueue[w]
  IN /\ WorkerAt(w, "wait", "drain")
     /\ sem[q] > 0
     /\ sem' = [sem EXCEPT ![q] = @ - 1]
     /\ UNCHANGED <<mainVars, execList, cmdList, running, cmdLock, refcnt, devVars,
                    wdev, wcmd, clientVars, status>>

\* Take the first device of the list; the list's reference goes with it.
WorkerTake(w) ==
  LET q == WorkerQueue[w]
  IN /\ WorkerAt(w, "drain", "begin")
     /\ execList[q] # <<>>
     /\ wdev' = [wdev EXCEPT ![w] = Head(execList[q])]
     /\ execList' = [execList EXCEPT ![q] = Tail(@)]
     /\ UNCHANGED <<mainVars, sem, cmdList, running, cmdLock, refcnt, devVars, wcmd,
                    clientVars, status>>

\* The list is empty: back to the loop test.
WorkerDrained(w) ==
  /\ WorkerAt(w, "drain", "test")
  /\ execList[WorkerQueue[w]] = <<>>
  /\ UNCHANGED <<mainVars, sem, execList, cmdList, running, cmdLock, refcnt, devVars,
                 wdev, wcmd, clientVars, status>>

\* Mutant: _bRunning is not cleared when the FIFO is found empty.
WorkerPopKeepsRunning(w) ==
  LET d == wdev[w]
      q == WorkerQueue[w]
  IN /\ wpc[w] \in {"begin", "next"}
     /\ cmdLock[d][q] = NoClient
     /\ \/ /\ cmdList[d][q] # <<>>
           /\ wcmd' = [wcmd EXCEPT ![w] = Head(cmdList[d][q])]
           /\ cmdList' = [cmdList EXCEPT ![d][q] = Tail(@)]
           /\ running' = [running EXCEPT ![d][q] = TRUE]
           /\ wpc' = [wpc EXCEPT ![w] = "one"]
        \/ /\ cmdList[d][q] = <<>>
           /\ wpc' = [wpc EXCEPT ![w] = "release"]
           /\ UNCHANGED <<wcmd, cmdList, running>>
     /\ UNCHANGED <<mainVars, sem, execList, cmdLock, refcnt, devVars, wdev,
                    clientVars, status>>

\* Execute, in one _CmdLock section: take the oldest command, or find none
\* and clear _bRunning.  "begin" is the first pass, "next" the later ones.
WorkerPop(w) ==
  LET d == wdev[w]
      q == WorkerQueue[w]
  IN /\ wpc[w] \in {"begin", "next"}
     /\ cmdLock[d][q] = NoClient
     /\ \/ /\ cmdList[d][q] # <<>>
           /\ wcmd' = [wcmd EXCEPT ![w] = Head(cmdList[d][q])]
           /\ cmdList' = [cmdList EXCEPT ![d][q] = Tail(@)]
           /\ running' = [running EXCEPT ![d][q] = TRUE]
           /\ wpc' = [wpc EXCEPT ![w] = "one"]
        \/ /\ cmdList[d][q] = <<>>
           /\ running' = [running EXCEPT ![d][q] = FALSE]
           /\ wpc' = [wpc EXCEPT ![w] = "release"]
           /\ UNCHANGED <<wcmd, cmdList>>
     /\ UNCHANGED <<mainVars, sem, execList, cmdLock, refcnt, devVars, wdev,
                    clientVars, status>>

\* Mutant: the record is freed without a word to the observer.
WorkerCancelSilently(w) ==
  /\ WorkerAt(w, "one", "next")
  /\ devState[wdev[w]] # "main"
  /\ wcmd' = [wcmd EXCEPT ![w] = NoCmd]
  /\ UNCHANGED <<mainVars, sem, execList, cmdList, running, cmdLock, refcnt, devVars,
                 wdev, clientVars, status>>

\* ExecuteOne outside the main state: OnCancelled, and the record is freed.
WorkerCancel(w) ==
  /\ WorkerAt(w, "one", "next")
  /\ devState[wdev[w]] # "main"
  /\ status' = [status EXCEPT ![wcmd[w]] = "cancelled"]
  /\ wcmd' = [wcmd EXCEPT ![w] = NoCmd]
  /\ UNCHANGED <<mainVars, sem, execList, cmdList, running, cmdLock, refcnt, devVars,
                 wdev, clientVars>>

\* ExecuteOne in the main state: OnExecuting ...
WorkerStart(w) ==
  /\ WorkerAt(w, "one", "exec")
  /\ devState[wdev[w]] = "main"
  /\ status' = [status EXCEPT ![wcmd[w]] = "executing"]
  /\ UNCHANGED <<mainVars, sem, execList, cmdList, running, cmdLock, refcnt, devVars,
                 wdev, wcmd, clientVars>>

\* ... the adb command runs, then OnExecuted or OnFailed, and FreeCmdRec.
WorkerFinish(w) ==
  /\ WorkerAt(w, "exec", "next")
  /\ \E r \in {"executed", "failed"} : status' = [status EXCEPT ![wcmd[w]] = r]
  /\ wcmd' = [wcmd EXCEPT ![w] = NoCmd]
  /\ UNCHANGED <<mainVars, sem, execList, cmdList, running, cmdLock, refcnt, devVars,
                 wdev, clientVars>>

\* Mutants: one device per post, without draining the list; the reference
\* taken from the list never dropped.
WorkerReleaseNoDrain(w) ==
  /\ WorkerAt(w, "release", "test")
  /\ wdev' = [wdev EXCEPT ![w] = NoDev]
  /\ Release(wdev[w])
  /\ UNCHANGED <<mainVars, sem, execList, running, cmdLock, devVars, wcmd, clientVars>>

WorkerReleaseNoDrop(w) ==
  /\ WorkerAt(w, "release", "drain")
  /\ wdev' = [wdev EXCEPT ![w] = NoDev]
  /\ UNCHANGED <<mainVars, sem, execList, cmdList, running, cmdLock, refcnt, devVars,
                 wcmd, clientVars, status>>

\* pDevice->Release(), back into the drain loop.
WorkerRelease(w) ==
  /\ WorkerAt(w, "release", "drain")
  /\ wdev' = [wdev EXCEPT ![w] = NoDev]
  /\ Release(wdev[w])
  /\ UNCHANGED <<mainVars, sem, execList, running, cmdLock, devVars, wcmd, clientVars>>

------------------------------------------------------------------------------

WorkerStep(w) ==
  \/ WorkerTest(w) \/ WorkerWait(w) \/ WorkerTake(w) \/ WorkerDrained(w)
  \/ WorkerPop(w) \/ WorkerCancel(w) \/ WorkerStart(w) \/ WorkerFinish(w)
  \/ WorkerRelease(w)

\* What a client does once it holds a device; starting is its own choice.
ClientStep(c) ==
  \/ \E k \in Cmd : QueueCmd(c, k) \/ QueueCmdNoMemory(c, k)
  \/ RejectArgs(c) \/ Request(c) \/ RequestPost(c) \/ QueueCmdUnlock(c)
  \/ ClientRelease(c)

CleanupStep == (\E q \in Queue : CleanupPost(q)) \/ CleanupJoin

\* After Cleanup the process is left with what it has.
Terminated == mainPc = "down" /\ UNCHANGED vars

Next ==
  \/ \E w \in Worker : CreateWorker(w)
  \/ CleanupQuit
  \/ CleanupStep
  \/ Terminated
  \/ \E d \in Device : Attach(d) \/ UpdateState(d) \/ Detach(d) \/ DetachRelease(d)
  \/ \E c \in Client, d \in Device : GetDevice(c, d)
  \/ \E c \in Client : ClientStep(c)
  \/ \E w \in Worker : WorkerStep(w)

Spec == Init /\ [][Next]_vars

\* Threads that can run do run, a started adb command ends, and a Cleanup
\* that has been called proceeds.
Fairness ==
  /\ \A w \in Worker : WF_vars(WorkerStep(w))
  /\ \A c \in Client : WF_vars(ClientStep(c))
  /\ WF_vars(CleanupStep)

FairSpec == Spec /\ Fairness

------------------------------------------------------------------------------
(* Properties.                                                             *)

\* Worker w has device d in hand for queue q, inside Execute or about to
\* enter it.
Engaged(w, d, q) ==
  /\ wdev[w] = d /\ WorkerQueue[w] = q
  /\ wpc[w] \in {"begin", "one", "exec", "next"}

\* Client c is between the decision of QueueCmd to call Request for (d, q)
\* and the push on _ExecList.
Requesting(c, d, q) == cpc[c] = "request" /\ cdev[c] = d /\ cqueue[c] = q

\* The assertion of Request (SmartDeviceAdb.cpp:116): a client that calls it
\* never finds the device on the list.
NoDuplicateRequest ==
  \A c \in Client : cpc[c] = "request" => cdev[c] \notin Range(execList[cqueue[c]])

\* Of all workers of a queue at most one runs a given device, so the commands
\* of a device's FIFO never overlap, whatever the size of the pool.
SingleRunner ==
  \A d \in Device, q \in Queue : \A v, w \in Worker :
     Engaged(v, d, q) /\ Engaged(w, d, q) => v = w

\* QueueCmd leaves the request out only when somebody else will see the
\* command: a device with queued commands is listed, in the hands of a
\* worker, or about to be listed.
NoLostDevice ==
  \A d \in Device, q \in Queue :
     cmdList[d][q] # <<>> =>
        \/ d \in Range(execList[q])
        \/ \E w \in Worker : Engaged(w, d, q)
        \/ \E c \in Client : Requesting(c, d, q)

\* Request posts only for the first entry of the list; still, while the list
\* has an entry and the executor is not being shut down, a post is available
\* or due, or a worker that has not yet seen the list empty is awake.
NoLostWakeup ==
  \A q \in Queue :
     execList[q] # <<>> /\ ~execQuit =>
        \/ sem[q] > 0
        \/ \E c \in Client : cpc[c] = "post" /\ cqueue[c] = q
        \/ \E w \in Worker :
              /\ WorkerQueue[w] = q
              /\ wpc[w] \in {"drain", "begin", "one", "exec", "next", "release"}

\* What QueueCmd, Request and the loop of WorkThread owe to each device between
\* them: its commands are executed by one worker at a time, and while there
\* are any somebody is on the way to it who will be woken.
LaneServed == SingleRunner /\ NoLostDevice /\ NoLostWakeup

\* Everything that holds a reference on d: its monitor, the clients that got
\* it, the lists it is on, the workers that took it off.
Holders(d) ==
       {<<"monitor", m>> : m \in {n \in {d} : mon[n] \in {"attached", "detaching"}}}
  \cup {<<"client", c>> : c \in {b \in Client : cdev[b] = d}}
  \cup {<<"list", q>> : q \in {p \in Queue : d \in Range(execList[p])}}
  \cup {<<"worker", w>> : w \in {v \in Worker : wdev[v] = d}}

\* The reference count is exact in every state: no path of the executor
\* forgets or doubles an AddRef or a Release.
RefsExact == \A d \in Device : refcnt[d] = Cardinality(Holders(d))

\* The destructor's FlushCmds never finds a command to cancel, and nobody is
\* inside Execute or QueueCmd of the object that is deleted.
DestructorFindsNothing ==
  [][\A d \in Device : refcnt[d] = 1 /\ refcnt'[d] = 0 =>
       /\ Leftover(d) = {}
       /\ \A q \in Queue : cmdLock[d][q] = NoClient /\ ~running[d][q]]_vars

\* A queued command is reported finished, unless the executor is shut down.
CommandFinishes ==
  \A k \in Cmd : status[k] = "queued" ~>
                   (status[k] \in {"executed", "failed", "cancelled"} \/ execQuit)

\* Cleanup's joins return: its posts suffice to get every worker out of
\* sem_wait, whatever posts of Request the workers have used before.
CleanupReturns == (mainPc = "posting") ~> (mainPc = "down")

\* A detached device is deleted once its work is done.
DeviceDeleted == \A d \in Device : (mon[d] = "gone") ~> (refcnt[d] = 0 \/ execQuit)

(* The executor implements CmdService: a worker between popping a command  *)
(* and reporting on it still has that command at the head of its lane.     *)
Popped(d, q) == {w \in Worker : wpc[w] = "one" /\ wdev[w] = d /\ WorkerQueue[w] = q}
Running(d, q) == {w \in Worker : wpc[w] = "exec" /\ wdev[w] = d /\ WorkerQueue[w] = q}

Lane(d, q) ==
  IF Popped(d, q) = {} THEN cmdList[d][q]
  ELSE <<wcmd[CHOOSE w \in Popped(d, q) : TRUE]>> \o cmdList[d][q]

ActiveCmd(d, q) ==
  IF Running(d, q) = {} THEN NoCmd ELSE wcmd[CHOOSE w \in Running(d, q) : TRUE]

Service == INSTANCE CmdService WITH
  pending <- [d \in Device |-> [q \in Queue |-> Lane(d, q)]],
  active <- [d \in Device |-> [q \in Queue |-> ActiveCmd(d, q)]],
  outcome <- status,
  LaneOf <- CmdQueue

\* Seen through the callbacks, the pool of threads is a set of FIFO lanes
\* that report every command once (inc/CmdObserver.h).
ImplementsService == Service!ServiceSpec
==============================================================================
