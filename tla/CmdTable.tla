------------------------------- MODULE CmdTable -------------------------------
(***************************************************************************)
(* The request table of libdevmgr: CmdTableMod (db/CmdTableMod.cpp) reads  *)
(* new rows of op_requests, hands them to the command executor and records *)
(* in the table what the executor reports.                                 *)
(*                                                                         *)
(* Three parties update a row without a common lock: the peer inserts it,  *)
(* the monitor thread marks it processing or refused, and the executor's   *)
(* callbacks mark it executing and done.  Any statement may fail, and the  *)
(* process may crash and be started again over the same database.          *)
(*                                                                         *)
(* The executor is CmdService, which AdbExec implements.  Its callbacks    *)
(* run in the worker, so a lane does not go on before they return.         *)
(***************************************************************************)
EXTENDS Integers, Sequences, FiniteSets, Functions

CONSTANTS
  Row,        \* requests: each is inserted at most once
  Device,     \* device objects; a device plugged in again is a new object
  Queue,      \* queues of the executor
  IdOf,       \* the serial number of each object
  RowId,      \* the serial number each request names
  RowQueue,   \* the queue of each request's command code
  MaxFail,    \* bound: SQL statements that fail
  MaxCrash,   \* bound: crashes
  NoRow, NoDev, NoCmd

\* A request, and which handing over it is: one more number than QueuedOnce
\* lets a request use.
Command == Row \X (1 .. MaxFail + 2)

ASSUME TableConstants ==
  /\ RowId \in [Row -> {IdOf[d] : d \in Device}] /\ RowQueue \in [Row -> Queue]
  /\ IsFiniteSet(Device) /\ MaxFail \in Nat /\ MaxCrash \in Nat
  /\ NoRow \notin Row /\ NoDev \notin Device /\ NoCmd \notin Command

VARIABLES
  rows, proc, done, result,  \* op_requests: the rows, is_processing, is_done, result
  pending, active, outcome,  \* the executor, as CmdService has it
  lanePc, laneCmd,           \* callbacks: where each lane's worker is, and the command
  mainPc, quit, wake,        \* Load and Unload, _bQuit, _hWakeEvent
  monPc, picked,             \* the monitor thread, the rest of its result set
  monRow, monDev, monErr,    \* row, pDevice and dwRet of ProcessCmd
  asked, msgs, devst,        \* requests made, messages under way, device objects
  queued,                    \* how often each request was handed to the executor
  dirty,                     \* the table has changed since the last Notify
  failed, fails, crashes     \* rows a statement failed for; the counts

table   == <<rows, proc, done, result>>
service == <<pending, active, outcome>>
lanes   == <<lanePc, laneCmd>>
main    == <<mainPc, quit>>
mon     == <<monPc, picked, monRow, monDev, monErr>>
env     == <<asked, msgs, devst>>
faults  == <<failed, fails>>
vars == <<table, service, lanes, main, wake, mon, env, queued, dirty, faults, crashes>>

Service == INSTANCE CmdService WITH Cmd <- Command,
                                    LaneOf <- [k \in Command |-> RowQueue[k[1]]]

Error == {"notfound", "refused"}

TypeOK ==
  /\ rows \subseteq Row /\ proc \in [Row -> 0 .. 2] /\ done \in [Row -> BOOLEAN]
  /\ result \in [Row -> Error \cup {"none", "executed", "failed", "cancelled"}]
  /\ pending \in [Device -> [Queue -> Seq(Command)]]
  /\ active \in [Device -> [Queue -> Command \cup {NoCmd}]]
  /\ lanePc \in [Device -> [Queue ->
        {"idle", "begin", "beginNotify", "run", "report", "reportNotify"}]]
  /\ laneCmd \in [Device -> [Queue -> Command \cup {NoCmd}]]
  /\ mainPc \in {"load", "create", "register", "up", "joining", "down"}
  /\ quit \in BOOLEAN /\ wake \in Nat
  /\ monPc \in {"absent", "wait", "probe", "row", "queue", "update", "notify", "exited"}
  /\ picked \subseteq Row /\ monRow \in Row \cup {NoRow}
  /\ monDev \in Device \cup {NoDev} /\ monErr \in Error \cup {"none"}
  /\ asked \subseteq Row /\ msgs \subseteq Row
  /\ devst \in [Device -> {"new", "attached", "gone"}]
  /\ queued \in [Row -> Nat] /\ dirty \in BOOLEAN
  /\ failed \subseteq Row /\ fails \in 0 .. MaxFail /\ crashes \in 0 .. MaxCrash

Idle(v) == [d \in Device |-> [q \in Queue |-> v]]

Init ==
  /\ pending = Idle(<<>>) /\ active = Idle(NoCmd)
  /\ lanePc = Idle("idle") /\ laneCmd = Idle(NoCmd)
  /\ mainPc = "load" /\ quit = FALSE /\ wake = 1
  /\ monPc = "absent" /\ picked = {} /\ monRow = NoRow /\ monDev = NoDev /\ monErr = "none"
  /\ rows = {} /\ asked = {} /\ msgs = {} /\ dirty = FALSE
  /\ proc = [r \in Row |-> 0] /\ done = [r \in Row |-> FALSE]
  /\ result = [r \in Row |-> "none"]
  /\ outcome = [k \in Command |-> "new"]
  /\ devst = [d \in Device |-> "new"]
  /\ queued = [r \in Row |-> 0]
  /\ failed = {} /\ fails = 0 /\ crashes = 0

------------------------------------------------------------------------------
(* Statements.                                                             *)

\* ExecSql("update op_requests ... where id=r"): it may fail, which the code
\* only logs.
Set(r, p, d, v) ==
  /\ proc' = [proc EXCEPT ![r] = p]
  /\ done' = [done EXCEPT ![r] = d]
  /\ result' = [result EXCEPT ![r] = v]
  /\ dirty' = TRUE
  /\ UNCHANGED <<rows, faults>>

SqlFails(S) ==
  /\ fails < MaxFail
  /\ fails' = fails + 1
  /\ failed' = failed \cup S
  /\ UNCHANGED <<table, dirty>>

------------------------------------------------------------------------------
(* The environment: peers, devices, crashes.                               *)

\* A peer inserts a request, then tells a running server (MsgClient).
RequestRow(r) ==
  /\ r \notin asked
  /\ asked' = asked \cup {r}
  /\ rows' = rows \cup {r}
  /\ msgs' = IF mainPc = "up" THEN msgs \cup {r} ELSE msgs
  /\ UNCHANGED <<proc, done, result, service, lanes, main, wake, mon, devst, queued,
                 dirty, faults, crashes>>

\* Mutant: a post only when the monitor thread seems to sleep.
OnCmdUpdatedIfIdle(r) ==
  /\ r \in msgs
  /\ msgs' = msgs \ {r}
  /\ wake' = IF monPc = "wait" THEN wake + 1 ELSE wake
  /\ UNCHANGED <<table, service, lanes, main, mon, asked, devst, queued, dirty,
                 faults, crashes>>

\* OnCmdUpdated.
OnCmdUpdated(r) ==
  /\ r \in msgs
  /\ msgs' = msgs \ {r}
  /\ wake' = wake + 1
  /\ UNCHANGED <<table, service, lanes, main, mon, asked, devst, queued, dirty,
                 faults, crashes>>

\* OnAttached posts when the observer is registered.
Attach(d) ==
  /\ devst[d] = "new"
  /\ \A e \in Device : devst[e] = "attached" => IdOf[e] # IdOf[d]
  /\ devst' = [devst EXCEPT ![d] = "attached"]
  /\ wake' = IF mainPc = "up" THEN wake + 1 ELSE wake
  /\ UNCHANGED <<table, service, lanes, main, mon, asked, msgs, queued, dirty, faults,
                 crashes>>

Detach(d) ==
  /\ devst[d] = "attached"
  /\ devst' = [devst EXCEPT ![d] = "gone"]
  /\ UNCHANGED <<table, service, lanes, main, wake, mon, asked, msgs, queued, dirty,
                 faults, crashes>>

\* The process dies and is started again: its variables are lost, the table
\* and the devices are not.
Crash ==
  /\ crashes < MaxCrash
  /\ crashes' = crashes + 1
  /\ pending' = Idle(<<>>) /\ active' = Idle(NoCmd)
  /\ lanePc' = Idle("idle") /\ laneCmd' = Idle(NoCmd)
  /\ mainPc' = "load" /\ quit' = FALSE /\ wake' = 1
  /\ monPc' = "absent" /\ picked' = {} /\ monRow' = NoRow /\ monDev' = NoDev /\ monErr' = "none"
  /\ msgs' = {} /\ dirty' = FALSE
  /\ devst' = [d \in Device |-> IF devst[d] = "attached" THEN "gone" ELSE devst[d]]
  /\ UNCHANGED <<table, outcome, asked, queued, faults>>

------------------------------------------------------------------------------
(* Load and Unload.                                                        *)

\* "truncate op_requests".
LoadTruncate ==
  /\ mainPc = "load" /\ mainPc' = "create"
  /\ \/ rows' = {} /\ UNCHANGED <<proc, done, result, dirty, faults>>
     \/ SqlFails(rows)
  /\ UNCHANGED <<service, lanes, quit, wake, mon, env, queued, crashes>>

LoadCreate ==
  /\ mainPc = "create"
  /\ \/ mainPc' = "register" /\ monPc' = "wait"
     \/ mainPc' = "down" /\ UNCHANGED monPc   \* pthread_create fails
  /\ UNCHANGED <<table, service, lanes, quit, wake, picked, monRow, monDev, monErr, env,
                 queued, dirty, faults, crashes>>

\* RegisterObserver calls OnAttached for every device that is there.
LoadRegister ==
  /\ mainPc = "register" /\ mainPc' = "up"
  /\ wake' = wake + Cardinality({d \in Device : devst[d] = "attached"})
  /\ UNCHANGED <<table, service, lanes, quit, mon, env, queued, dirty, faults, crashes>>

Unload ==
  /\ mainPc = "up"
  /\ mainPc' = "joining"
  /\ quit' = TRUE
  /\ wake' = wake + 1
  /\ UNCHANGED <<table, service, lanes, mon, env, queued, dirty, faults, crashes>>

UnloadJoin ==
  /\ mainPc = "joining" /\ monPc = "exited"
  /\ mainPc' = "down"
  /\ UNCHANGED <<table, service, lanes, quit, wake, mon, env, queued, dirty, faults, crashes>>

------------------------------------------------------------------------------
(* The monitor thread.                                                     *)

MonWait ==
  /\ monPc = "wait" /\ wake > 0
  /\ wake' = wake - 1
  /\ monPc' = IF quit THEN "exited" ELSE "probe"
  /\ UNCHANGED <<table, service, lanes, main, picked, monRow, monDev, monErr, env, queued,
                 dirty, faults, crashes>>

\* Mutant: the query forgets is_processing.
MonProbeUndone ==
  /\ monPc = "probe" /\ monPc' = "row"
  /\ picked' = {r \in rows : ~done[r]}
  /\ UNCHANGED <<table, service, lanes, main, wake, monRow, monDev, monErr, env, queued,
                 dirty, faults, crashes>>

\* ProbeCmds: "where (is_done=0 and is_processing=0)".
MonProbe ==
  /\ monPc = "probe"
  /\ \/ /\ monPc' = "row"
        /\ picked' = {r \in rows : ~done[r] /\ proc[r] = 0}
        /\ UNCHANGED <<table, dirty, faults>>
     \/ /\ monPc' = "wait"
        /\ SqlFails({})
        /\ UNCHANGED picked
  /\ UNCHANGED <<service, lanes, main, wake, monRow, monDev, monErr, env, queued, crashes>>

\* ProcessCmd of the next row: GetDevice.
MonRow(r) ==
  LET found == {d \in Device : devst[d] = "attached" /\ IdOf[d] = RowId[r]}
  IN /\ monPc = "row" /\ r \in picked
     /\ picked' = picked \ {r}
     /\ monRow' = r
     /\ \/ \E d \in found : monDev' = d /\ monErr' = "none" /\ monPc' = "queue"
        \/ found = {} /\ monDev' = NoDev /\ monErr' = "notfound" /\ monPc' = "update"
     /\ UNCHANGED <<table, service, lanes, main, wake, env, queued, dirty, faults, crashes>>

MonDone ==
  /\ monPc = "row" /\ picked = {}
  /\ monPc' = "wait" /\ monRow' = NoRow /\ monDev' = NoDev
  /\ UNCHANGED <<table, service, lanes, main, wake, picked, monErr, env, queued, dirty,
                 faults, crashes>>

\* QueueCmd accepts the command, or ConvertArgs or QueueCmd refuses it.
MonQueue ==
  LET k == <<monRow, queued[monRow] + 1>>
  IN /\ monPc = "queue" /\ monPc' = "update"
     /\ k \in Command
     /\ \/ Service!Submit(monDev, k) /\ monErr' = "none"
        \/ Service!Refuse(k) /\ monErr' = "refused"
     /\ queued' = [queued EXCEPT ![monRow] = @ + 1]
     /\ UNCHANGED <<table, lanes, main, wake, picked, monRow, monDev, env, dirty, faults,
                    crashes>>

\* Mutants: is_processing is set to 1 whatever it was; the peers are told
\* before the statement.
MonUpdateAlways ==
  /\ monPc = "update" /\ monPc' = "notify"
  /\ \/ monErr = "none" /\ Set(monRow, 1, done[monRow], result[monRow])
     \/ monErr # "none" /\ Set(monRow, 1, TRUE, monErr)
     \/ SqlFails({monRow})
  /\ UNCHANGED <<service, lanes, main, wake, picked, monRow, monDev, monErr, env, queued,
                 crashes>>

MonUpdateLast ==
  /\ monPc = "update" /\ monPc' = "row"
  /\ \/ monErr = "none" /\ Set(monRow, 1, done[monRow], result[monRow])
     \/ monErr # "none" /\ Set(monRow, 1, TRUE, monErr)
     \/ SqlFails({monRow})
  /\ UNCHANGED <<service, lanes, main, wake, picked, monRow, monDev, monErr, env, queued,
                 crashes>>

\* The row was accepted, and is marked unless a worker was faster; or refused.
MonUpdate ==
  /\ monPc = "update" /\ monPc' = "notify"
  /\ \/ monErr = "none" /\ proc[monRow] = 0 /\ Set(monRow, 1, done[monRow], result[monRow])
     \/ monErr = "none" /\ proc[monRow] # 0 /\ UNCHANGED <<table, dirty, faults>>
     \/ monErr # "none" /\ Set(monRow, 1, TRUE, monErr)
     \/ SqlFails({monRow})
  /\ UNCHANGED <<service, lanes, main, wake, picked, monRow, monDev, monErr, env, queued,
                 crashes>>

MonNotify ==
  /\ monPc = "notify" /\ monPc' = "row"
  /\ dirty' = FALSE
  /\ UNCHANGED <<table, service, lanes, main, wake, picked, monRow, monDev, monErr, env,
                 queued, faults, crashes>>

------------------------------------------------------------------------------
(* The executor's callbacks, in the worker of a lane.                      *)

LaneAt(d, q, from, to) ==
  lanePc[d][q] = from /\ lanePc' = [lanePc EXCEPT ![d][q] = to]

\* The command is started, or cancelled.
LaneStart(d, q) ==
  /\ \/ LaneAt(d, q, "idle", "begin") /\ Service!Begin(d, q)
     \/ LaneAt(d, q, "idle", "report") /\ Service!Cancel(d, q)
  /\ laneCmd' = [laneCmd EXCEPT ![d][q] = Head(pending[d][q])]
  /\ UNCHANGED <<table, main, wake, mon, env, queued, dirty, faults, crashes>>

\* OnExecuting: "set is_processing=2".
LaneBegin(d, q) ==
  LET r == laneCmd[d][q][1]
  IN /\ LaneAt(d, q, "begin", "beginNotify")
     /\ Set(r, 2, done[r], result[r]) \/ SqlFails({r})
     /\ UNCHANGED <<service, laneCmd, main, wake, mon, env, queued, crashes>>

LaneBeginNotify(d, q) ==
  /\ LaneAt(d, q, "beginNotify", "run")
  /\ dirty' = FALSE
  /\ UNCHANGED <<table, service, laneCmd, main, wake, mon, env, queued, faults, crashes>>

LaneFinish(d, q) ==
  /\ LaneAt(d, q, "run", "report")
  /\ Service!Finish(d, q)
  /\ UNCHANGED <<table, laneCmd, main, wake, mon, env, queued, dirty, faults, crashes>>

\* A mutant: a row is marked done without the result.
UpdateDoneOnly(d, q) ==
  LET r == laneCmd[d][q][1]
  IN /\ LaneAt(d, q, "report", "reportNotify")
     /\ Set(r, proc[r], TRUE, result[r]) \/ SqlFails({r})
     /\ UNCHANGED <<service, laneCmd, main, wake, mon, env, queued, crashes>>

\* UpdateResult, for OnExecuted, OnFailed and OnCancelled.
UpdateResult(d, q) ==
  LET k == laneCmd[d][q] r == k[1]
  IN /\ LaneAt(d, q, "report", "reportNotify")
     /\ Set(r, proc[r], TRUE, outcome[k]) \/ SqlFails({r})
     /\ UNCHANGED <<service, laneCmd, main, wake, mon, env, queued, crashes>>

LaneReportNotify(d, q) ==
  /\ LaneAt(d, q, "reportNotify", "idle")
  /\ dirty' = FALSE
  /\ laneCmd' = [laneCmd EXCEPT ![d][q] = NoCmd]
  /\ UNCHANGED <<table, service, main, wake, mon, env, queued, faults, crashes>>

------------------------------------------------------------------------------

MonStep ==
  \/ MonWait \/ MonProbe \/ MonDone \/ MonQueue \/ MonUpdate \/ MonNotify
  \/ \E r \in Row : MonRow(r)

LaneStep(d, q) ==
  \/ LaneStart(d, q) \/ LaneBegin(d, q) \/ LaneBeginNotify(d, q) \/ LaneFinish(d, q)
  \/ UpdateResult(d, q) \/ LaneReportNotify(d, q)

LoadStep == LoadTruncate \/ LoadCreate \/ LoadRegister

Next ==
  \/ MonStep \/ LoadStep \/ Unload \/ UnloadJoin \/ Crash
  \/ \E d \in Device, q \in Queue : LaneStep(d, q)
  \/ \E r \in Row : RequestRow(r) \/ OnCmdUpdated(r)
  \/ \E d \in Device : Attach(d) \/ Detach(d)

Spec == Init /\ [][Next]_vars

\* The threads run and messages under way arrive; no one has to crash,
\* unload, ask or plug in a device.
Fairness ==
  /\ WF_vars(MonStep) /\ WF_vars(LoadStep) /\ WF_vars(UnloadJoin)
  /\ \A d \in Device, q \in Queue : WF_vars(LaneStep(d, q))
  /\ WF_vars(\E r \in Row : OnCmdUpdated(r))

FairSpec == Spec /\ Fairness

------------------------------------------------------------------------------
(* Properties.  Where a statement has failed for a row the table says less *)
(* than the program knows: nothing is claimed of what that row says.       *)

\* A request is handed to the executor once, over crashes too: by the time
\* the query can see it again it is marked, or has been truncated.  Where a
\* statement failed, which ProcessCmd only logs, the row stays visible, and
\* each failure costs at most one repetition.
QueuedOnce == \A r \in Row : queued[r] <= IF r \in failed THEN 1 + fails ELSE 1

\* is_processing does not go back from 2 to 1, although the worker may set 2
\* before the monitor sets 1 (the comment at CmdTableMod.cpp:247).
NeverBack == [][\A r \in Row \ failed' : proc[r] = 2 => proc'[r] = 2]_vars

\* A row that is done has the one result the executor reported, or the error
\* with which it was refused, and keeps it.
ResultKept ==
  [][\A r \in Row \ failed' : r \in rows /\ done[r] =>
        r \notin rows' \/ (done'[r] /\ result'[r] = result[r])]_vars

\* A row only advances: from waiting over 1 and 2 to done, once.
RowsAdvance == NeverBack /\ ResultKept

ResultTrue ==
  \A r \in rows \ failed : done[r] =>
     \/ result[r] = "notfound" /\ queued[r] = 0
     \/ result[r] = outcome[<<r, 1>>]

\* Where command k is.
HeldBy(k, d, q) == laneCmd[d][q] = k \/ k \in Range(pending[d][q])
Held(k) == \E d \in Device, q \in Queue : HeldBy(k, d, q)

\* A row that says it is being processed is: nothing left over from an
\* earlier process stays in that state once Load has truncated the table.
MarkedIsHeld ==
  mainPc # "load" =>
    \A r \in rows \ failed : proc[r] # 0 /\ ~done[r] => Held(<<r, 1>>)

\* What a row says of its request agrees with the executor, over crashes too.
RowTrue == ResultTrue /\ MarkedIsHeld

\* After a change of the table somebody still has to notify the peers.
ChangeNotified ==
  dirty => \/ monPc = "notify"
           \/ \E d \in Device, q \in Queue : lanePc[d][q] \in {"beginNotify", "reportNotify"}

\* A request of which the server is told is answered, unless statements fail,
\* the server is unloaded or the process crashes.
RequestDone ==
  \A r \in Row : r \in msgs ~> (done[r] \/ fails > 0 \/ mainPc # "up")
==============================================================================
