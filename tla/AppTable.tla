------------------------------ MODULE AppTable -------------------------------
(***************************************************************************)
(* What devices tell about themselves, on its way from a command to the    *)
(* clients: the tables tablets and tablet_apps (db/DevTableMod.cpp,        *)
(* db/AppTableMod.cpp), the observers that are told of a change            *)
(* (db/DbTableBase.cpp), and the sessions of the message server that are   *)
(* these observers (net/MsgServerHandler.cpp).                             *)
(*                                                                         *)
(* The commands come from AdbExec: those of tablets are executed by the    *)
(* one thread of queue 0, GET_APPLIST by the one thread of queue 1         *)
(* (GlobalDef.h:138-162), whatever the device.  Which of the devices that  *)
(* have commands waiting is next is up to the execution list there.  The   *)
(* monitor changes rows of tablets too.  Each table has a lock for its     *)
(* observers, which Notify holds while it sends.                           *)
(***************************************************************************)
EXTENDS Integers, Sequences, FiniteSets

CONSTANTS
  Client,    \* connections: one session after the other
  Device,    \* serial numbers
  App,       \* application names
  MaxQueue,  \* bound: commands waiting for one table and device
  MaxFail,   \* bound: statements that fail
  NoDev

ASSUME BoundsAssumption == MaxQueue \in Nat /\ MaxFail \in Nat

\* Observers register with, and leave, the tables in this order.
Tables == <<"dev", "app", "cmd">>

\* The threads that change a table and notify, and their tables; the third
\* table is CmdTable's.
TableOf == [queue0 |-> "dev", queue1 |-> "app", monitor |-> "dev"]
Thread == DOMAIN TableOf
Queue == {"queue0", "queue1"}

VARIABLES
  waiting,    \* commands in the FIFOs, by queue and device
  pc,         \* OnExecuted and OnStateChanged, in each thread
  dev,        \* the device it is called for
  listing,    \* what GET_APPLIST returned, and what is left to insert
  left,
  rows,       \* tablet_apps
  fails,      \* statements that failed so far
  good,       \* history: every statement of this call has succeeded
  clash,      \* history: an insert met a row of another listing
  observers,  \* _ObserverList of each table
  toSend,     \* observers the Notify in progress has still to call; it holds
              \* the lock while its thread is at "send"
  sess,       \* where each session is
  regs,       \* how many tables it has registered with
  untold      \* history: clients that were not told since a change

exec == <<waiting, pc, dev, listing, left>>
db == <<rows, fails, good, clash>>
obs == <<observers, toSend, sess, regs>>
vars == <<exec, db, obs, untold>>

Init ==
  /\ waiting = [t \in Queue |-> [d \in Device |-> 0]]
  /\ pc = [t \in Thread |-> "idle"] /\ dev = [t \in Thread |-> NoDev]
  /\ listing = {} /\ left = {}
  /\ rows = [d \in Device |-> {}]
  /\ fails = 0 /\ good = TRUE /\ clash = FALSE
  /\ observers = [t \in {"dev", "app", "cmd"} |-> {}] /\ toSend = [t \in Thread |-> {}]
  /\ sess = [c \in Client |-> "none"] /\ regs = [c \in Client |-> 0]
  /\ untold = {}

At(t, from, to) == pc[t] = from /\ pc' = [pc EXCEPT ![t] = to]

\* ExecSql: a statement that fails has no effect and is only logged.
SqlFails == fails < MaxFail /\ fails' = fails + 1

\* Thread t has changed the rows of d: the clients that are registered then do
\* not know it.
Changed(t, d) == untold' = untold \cup {<<c, t, d>> : c \in observers[TableOf[t]]}

------------------------------------------------------------------------------
(* ProcessDbMsg: UpdateAppList, UpdateSysInfo and the like.                *)

\* When the rows of the last listing are deleted. The comment at
\* AppTableMod.cpp:113 says why not in UpdateAppList, which is the mutant.
DeletesWhenQueued(at) == at = "queued"

DeletesRows(at) == at = "executed"

\* QueueCmd, so often; more than MaxQueue waiting commands are not told apart.
QueueCmd(t, d, n) ==
  waiting' = [waiting EXCEPT ![t][d] = IF @ + n < MaxQueue THEN @ + n ELSE MaxQueue]

\* UpdateSysInfo, UpdateBattInfo, UpdateDiskInfo and FindMe of DevTableMod, if
\* GetDevice finds the device; otherwise they change nothing.
UpdateInfo(d) == QueueCmd("queue0", d, 1) /\ UNCHANGED rows

UpdateAppList(d) ==
  /\ QueueCmd("queue1", d, 1)
  /\ rows' = IF DeletesRows("queued") THEN [rows EXCEPT ![d] = {}] ELSE rows

\* ProcessPDU and ProcessDbMsg; C_DBMSG_CMDTAB_UPDATED is OnCmdUpdated of
\* CmdTable.
ProcessDbMsg(c, d) ==
  /\ sess[c] = "up"
  /\ UpdateInfo(d) \/ UpdateAppList(d)
  /\ UNCHANGED <<pc, dev, listing, left, fails, good, clash, obs, untold>>

------------------------------------------------------------------------------
(* Execute, ExecuteOne and OnExecuted.                                     *)

\* The FIFO's next command is executed, or cancelled or failed (OnCancelled
\* and OnFailed of both tables do nothing).
Take(t, d) ==
  /\ pc[t] = "idle" /\ waiting[t][d] > 0
  /\ waiting' = [waiting EXCEPT ![t][d] = @ - 1]
  /\ \/ /\ pc' = [pc EXCEPT ![t] = IF t = "queue1" THEN "delete" ELSE "update"]
        /\ dev' = [dev EXCEPT ![t] = d]
        /\ IF t = "queue1" THEN listing' \in SUBSET App ELSE UNCHANGED listing
        /\ good' = IF t = "queue1" THEN TRUE ELSE good
     \/ UNCHANGED <<pc, dev, listing, good>>
  /\ UNCHANGED <<left, rows, fails, clash, obs, untold>>

\* The monitor calls OnAttached, OnDetached or OnStateChanged of DevTableMod.
MonitorCalls(d) ==
  /\ At("monitor", "idle", "update")
  /\ dev' = [dev EXCEPT !["monitor"] = d]
  /\ UNCHANGED <<waiting, listing, left, db, obs, untold>>

\* DevTableMod: one update of tablets, whose columns are not told apart.
DevUpdate(t) ==
  /\ At(t, "update", "notify")
  /\ \/ Changed(t, dev[t]) /\ UNCHANGED fails
     \/ SqlFails /\ UNCHANGED untold
  /\ UNCHANGED <<waiting, dev, listing, left, rows, good, clash, obs>>

AppDelete ==
  /\ At("queue1", "delete", "insert")
  /\ left' = listing
  /\ LET d == dev["queue1"] IN
       \/ /\ rows' = IF DeletesRows("executed") THEN [rows EXCEPT ![d] = {}] ELSE rows
          /\ IF rows'[d] # rows[d] THEN Changed("queue1", d) ELSE UNCHANGED untold
          /\ UNCHANGED <<fails, good>>
       \/ SqlFails /\ good' = FALSE /\ UNCHANGED <<rows, untold>>
  /\ UNCHANGED <<waiting, dev, listing, clash, obs>>

\* The key is the device and the application: the insert of a row that is
\* there already fails.
AppInsert(a) ==
  /\ pc["queue1"] = "insert" /\ a \in left
  /\ left' = left \ {a}
  /\ LET d == dev["queue1"] IN
       \/ /\ a \notin rows[d]
          /\ rows' = [rows EXCEPT ![d] = @ \cup {a}]
          /\ Changed("queue1", d)
          /\ UNCHANGED <<fails, good, clash>>
       \/ /\ a \in rows[d]
          /\ clash' = (clash \/ good)
          /\ UNCHANGED <<rows, untold, fails, good>>
       \/ SqlFails /\ good' = FALSE /\ UNCHANGED <<rows, untold, clash>>
  /\ UNCHANGED <<waiting, pc, dev, listing, obs>>

\* Mutant: nobody is told of a listing without applications.
AppInsertedSome ==
  /\ At("queue1", "insert", IF listing = {} THEN "idle" ELSE "notify")
  /\ left = {}
  /\ UNCHANGED <<waiting, dev, listing, left, db, obs, untold>>

AppInserted ==
  /\ At("queue1", "insert", "notify")
  /\ left = {}
  /\ UNCHANGED <<waiting, dev, listing, left, db, obs, untold>>

------------------------------------------------------------------------------
(* DbTableBase.                                                            *)

\* Mutant: Notify copies the list and releases the lock before it sends.
NeverLocked(b) == FALSE

\* Whether a Notify holds _ObserverLock of table b.
ObserverLocked(b) == \E t \in Thread : TableOf[t] = b /\ pc[t] = "send"

Notify(t) ==
  /\ ~ObserverLocked(TableOf[t])
  /\ At(t, "notify", "send")
  /\ toSend' = [toSend EXCEPT ![t] = observers[TableOf[t]]]
  /\ UNCHANGED <<waiting, dev, listing, left, db, observers, sess, regs, untold>>

\* MsgServerHandler::Notify; the loss of a message ends the session, which is
\* a step of its own.
SendPDU(t, c) ==
  /\ pc[t] = "send" /\ c \in toSend[t]
  /\ toSend' = [toSend EXCEPT ![t] = @ \ {c}]
  /\ untold' = untold \ {<<c, t, dev[t]>>}
  /\ UNCHANGED <<exec, db, observers, sess, regs>>

\* OnStateChanged asks for all information on a device that has booted.
NotifyDone(t) ==
  /\ At(t, "send", "idle")
  /\ toSend[t] = {}
  /\ dev' = [dev EXCEPT ![t] = NoDev]
  /\ listing' = IF t = "queue1" THEN {} ELSE listing
  /\ \/ UNCHANGED waiting
     \/ t = "monitor" /\ QueueCmd("queue0", dev[t], 3)
  /\ UNCHANGED <<left, db, obs, untold>>

------------------------------------------------------------------------------
(* Sessions: CreateClientRec with MsgServerHandler::Init in the thread     *)
(* that accepts, FreeClientRec with Fini in the one that cleans up.        *)

\* Each of these threads has one session in hand.
Only(c, s) == \A e \in Client \ {c} : sess[e] # s

Accept(c) ==
  /\ sess[c] = "none" /\ Only(c, "init")
  /\ sess' = [sess EXCEPT ![c] = "init"]
  /\ UNCHANGED <<exec, db, observers, toSend, regs, untold>>

RegisterObserver(c) ==
  /\ sess[c] = "init" /\ regs[c] < Len(Tables)
  /\ LET b == Tables[regs[c] + 1] IN
       /\ ~ObserverLocked(b)
       /\ observers' = [observers EXCEPT ![b] = @ \cup {c}]
  /\ regs' = [regs EXCEPT ![c] = @ + 1]
  /\ UNCHANGED <<exec, db, toSend, sess, untold>>

Start(c) ==
  /\ sess[c] = "init" /\ regs[c] = Len(Tables)
  /\ sess' = [sess EXCEPT ![c] = "up"]
  /\ UNCHANGED <<exec, db, observers, toSend, regs, untold>>

EndSession(c) ==
  /\ sess[c] = "up"
  /\ sess' = [sess EXCEPT ![c] = "ended"]
  /\ UNCHANGED <<exec, db, observers, toSend, regs, untold>>

\* FreeClientRec: Stop.
Stop(c) ==
  /\ sess[c] = "ended" /\ Only(c, "fini")
  /\ sess' = [sess EXCEPT ![c] = "fini"]
  /\ UNCHANGED <<exec, db, observers, toSend, regs, untold>>

UnregisterObserver(c) ==
  /\ sess[c] = "fini" /\ regs[c] > 0
  /\ LET b == Tables[Len(Tables) + 1 - regs[c]] IN
       /\ ~ObserverLocked(b)
       /\ observers' = [observers EXCEPT ![b] = @ \ {c}]
       /\ untold' = {u \in untold : u[1] # c \/ TableOf[u[2]] # b}
  /\ regs' = [regs EXCEPT ![c] = @ - 1]
  /\ UNCHANGED <<exec, db, toSend, sess>>

\* The handler is deleted; a new connection may take its place.
Delete(c) ==
  /\ sess[c] = "fini" /\ regs[c] = 0
  /\ sess' = [sess EXCEPT ![c] = "none"]
  /\ UNCHANGED <<exec, db, observers, toSend, regs, untold>>

------------------------------------------------------------------------------

NotifyStep(t) == Notify(t) \/ (\E c \in Client : SendPDU(t, c)) \/ NotifyDone(t)

AppStep == AppDelete \/ (\E a \in App : AppInsert(a)) \/ AppInserted

InitStep(c) == RegisterObserver(c) \/ Start(c)

FiniStep(c) == Stop(c) \/ UnregisterObserver(c) \/ Delete(c)

Next ==
  \/ \E t \in Thread : NotifyStep(t) \/ DevUpdate(t)
  \/ \E d \in Device : MonitorCalls(d) \/ \E t \in Queue : Take(t, d)
  \/ AppStep
  \/ \E c \in Client :
       \/ Accept(c) \/ InitStep(c) \/ EndSession(c) \/ FiniStep(c)
       \/ \E d \in Device : ProcessDbMsg(c, d)

Spec == Init /\ [][Next]_vars

------------------------------------------------------------------------------
(* Properties.                                                             *)

TypeOK ==
  /\ waiting \in [Queue -> [Device -> 0 .. MaxQueue]]
  /\ pc \in [Thread -> {"idle", "update", "delete", "insert", "notify", "send"}]
  /\ dev \in [Thread -> Device \cup {NoDev}]
  /\ listing \subseteq App /\ left \subseteq App
  /\ rows \in [Device -> SUBSET App]
  /\ fails \in 0 .. MaxFail /\ good \in BOOLEAN /\ clash \in BOOLEAN
  /\ observers \in [{"dev", "app", "cmd"} -> SUBSET Client]
  /\ toSend \in [Thread -> SUBSET Client]
  /\ sess \in [Client -> {"none", "init", "up", "ended", "fini"}]
  /\ regs \in [Client -> 0 .. Len(Tables)]
  /\ untold \subseteq Client \X Thread \X Device

\* When the clients are told, tablet_apps shows one listing of the device,
\* whole, whatever other listings of it were asked for meanwhile and whatever
\* failed in earlier ones: no insert meets a row that is left of another
\* (AppTableMod.cpp:113-115).
ListingWhole ==
  /\ ~clash
  /\ pc["queue1"] \in {"notify", "send"} /\ good => rows[dev["queue1"]] = listing

\* A client that was registered when a row changed is told of the device
\* after the change, and so reads it: an untold change is always followed by
\* a Notify that has not come to this client yet.
ToldAfterChange ==
  \A u \in untold :
    LET t == u[2] IN
    /\ dev[t] = u[3] /\ pc[t] # "idle"
    /\ pc[t] = "send" => u[1] \in toSend[t]

\* Notify calls only sessions that exist, although clients come and go while
\* it sends: the cleanup thread deletes none that is still to be called.
HandlerLive ==
  \A t \in Thread : pc[t] = "send" =>
    \A c \in toSend[t] : sess[c] # "none" /\ c \in observers[TableOf[t]]
==============================================================================
