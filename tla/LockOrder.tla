------------------------------ MODULE LockOrder ------------------------------
(***************************************************************************)
(* Which locks the threads of libdevmgr's host side take while they hold   *)
(* others.  The other modules have the locks of one component each; here   *)
(* are all threads and the locks they share, and nothing else: what the    *)
(* code does between two calls of a pthread function is left out.          *)
(*                                                                         *)
(* A thread is what it still has to do, a sequence of steps: to lock or    *)
(* unlock a mutex, to call a function, to tell threads to quit, to join    *)
(* them.  A function of the code that always takes the same path is an     *)
(* operator, its path, and stands in the paths of its callers.  One that   *)
(* branches or loops is an action, which puts one of its paths in the      *)
(* place of the call; its loop is a call of itself at the path's end.      *)
(*                                                                         *)
(* The mutexes are not recursive.  Left out are those whose holder locks,  *)
(* joins and calls nothing: PObject's _RefLock, _SocketLock, TransCenter's *)
(* _TransLock, and MtpDeviceMon's _DeviceLock.  Nobody waits for anything  *)
(* while he holds one of these.  Semaphores are left out too: no lock is   *)
(* held at a sem_wait.                                                     *)
(***************************************************************************)
EXTENDS Sequences

CONSTANTS
  Threads,
  Crews,     \* the functions that they may have been created with
  Devices,
  Queues     \* ADB_DEV_QUEUE_CNT

\* The tables that observe the device center and are observed by sessions.
Tabs == {"dev", "app", "cmd"}

Routines ==
  {<<"MonThread">>, <<"CmdMonThread">>, <<"MuxThread">>, <<"AcceptThread">>,
   <<"CleanupThread">>, <<"Main">>} \cup {<<"WorkThread", q>> : q \in Queues}

ASSUME CrewsAssumption == Crews \subseteq [Threads -> Routines]

MuxMutex == <<"mux">>              \* TransSockInst::_MuxLock
ClientMutex == <<"client">>        \* CommonServer::_ClientLock
CenterMutex == <<"center">>        \* DeviceCenter::_ObserverLock
DeviceMutex == <<"device">>        \* DeviceCenter::_DeviceLock
DbMutex == <<"db">>                \* SqlWrapper::_hDbLock
ObserverMutex(b) == <<"table", b>> \* DbTableBase::_ObserverLock
CmdMutex(d, q) == <<"cmd", d, q>>  \* SmartDeviceAdb::_CmdLock
ExecMutex(q) == <<"exec", q>>      \* SmartDeviceAdb::_ExecLock

Mutexes ==
  {MuxMutex, ClientMutex, CenterMutex, DeviceMutex, DbMutex}
    \cup {ObserverMutex(b) : b \in Tabs} \cup {ExecMutex(q) : q \in Queues}
    \cup {CmdMutex(d, q) : d \in Devices, q \in Queues}

VARIABLES
  routine,  \* the function each thread was created with
  plan,     \* what each thread has still to do; nothing when it has ended
  held,     \* the mutexes each thread has locked
  told      \* the threads whose _bQuit, _bMuxQuit or _bExecQuit is set

lockVars == <<routine, plan, held, told>>

LockInit ==
  /\ routine \in Crews
  /\ plan = [t \in Threads |-> <<<<"call", routine[t]>>>>]
  /\ held = [t \in Threads |-> {}]
  /\ told = {}

------------------------------------------------------------------------------
(* Steps.                                                                  *)

Take(m) == <<"take", m>>
Give(m) == <<"give", m>>
Call(f) == <<"call", f>>

\* A critical section.
Section(m, body) == <<Take(m)>> \o body \o <<Give(m)>>

\* How threads are ended: their flag is set and they are woken, then joined.
Created(rs) == {t \in Threads : routine[t] \in rs}
Stop(rs) == <<<<"quit", Created(rs)>>, <<"join", Created(rs)>>>>

\* Thread t, about to call f, takes one of the paths.
Goes(t, f, paths) ==
  /\ plan[t] # <<>> /\ Head(plan[t]) = Call(f)
  /\ \E p \in paths : plan' = [plan EXCEPT ![t] = p \o Tail(@)]
  /\ UNCHANGED <<routine, held, told>>

\* The function f of thread t loops until the thread is told to quit.
Cycles(t, f, paths) ==
  Goes(t, f, {p \o <<Call(f)>> : p \in paths} \cup (IF t \in told THEN {<<>>} ELSE {}))

\* pthread_mutex_lock waits for every holder, the caller included.
LockMutex(t) ==
  /\ plan[t] # <<>>
  /\ \E m \in Mutexes :
       /\ Head(plan[t]) = Take(m)
       /\ \A u \in Threads : m \notin held[u]
       /\ held' = [held EXCEPT ![t] = @ \cup {m}]
  /\ plan' = [plan EXCEPT ![t] = Tail(@)]
  /\ UNCHANGED <<routine, told>>

UnlockMutex(t) ==
  /\ plan[t] # <<>>
  /\ \E m \in Mutexes : /\ Head(plan[t]) = Give(m)
                        /\ held' = [held EXCEPT ![t] = @ \ {m}]
  /\ plan' = [plan EXCEPT ![t] = Tail(@)]
  /\ UNCHANGED <<routine, told>>

SetQuit(t) ==
  /\ plan[t] # <<>> /\ Head(plan[t])[1] = "quit"
  /\ told' = told \cup Head(plan[t])[2]
  /\ plan' = [plan EXCEPT ![t] = Tail(@)]
  /\ UNCHANGED <<routine, held>>

JoinThreads(t) ==
  /\ plan[t] # <<>> /\ Head(plan[t])[1] = "join"
  /\ \A u \in Head(plan[t])[2] : plan[u] = <<>>
  /\ plan' = [plan EXCEPT ![t] = Tail(@)]
  /\ UNCHANGED <<routine, held, told>>

------------------------------------------------------------------------------
(* The database and the sessions that are told of its changes.             *)

ExecSql == Section(DbMutex, <<>>)
BeginGetTable == Section(DbMutex, <<>>)

\* Sends to every session, with the lock held.
Notify(b) == Section(ObserverMutex(b), <<>>)

\* What a table's callbacks do when they do anything: a statement, a message.
Record(b) == ExecSql \o Notify(b)

------------------------------------------------------------------------------
(* The executor.                                                           *)

Request(q) == Section(ExecMutex(q), <<>>)

\* A command that cannot be allocated is not queued; the device is requested
\* if the queue was empty and nobody runs it.
QueueCmd(t) ==
  \E d \in Devices :
    Goes(t, <<"QueueCmd", d>>,
         {<<>>} \cup {Section(CmdMutex(d, q), <<>>) : q \in Queues}
                \cup {Section(CmdMutex(d, q), Request(q)) : q \in Queues})

\* What a table does when a command of its own has been cancelled.
Cancelled == {<<>>, Record("cmd")}

\* The last Release deletes the device: FlushCmds takes the lock of each queue
\* and gives it up around OnCancelled.
Release(t) ==
  \E d \in Devices, q \in Queues :
    Goes(t, <<"Release", d>>,
         {<<>>} \cup {Section(CmdMutex(d, q), <<>>) \o c \o <<Call(<<"Release", d>>)>> :
                        c \in Cancelled})

\* ExecuteOne: the callbacks of the table that queued the command.  The
\* application table deletes a listing and inserts another.
ExecuteOne ==
  Cancelled \cup
    {Record("cmd") \o Record("cmd"), Record("dev"), ExecSql \o <<Call(<<"InsertApps">>)>>}

InsertApps(t) ==
  Goes(t, <<"InsertApps">>, {ExecSql \o <<Call(<<"InsertApps">>)>>, Notify("app")})

\* Execute takes commands until there are none; _CmdLock is given up while one
\* is executed.
Execute(t) ==
  \E d \in Devices, q \in Queues :
    \/ Goes(t, <<"Execute", d, q>>,
            {Section(CmdMutex(d, q), <<>>) \o <<Call(<<"RunCmds", d, q>>)>>})
    \/ Goes(t, <<"RunCmds", d, q>>,
            {<<>>} \cup {c \o Section(CmdMutex(d, q), <<>>) \o <<Call(<<"RunCmds", d, q>>)>> :
                           c \in ExecuteOne})

\* WorkThread takes devices from the list until there are none; _ExecLock is
\* given up while one is executed.
WorkThread(t) ==
  \E q \in Queues :
    \/ Cycles(t, <<"WorkThread", q>>,
              {Section(ExecMutex(q), <<>>) \o <<Call(<<"Drain", q>>)>>})
    \/ Goes(t, <<"Drain", q>>,
            {<<>>} \cup {<<Call(<<"Execute", d, q>>), Call(<<"Release", d>>)>>
                           \o Section(ExecMutex(q), <<>>) \o <<Call(<<"Drain", q>>)>> : d \in Devices})

------------------------------------------------------------------------------
(* The device center, its observers, and the monitor that calls them.      *)

GetDevice == Section(DeviceMutex, <<>>)

\* OnAttached that looks its device up, and queues a command for it.
OnAttachedById(d) ==
  Record("dev") \o GetDevice \o <<Call(<<"QueueCmd", d>>), Call(<<"Release", d>>)>>

\* The callbacks of the device table, the only observer whose callbacks lock; it
\* queues three commands when the device has booted.
OnAttached(d) == Record("dev")
OnDetached(d) == Record("dev")
OnStateChanged(d) ==
  {Record("dev"),
   Record("dev") \o <<Call(<<"QueueCmd", d>>), Call(<<"QueueCmd", d>>), Call(<<"QueueCmd", d>>)>>}

\* The device table may be registered or not.  A device that is there already,
\* or not there any more, is not reported.
OnDeviceAttached(d) ==
  {Section(DeviceMutex, <<>>)}
    \cup {Section(DeviceMutex, <<>>) \o Section(CenterMutex, c) : c \in {<<>>, OnAttached(d)}}
OnDeviceDetached(d) ==
  {Section(DeviceMutex, <<>>)}
    \cup {Section(DeviceMutex, <<>>) \o Section(CenterMutex, c) : c \in {<<>>, OnDetached(d)}}
OnDeviceStateChanged(d) ==
  {Section(CenterMutex, c) : c \in {<<>>} \cup OnStateChanged(d)}

\* An observer that is there already is not told of the devices; one that is
\* not found is not released.
RegisterObserver(b) ==
  {Section(CenterMutex, <<>>),
   Section(CenterMutex, <<>>)
     \o Section(DeviceMutex, IF b = "dev" THEN <<Call(<<"ReportDevices">>)>> ELSE <<>>)}
UnregisterObserver == {Section(CenterMutex, <<>>)}

\* RegisterObserver's loop over the devices.
ReportDevices(t) ==
  \E d \in Devices :
    Goes(t, <<"ReportDevices">>, {<<>>, OnAttached(d) \o <<Call(<<"ReportDevices">>)>>})

MonThread(t) ==
  \E d \in Devices :
    Cycles(t, <<"MonThread">>,
           OnDeviceAttached(d) \cup {p \o <<Call(<<"Release", d>>)>> : p \in OnDeviceDetached(d)}
             \cup OnDeviceStateChanged(d))

------------------------------------------------------------------------------
(* The table of requests.                                                  *)

\* A device that is not found, arguments that are not valid, a request queued.
ProcessCmd(d) ==
  {GetDevice \o Record("cmd"),
   GetDevice \o Record("cmd") \o <<Call(<<"Release", d>>)>>,
   GetDevice \o <<Call(<<"QueueCmd", d>>)>> \o Record("cmd") \o <<Call(<<"Release", d>>)>>}

\* ProbeCmds: the rows are fetched, and processed, without the lock.
CmdMonThread(t) ==
  \/ Cycles(t, <<"CmdMonThread">>, {BeginGetTable \o <<Call(<<"FetchRows">>)>>})
  \/ \E d \in Devices :
       Goes(t, <<"FetchRows">>,
            {<<>>} \cup {p \o <<Call(<<"FetchRows">>)>> : p \in ProcessCmd(d)})

------------------------------------------------------------------------------
(* The multiplexer, its sessions, and the server.                          *)

\* What a message asks for: nothing that takes a lock (OnCmdUpdated, or the
\* end of the session), or a command for a device, if there is one.
ProcessDbMsg(d) ==
  {GetDevice, GetDevice \o <<Call(<<"QueueCmd", d>>), Call(<<"Release", d>>)>>}

\* Every wait is preceded by a pass over the list under the lock; what select
\* returned is dispatched under the lock.
MuxThread(t) ==
  \/ Cycles(t, <<"MuxThread">>,
            {Section(MuxMutex, <<>>),
             Section(MuxMutex, <<>>) \o Section(MuxMutex, <<Call(<<"Dispatch">>)>>)})
  \/ \E d \in Devices :
       Goes(t, <<"Dispatch">>,
            {<<>>} \cup {p \o <<Call(<<"Dispatch">>)>> : p \in ProcessDbMsg(d)})

\* MsgServerHandler registers with, and leaves, the tables one by one.
HandlerInit ==
  Section(ObserverMutex("dev"), <<>>) \o Section(ObserverMutex("app"), <<>>)
    \o Section(ObserverMutex("cmd"), <<>>)
HandlerFini == HandlerInit

\* Start registers with the multiplexer; FreeClientRec stops, so unregisters,
\* and leaves the tables.
Start == Section(MuxMutex, <<>>)
FreeClientRec == Section(MuxMutex, <<>>) \o HandlerFini

\* A connection is accepted, or dropped for want of memory.
AcceptThread(t) ==
  Cycles(t, <<"AcceptThread">>,
         {Section(ClientMutex, <<>>) \o HandlerInit \o Start, FreeClientRec})

\* EndList is collected under the lock, and freed without it.
CleanupThread(t) ==
  \/ Cycles(t, <<"CleanupThread">>,
            {Section(ClientMutex, <<>>) \o <<Call(<<"FreeEnded">>)>>})
  \/ Goes(t, <<"FreeEnded">>, {<<>>, FreeClientRec \o <<Call(<<"FreeEnded">>)>>})

------------------------------------------------------------------------------
(* The main program loads and unloads the parts.  It is not in the         *)
(* repository, so that any order of these calls is one.                    *)

LoadTable(b) == {ExecSql \o p : p \in RegisterObserver(b)}

\* Only the table of requests has a thread of its own.
UnloadTable(b) ==
  {p \o (IF b = "cmd" THEN Stop({<<"CmdMonThread">>}) ELSE <<>>) : p \in UnregisterObserver}

\* AdbDeviceMon::Unload, with the devices that are left.
UnloadMonitor == Stop({<<"MonThread">>}) \o <<Call(<<"DropDevices">>)>>

DropDevices(t) ==
  \E d \in Devices :
    Goes(t, <<"DropDevices">>,
         {<<>>} \cup {p \o <<Call(<<"Release", d>>), Call(<<"DropDevices">>)>> :
                        p \in OnDeviceDetached(d)})

\* DeviceCenter::Unload takes no lock: it drops the devices that are left.
UnloadCenter(t) ==
  \E d \in Devices :
    Goes(t, <<"UnloadCenter">>,
         {<<>>, <<Call(<<"Release", d>>), Call(<<"UnloadCenter">>)>>})

\* CommonServer::Unload gives _ClientLock up while it frees a connection.
UnloadServer ==
  Stop({<<"AcceptThread">>}) \o Stop({<<"CleanupThread">>})
    \o Section(ClientMutex, <<>>) \o <<Call(<<"DrainClients">>)>>

\* DrainClients that does not give the lock up after the last connection.
DrainClientsKeeping(t) ==
  Goes(t, <<"DrainClients">>, {<<>>, FreeClientRec \o <<Take(ClientMutex)>>})

DrainClients(t) ==
  Goes(t, <<"DrainClients">>,
       {<<>>, FreeClientRec \o Section(ClientMutex, <<>>) \o <<Call(<<"DrainClients">>)>>})

\* TransSockInst::Cleanup and SmartDeviceAdb::Cleanup.
CleanupMux == Stop({<<"MuxThread">>})
CleanupExec == Stop({<<"WorkThread", q>> : q \in Queues})

Main(t) ==
  Goes(t, <<"Main">>,
       {p \o <<Call(<<"Main">>)>> :
          p \in (UNION {LoadTable(b) \cup UnloadTable(b) : b \in Tabs})
                  \cup {<<Call(<<"UnloadCenter">>)>>, UnloadMonitor, UnloadServer,
                        CleanupMux, CleanupExec}})

LockNext ==
  \E t \in Threads :
    \/ LockMutex(t) \/ UnlockMutex(t) \/ SetQuit(t) \/ JoinThreads(t)
    \/ QueueCmd(t) \/ Release(t) \/ InsertApps(t) \/ Execute(t) \/ WorkThread(t)
    \/ ReportDevices(t) \/ MonThread(t) \/ CmdMonThread(t) \/ MuxThread(t)
    \/ AcceptThread(t) \/ CleanupThread(t)
    \/ DropDevices(t) \/ UnloadCenter(t) \/ DrainClients(t) \/ Main(t)

LockSpec == LockInit /\ [][LockNext]_lockVars

------------------------------------------------------------------------------
(* Properties.                                                             *)

\* Thread t cannot go on before thread u does: u has the mutex that t wants, or
\* t joins u.
WaitsFor(t, u) ==
  /\ plan[t] # <<>>
  /\ \/ Head(plan[t])[1] = "take" /\ Head(plan[t])[2] \in held[u]
     \/ Head(plan[t])[1] = "join" /\ u \in Head(plan[t])[2] /\ plan[u] # <<>>

\* No threads, and no thread alone, wait for each other: of any set of threads
\* one waits for none of the set.  This is what the comment of CleanupThread
\* (CommonServer.cpp:290) is afraid of, and what the order rests on in which
\* every function takes its locks, whoever calls it.
NoCircularWait ==
  \A S \in SUBSET Threads : S # {} => \E t \in S : \A u \in S : ~WaitsFor(t, u)

\* Nothing is held by a thread that has ended or is at the beginning of its
\* loop: every path of every function, the early returns too, gives up what it
\* took.
LocksReleased ==
  \A t \in Threads : plan[t] \in {<<>>, <<Call(routine[t])>>} => held[t] = {}
==============================================================================
