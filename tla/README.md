# Verification of android-use-libev

TLA+ models of the concurrent parts of this repository, the TLC configurations
that check them on small instances, and proofs that TLAPS checks for every
instance. Paths are relative to the repository's root,
line numbers those of the modelled commit. The repository's own README makes no
claims and there are no tests: what "correct" means here is taken from the
code's assertions, comments and interfaces.

## 1. The system

The repository holds two independent programs that share nothing but the JNI
build.

- **The hello library** (`jni/hello-jni.c`, `jni/src/*.c`) is loaded by the
  Android service `NetService`. It is a TCP server and a broadcast responder,
  each a libev event loop in a thread of its own, and two packet workers.
- **libdevmgr** (`jni/libdevmgr`) is a device manager. On the host side it
  notices tablets that are plugged in over USB, runs adb commands on them on
  behalf of rows of a database table, and tells peers over sockets that the
  table has changed. On the tablet (`jni/main-jni.cpp`) it is the client library
  that connects to that server and hands its messages to Java. The host's main
  program is not in the repository; the models start a part's clients only
  after its Load or Startup, and stop them before its Unload or Cleanup.

### Inventory

| Component | State it keeps | Operations | Works with | What is hard | What makes it correct | Module |
|---|---|---|---|---|---|---|
| Message server of the hello library | `quit`, loops, sockets, `client_list`, mutexes and condition variables of the packet lists | `server_init`, `server_exit`, libev callbacks | Java service, peers, libev | a flag set without a lock, callbacks pending after `ev_break`, exit before start-up is over, second life | nothing is used before it exists or after it is destroyed; no client is leaked; exit returns | `HelloServer` |
| Command executor (`SmartDeviceAdb`) | `_ExecList`, `_hExecEvent` per queue; `_CmdList`, `_bRunning` per device and queue | Startup, Cleanup, QueueCmd, WorkThread, Execute | clients (tables), monitor, adb | pool of threads, one post per empty list, flags decided under another lock, references | every command is reported once, in order, by one worker at a time; no wake-up, device or reference is lost | `AdbExec`, `CmdService` |
| Reference counts (`PObject`) | `_lRefCnt` | AddRef, Release | everyone who holds a device | last Release inside a worker | counts equal holders | `AdbExec` |
| Request table (`CmdTableMod`, `DbTableBase`, `SqlWrapper`) | rows of `op_requests`, `_hWakeEvent` | Load, Unload, MonThread, ProcessCmd, OnCmdUpdated, OnAttached, executor callbacks | database, executor, device center, peers | three writers of a row, failing statements, crash, device replaced | a request is executed once, its row never contradicts the executor, peers hear of changes | `CmdTable`, `CmdTableProofs` |
| USB monitor (`UsbDeviceMon`) | `_bQuit`, `_nlfd`, `_hWakeEvent`; on Windows `_hMainWnd` | Load, Unload, MonThread, WaitUEvent, WndThread | kernel, the two device monitors | messages before the socket is bound, overflow, the socket closed under select | a change is followed by OnChanged; Unload returns | `UsbMonitor` |
| MTP monitor (`MtpDeviceMon`, `AdbCmdMtpSendFile`) | records with `dwRefCnt`, `bRemove`, `pMtpDevice` | MonThread, ProcessDevices, GetMtpDevice, ReleaseMtpDevice, Unload | USB monitor, libmtp, executor | a record removed while in use, replugged meanwhile | a handle in use is open; what nobody needs is freed | `UsbMonitor` |
| Device path (`AdbDeviceMon`, `DeviceCenter`, `DevTableMod`) | `_DeviceList` twice, `_DeviceState`, `_ObserverList`, table `tablets` | MonThread, attach, detach, state change, (Un)RegisterObserver | USB monitor, adb, observers | two lists under two locks, adb behind the kernel, retries | the table shows the devices and states; the list settles | `DeviceCenter` |
| adb commands (`AdbCmd`, `AdbCmd*`, `ExtCmdCountStr`, parsers of `MiscUtils`) | pipes, child process, `_biOutput`, what ProcessResult leaves | Execute, CreateChildProcess, ReadFromPipe, Cleanup, ProcessResult | executor, adb | three ways to fail half way, output in pieces, descriptors that other children inherit | nothing leaks; the result is what the output says | `AdbCmd` |
| Socket multiplexer (`TransSockInst`) | `_MuxList`, `_SocketList`, `_hMuxEvent` | Register, Unregister, CloseSocket, MuxThread | connections, kernel | select without the lock, deferred close, wake-ups | dispatch only to live sessions, never block in recv, everything closed | `MuxServer` |
| Connection server (`CommonServer`, `TransCenter`) | `_ClientList`, `EndList`, `_TransList` | Load, Unload, AcceptThread, CleanupThread | multiplexer | one owner per record, joins | freed once, by who owns it; Unload returns | `MuxServer` |
| JNI event path (`main-jni.cpp`, `RingBuffer`) | ring of 100 events, `ghEvent`, `gbQuit` | ProcessDbMsg, WorkThreadProc, nativeInit, nativeQuit | MsgClient, Java | no lock, signal decided before the push, two lives | bounded FIFO; a waiting event is delivered | `MsgRing`, `EventQueue` |
| Stream handler (`TransStreamHandler`, `BufferItem`) | `_biRecv`, `_bSessionEnd` | OnRecvReady, EndSession | multiplexer | partial PDUs over reads and sessions | PDUs are those sent; a session ends once | `MsgClient`, `MuxServer` |
| Message client (`MsgClient`) | `_pTransInst`, `_bQuit`, `_hWakeEvent` | Load, Unload, SendDbMsg, WorkThread | TransCenter, Java | reconnecting, send while the session goes | sends only on a live connection; each session is stopped when it has ended | `MsgClient` |
| Application table (`AppTableMod`), requests of `DevTableMod` | rows of `tablet_apps` and `tablets` | UpdateAppList, OnExecuted | executor, database, sessions | a listing is one delete and many inserts; several listings under way | one whole listing per device | `AppTable` |
| Sessions of the message server (`MsgServer`, `MsgServerHandler`, `DbTableBase`) | `_ObserverList` and its lock, one per table | Init, Fini, RegisterObserver, UnregisterObserver, Notify, ProcessDbMsg | tables, connection server | notify while a session ends | each registered peer hears of each change; no call into a deleted handler | `AppTable` |
| Order of the locks (all threads of libdevmgr's host side) | eight kinds of mutexes, four `pthread_join`s | lock, unlock, join, and the calls between | every component above | callbacks with locks held, locks given up in the middle of loops, joins at any time | no threads wait for each other; every path unlocks | `LockOrder` |
| Configuration, tracing (`ConfigCenter`, the rest of `MiscUtils`) | | | | | | not modelled |
| Java (`NetService`, `MainActivity`) | | onCreate, onDestroy | hello library | | | its two calls in `HelloServer` |
| libev, `list.h`, prebuilt libraries | | | | third-party | | external operations in `HelloServer` |

How the parts interact. A uevent posts the adb monitor's semaphore; the monitor
attaches devices to the device center, which calls its observers (`DevTableMod`,
`CmdTableMod`) with `_ObserverLock` held. A peer inserts a row and sends a
message; the mux thread hands it to `CmdTableMod::OnCmdUpdated`, which posts the
monitor thread of the table. That thread looks the device up, queues the command
with the executor, and writes the row; the executor's workers call the table back
and it notifies all peers. In the client library the mux thread pushes each
message on the ring, and a worker hands it to Java.

## 2. Plan

Order of work, the most important behaviour first. All parts are done.

1. `CmdService` (the executor's promise), `AdbExec` (its implementation) and
   `AdbExecProofs`.
2. `MuxServer`: the sockets and the server that frees their connections.
3. `CmdTable`, over `CmdService` by INSTANCE, so that the table is checked
   against what the executor is shown to implement and not against its threads.
4. `EventQueue` (what Java may rely on) and `MsgRing` (its implementation).
5. `DeviceCenter`: monitor, center and device table in one module.
6. `HelloServer`.
7. `MsgClient`: sessions of the client with their receive buffer.
8. `UsbMonitor`: the USB monitor of both builds with the MTP monitor behind it.
9. `AdbCmd`: what one command is, below the executor.
10. `AppTable`: what commands bring back, the table it goes to, and the sessions
    that are told.
11. `LockOrder`: the nesting of the locks over all threads of libdevmgr's host side.
12. Proofs: the modules of sections 4 and 15. Every safety invariant, action property
    and refinement of the runs is proved but `ResultRight`.

Modules that are to be proved about use no RECURSIVE operators. Each has its
constants as parameters with a named assumption where one is needed, one action per
operation of the code, and invariants as conjunctions of named parts. A module of
proofs extends the modules it is about. Three of them are about two modules each:
`AdbExecProofs` about `AdbExec` and `AdbCmd`, which a worker of the executor runs,
`DeviceCenterProofs` about `DeviceCenter` and `UsbMonitor`, which wakes its
monitor, and `MuxServerProofs` about `MuxServer` and `LockOrder`, whose locks it
begins with. They share no names, therefore the prefixes `Cmd`, `Usb` and `Lock` of
`CmdSpec`, `UsbSpec`, `LockSpec` and their parts. The modules
have concrete TLC instances in their `.cfg`; where constants need functions, in
`MCAdbExec`, `MCCmdTable`, `MCAdbCmd`, `MCAppTable` and `MCLockOrder`.

Conventions. An action is a piece of code between two points where another thread
can make a difference; its name is the function's, or the function's with the step.
Critical sections that call nothing that blocks are one step; a lock held over
several steps is a variable or a place of its holder. `sem` variables are POSIX
semaphores. Actions that only exist as the mutated form of another one stand
before it and say so; no specification uses them.

## 3. AdbExec and CmdService: the command executor

`SmartDeviceAdb` has, per queue, a list of devices with work (`execList`), a
semaphore (`sem`) and a pool of threads; each device has per queue a FIFO
(`cmdList`), a flag that a worker is draining it (`running`) and a reference
count (`refcnt`). A client finds the device (`GetDevice`), pushes the command
under `_CmdLock` and, if the FIFO was empty and not running (`MustRequest`), goes
on with the lock held to `Request` and, if the list was empty, to `RequestPost`.
A worker wakes, takes devices until the list is empty, and runs each device's
FIFO until it is empty (`WorkerPop` .. `WorkerRelease`). A command is cancelled if
the device is not in its main state. Startup may fail at any thread; Cleanup sets
the flag, posts once per configured thread and joins.

`CmdService` is the promise, without threads: lanes that report every command
once and in order. `ImplementsService` is the refinement. The lane of a device is
its FIFO, preceded by the command a worker has popped and not yet reported.

- *adbexec_safe*: two devices, one queue, two workers, two clients, two
  commands. Two devices are needed because only the first entry of the list
  is posted, two workers because `ADB_CMD_THREAD_MAP` has pools of two, two
  clients because the decision and the push are in different critical sections.
  One queue is enough: queues share no variable but the reference counts, which the
  proofs cover for any number. `LaneServed` is what a lane must be for its commands
  to be executed: one runner, no wake-up lost, no device forgotten. The symmetry set permutes only what is
  interchangeable.
- *adbexec_live*: one device, two commands, two workers, without symmetry:
  commands finish, Cleanup returns, a detached device is deleted.

Fairness: weak for each thread. It assumes that adb commands end; nothing in the
code forces this (a hung command holds up all devices behind it in its worker).

Simplifications. The monitor's reference and the device center's are one, given
up in two steps. Cleanup posts all of a queue's threads in one step. Observers'
callbacks are the change of `status`. A second Startup after a Cleanup is not
modelled. When the executor has been told to quit a worker may leave devices on
the list (`SmartDeviceAdb.cpp:152`) with their references and commands; liveness
is claimed until then.

## 4. AdbExecProofs

Nine theorems about `AdbExec`, for every finite set of workers and every number of
devices, queues, commands and clients: `TypeCorrect`, `RequestAssertion`,
`OneRunnerPerLane`, `NoCommandForgotten`, `ReferencesExact`, `DestructorIdle`
(an action property), `WakeupNotLost`, `LanesServed`, which puts three of them
together, and `ExecutorImplementsService`, the refinement. The only assumption is
`ConstantsAssumption` of `AdbExec`, which TLC evaluates in both runs. The three
theorems about `AdbCmd` are in section 15.

None of the properties is inductive. `SingleRunner` says nothing about a device
that is both on the list and running, from which the next step would break it; and
the reference count says nothing of who is in which place. The invariant is
`IInv == Shape /\ Token /\ Counted`:

- `Shape` is the type invariant with what each place of a thread implies
  (`ClientShape`, `WorkerShape`, `LockShape`): that a worker between taking and
  releasing has a device, and that a held `_CmdLock` is held by a client between
  QueueCmd's push and its unlock.
- `Token`: for each device and queue the right to run is in at most one place: on
  the list (`ListedOnce`, `ListedFree`), with one client that is about to list it
  (`RequestedFree`), or in one worker's hands (`RunningExact`, `SingleRunner`); and
  it is in one if the FIFO has a command (`NoLostDevice`).
- `Counted`: `refcnt` is the cardinality of `Holders`.

`Shape` is proved first and alone, action by action (`ControlShape`,
`ClientStepShape`, `WorkerStepShape`), so that the other two can cite types. Then
each action is shown to move the token or leave it, and to add or remove exactly
one holder (lemmas `OneMore`, `OneLess`, `Exchange`). `WakeupNotLost` needs only
`Shape`: its property is inductive relative to it, because a wake-up is taken only by
a worker that is awake from then on. `RequestAssertion` states `NoDuplicateRequest`,
which no run lists because `SingleRunner` fails with it.

`ExecutorImplementsService == Spec => ImplementsService` says that every behaviour of
the executor, with its threads, lists and semaphores, is one of `CmdService`. The lane
of `CmdService` is `Lane(d, q)`, which looks for the worker that has popped a command
of the device and not begun it, and `ActiveCmd(d, q)` for the one that executes; both
by CHOOSE, so that nothing could be said of them if two workers were found.
`SingleRunner` excludes that, and `LanesSeen` is what follows from it: with a worker
at `one` the lane is its command and the FIFO, with a worker at `exec` its command
is the active one, and else the lane is the FIFO. Each step is then one of three
kinds (`OneLaneChanges`, `NoLaneChanges`): it appends to one lane (`ClientSeen`); it
begins, cancels or finishes the first command of one lane (`WorkerSeen`; `AloneInLane`
says that the other workers are not in that lane); or it changes no lane and no
outcome and is a stutter (`ControlUnseen`, and `Unseen` for the workers). Popping a
command is a stutter too, as the lane keeps what the FIFO loses.

## 5. MuxServer: sockets and sessions

Four threads: *accept* creates and registers connections, *mux* runs select and
dispatches, *cleanup* frees connections whose session has ended, *main* loads and
unloads. A `TransSockInst`, its handler and its record are one `Inst`. The mux
thread copies the descriptors under `_MuxLock`, calls select without it, takes it
again and dispatches to those of its list that are ready (`MuxBuild`, `MuxSelect`,
`MuxLock`, `MuxReceive`, `MuxEndSession`); `_MuxLock` is held while it dispatches.
A closed connection's descriptor is handed to the mux thread (`FreePost`,
`CleanupSocketList`), because select could otherwise report a number that was
closed and opened again: the comment at `TransSockInst.cpp:213`.
`OthersUseFd` lets other parts of the process take free descriptors.

- *muxserver*: two connections, two descriptors, which others may take too, so
  that a number is used again. `NeverBlocksInRecv` is that comment;
  `ConnectionsSound` says that no session is dispatched to after its end, its Stop
  or its deletion, that a record has one owner and what is freed was registered (the
  assertion at 95), and that nothing is left after Unload. An ended session is
  freed and its socket closed, input is received, Unload and Cleanup return.

One caller of Stop is left out of that assertion: CreateClientRec without memory for the
record, which stops a connection that was never started (section 16).
`AcceptNoMemory` is that path; the accept thread ends there.

Fairness: weak for the mux thread; strong for the threads that wait for
`_MuxLock`, as it is free only now and then while peers keep sending. Peers have
no fairness. The mutant of `NeverBlocksInRecv` receives for every connection
instead of the ready ones. If the destructor closed the socket itself the
property would still hold in this code, as only the mux thread ends sessions and
Unload joins the accept thread before it frees: the deferral guards against other
callers. `Register` also asserts fewer than 64 connections (`TransSockInst.cpp:69`);
the accept path has no limit, so the model has none and claims nothing of it.
Failures of send, and the listening socket, are not modelled.

## 6. CmdTable: the request table

The rows of `op_requests` with `is_processing` (0, 1, 2), `is_done` and the
result. A peer inserts a row (`RequestRow`) and its message arrives
(`OnCmdUpdated`); the monitor thread queries the unprocessed rows and processes
the result set one by one: look the device up, queue, mark the row 1, or mark
it done with an error. The executor is `CmdService` by INSTANCE; its callbacks
mark the row 2 and done, and notify. A statement may fail (`SqlFails`), the
process may crash and load again over the same table, and a device may be detached
and come back as another object with the same serial number.

- *cmdtable*: one row, two objects of one tablet, one failing statement, one
  crash: a request is handed over once, its row says what is true of it and only
  advances, changes are told, and a request whose message is under way is
  answered. One row is enough as no statement touches two but the query and the
  truncation; the result set becomes stale while other threads change its row. The
  proofs are for any number of rows.

Fairness: weak for the monitor, the loading thread, each lane and for
messages under way; no one has to crash, unload, ask or plug in. What a
row says is claimed only if no statement failed for it (`failed`). If one did, the row
may say less than the program knows; `QueuedOnce` still bounds what follows: a row
whose mark failed is visible to the query again, and its command is executed once
more for each statement that fails, and no more often. A query that fails uses up the
wake-up. A row inserted while the server is
down has no message, so `RequestDone` starts from a message. A statement is
atomic and the database durable: Load truncates the table, whatever the dialect.

## 7. MsgRing and EventQueue: events to Java

Every load and store of the two positions and the slot is a step, as
producer and worker use the ring without a lock; stores take effect in order, as
on the x86 the library is built for. `EventQueue` is a FIFO that drops only
when full. `ImplementsQueue` is the refinement.

- *msgring*: a ring of two, nine events, two lives of the native library. Three
  slots wrap three times, and a ring of two has the states empty, between and
  full, the only ones the code tells apart.

`RingSafe` has the ring's assertions and `SleepsOnEmpty`. That and `EventDelivered` name the two ways in which this code does
leave events lying, recorded in the history variable `missed`: `bSignal` is read
before the push (`main-jni.cpp:99`), so if the worker empties the ring in between, no
post is made for the event, and none for later ones, as the ring is no longer
empty; and events pushed after the worker was joined stay in the static ring, for
which the next nativeInit makes a semaphore without a post. In a life in which
neither happens every event is delivered. nativeQuit destroys the semaphore before
it unloads MsgClient; a post then is modelled as lost. Fairness: a call once begun
and the worker go on, OnEvent returns.

## 8. DeviceCenter: from the USB plug to the table

The monitor thread (`MonWait` .. `UpdateDone`) counts and enumerates until the
number of devices is as expected or the probes are used up, processes the
enumeration against its list, attaches and detaches in the center and calls
the observers with `_ObserverLock` held; then it updates the states of its devices
and waits, with a timeout while one is booting. DevTableMod registers from another
thread: it is put on the observer list under one lock and told the devices under
another (`RegisterPush`, `RegisterReport`).

- *devicecenter*: two devices, two changes, unloading: the rows are those of the
  center's list and show the states, the list settles on the number of devices
  plugged in, a booted device is shown booted.

Bounds and assumptions. `ProbeCount` is two instead of four and `MaxLag` one: the
assumption `MaxLag < ProbeCount` says that adb catches up within the probes of
one wake-up; without it the list does not settle, as nothing asks again.
Two devices are needed so that one callback can be under way while another device
changes. `DevicesSettle` is about the number because the code compares the
sizes: a swap that adb has not seen is not noticed. An observer that registers
late hears only of attachments: the row of a device that is already in its main
state stays "booting" until the state changes again (history variable `late`);
`TableShowsState` says that it is never shown in a state that is neither. The
property buffer that `UpdateState` may read unwritten (`SmartDeviceAdb.cpp:221`) is
a nondeterministic state. Serial numbers are unique. A timeout is modelled when
there is no post, as it then matters. Fairness: weak for the three threads; adb
enumerations return; nobody has to plug, load or unload.

## 9. HelloServer: the libev server

The Java thread runs `server_init` and `server_exit`, up to twice in a process, as
Android keeps the process of a stopped service. `quit` survives from the first
life to the second, as in the code. A loop thread makes its loop, its socket and
watchers, and then polls: everything ready becomes pending and is called in any
order, as libev promises none among watchers of one priority. `async` makes the
callback that closes all clients and the socket and breaks the loop; what is still
pending is called before `ev_run` returns. A client is its record, its descriptor
and its watcher together: only the main loop's thread touches them. Workers sleep on
their condition variables with spurious wake-ups allowed; nothing in the code
ever adds to their lists.

- *helloserver*: two clients, two lives. Two clients let one be open and readable
  while another waits to be accepted, in the iteration that breaks the loop.

`LivesSound` is `UsesLive` and `ClientsClosed`. The first is the one to look at: `exit_all_thread` sets `quit` without a lock,
signals, and destroys the condition variables before it joins. It is right because
the signal is sent with the mutex held, after `quit`, so that a worker has either
seen the flag or is already waiting. Its mutant signals without the mutex.
`ExitReturns` is claimed for exits that find both loops listening. Before that
the code calls `ev_async_send` on no loop (the model ends with `dead`) or loses
the event and joins for ever. The second life's workers return at once, as
`quit` is never reset. Fairness: weak for each thread; peers, spurious wake-ups and
the service's life cycle have none. Sends to clients are assumed not to block.

## 10. MsgClient: the tablet's connection

`WorkThread` connects, publishes the connection in the handler's `_pTransInst`,
starts it, waits on `_hWakeEvent` until `_bSessionEnd` or `_bQuit`, stops it,
forgets it under `_TransLock` and deletes it (`WorkTest` .. `WorkFinish`). A
connection is a `Session`; all of them have one handler, so `_bSessionEnd` stays set
after the first and `_biRecv` lives on. The mux thread receives a piece of the
stream of any length, copies it to `_biRecv` up to the end of the header or the
body, delivers, and ends the session on an error or a bad header (`Receive`,
`Fill`, `Deliver`, `BadMagic`, `Suspend`, `Signal`). Java's threads send under
`_TransLock` (`SendLock` .. `SendEnd`) and one of them unloads. The stream is a
sequence of units: the magic number, the rest of the header, the body. The
server may send and the connection be lost, with what was on its way cut, at any time.

- *msgclient*: two senders, two connections of two PDUs of four units. Two
  connections are needed for what one leaves to the next, two PDUs for the order and
  for a piece that holds the end of one and the beginning of the other. A body of
  two units can be cut within the header, between the two, and within the body.
  `Garbage` is the length that is read where there is no header's second part; 3
  is longer than the body, so that such a PDU swallows what follows.

`SessionsSound` is `UsesLive` and `StopsOnlyEnded`. Both hold for another reason than it seems: `_pTransInst`
is set without the lock and forgotten only after Stop, and `_bSessionEnd` is never
cleared; what keeps a second session from being stopped at once is that EndSession
suspends the connection before its one post, and that Stop waits for the mux
thread. The mutant of the second receives from a suspended connection again.

`FramesIntact` has an exception that the code earns: `MyMsgClient::OnStarted`
(`main-jni.cpp:79`) hides the one that resets `_biRecv`. After a connection is lost
within a PDU the first PDUs of the next session are joined to its beginning, and
if that gives a bad header the session ends, and so does every later one at its
first receive, as nothing removes the header. The property says that all damage
begins with a PDU that spans two sessions. `MsgServerHandler` calls the base class.

Assumptions: nativeConnect is called once and after nativeInit; the client is
deleted when no sender is in it (Java's duty: nativeQuit does not wait for them).
Descriptors and select are those of MuxServer, here the mux thread takes its lock
and dispatches in one step. Fairness: strong for the work thread, which needs two
locks that others take again and again; weak for the mux thread, sends and Unload
once begun. Connecting need not succeed.

## 11. UsbMonitor: USB changes and the handles of MTP devices

`windows` chooses the build at the start; each action says which one it belongs to
by its guard. On Linux the monitor thread opens a netlink socket in Load, calls
OnChanged once and then waits in `select` with a timeout of five seconds; Unload sets
`_bQuit` and closes the socket. On Windows a thread makes a window, registers it for
device notifications and posts a semaphore for each; Unload posts WM_DO_CLOSE to
`_hMainWnd` and joins both threads. Behind it the MTP monitor wakes, detects the
devices, takes its list apart into those still there and those gone (`NewList`)
under its lock, and releases the latter; a sender takes a record by serial number
(`GetMtpDevice`, count up), sends through its handle without the lock, and gives it
back.

- *usbmonitor*: two senders, two devices plugged in one after the other, a socket
  that holds one message, one opening that fails. Two devices so that one can go
  while the other comes, two senders because the count must tell one from two,
  one message because a second one then overflows.

`RecordsSound` is `HandleLive` and `NothingKept`, the two sides of the reference count: not freed
while in use, freed when not. They relate the senders' handles, the list, the marks
and the open handles, which change in four threads. `PlugNoticed` is what saves the
monitor from lost messages: OnChanged is called before the first wait, and an error
of recv (ENOBUFS) counts as a change. Its exception `deaf` is a change before the
Windows window is registered, which nobody reports. `MtpSettles` is exempt when
nothing is plugged in, as a detection that fails then looks the same as none, and
for the devices that could not be opened: an opening that failed is not retried
before the next change. `UnloadsReturn` has two exemptions, both defects of the code. On Windows, an Unload
that comes before `_hMainWnd` is set joins a window thread that nobody will end
(`UsbDeviceMon.cpp:121`). On Linux, Unload closes `_nlfd` (143) and sets it to
`INVALID_SOCKET` (144) in two steps, while the monitor may be between `select` (402)
and `recv` (416). If another thread opens a socket in between it gets the same number,
`recv` waits for its input without a timeout, and the join (150) does not return until
some comes, which the monitor then takes away from that thread. It is what the comment at
`TransSockInst.cpp:213` describes for the mux, where the close is deferred for it; here
it is not. Without the exemption `RecvWaits` the run fails with
that behaviour: `UsbUnloadSock`, `UsbSelect`, `UsbRecvCall`, `UsbUnloadClear`,
`OthersReopen`, and nothing more. What holds is
`WaitsOnlyForOthers`, which is proved (section 15): recv waits for nothing else,
neither before Unload nor after, and not on the netlink socket itself.

`sock` is what the number names that `_nlfd` had, also when it is closed: `"closed"`
is any number on which recv returns, nobody's or one with input, `"reused"` one on which
it waits; `OthersReopen` and `OthersInput` go from one to the other as often as they
like, and no fairness makes them. FD_SET of -1 is undefined in C (as compiled for the
builds here it sets a bit that select does not look at), and select on a closed number
finds whatever is there: both are modelled as any result of select. Timeouts only end a
wait. Fairness: weak for each thread; a user who has a handle gives it back. As a
change that is reported is no longer `pending`, and an Unload that has returned is not
called again, `PlugNoticed` and `UnloadsReturn` are stated as what is always
eventually not the case, which says the same as a leads-to and is cheaper to check.

## 12. AdbCmd: one command

`Execute` makes two pipes, forks, closes the child's ends, reads until the end of the
output, reaps the child and parses. Every place where it may fail is a step of its
own with the error label it goes to (`FirstPipe`, `SecondPipe`, `Fork`, `Err3`,
`Err2`); the Windows build makes the pipes in the other order, and its code is named
at the actions that have it (`First`, `Second`). `held` is what the program has open
for a command; `writers` are the children that hold the write end of an output, the
children of other threads that were forked meanwhile included. The child writes its
text unit by unit; a read returns what is there, less than the size of the
buffer. ProcessResult is a pure operator per kind of command
(`EnumDev`, `CountStr`, `GetProp`, `Reply`, ...), each written over units where
the source walks over characters; `ResultRight` compares it with a definition that
knows the whole text and nothing of the pieces. When no child can be had, Execute
returns an error, but for the list of applications (`Failure`):
`AdbCmdGetApkList::Execute` does not look at it (`AdbCmdGetApkList.cpp:28`) and
returns ERROR_SUCCESS with nothing in `_biResult`.

- *adbcmd*: two threads, eleven texts, a buffer of three units with a limit of two
  devices and two applications: texts longer than a piece and shorter ones, one more
  device and application than fit, a list with an offline device that fits and one
  that does not, space without total and total without space.

`NothingLeaks`: three error exits and Cleanup undo different parts of the same
state, in both builds. `OutputWhole` is the growth of the buffer with the zero behind
the last piece. `CommandEnds` holds although a child of another thread may hold the
output open, as that child ends too; it is assumed that what adb starts in the
background does not keep it.

`ResultRight` says of a list of devices also when it fails. Every line read puts a
record into the result (`PutRecord`, `AdbCmdEnumDev.cpp:64`), but only a device that is
online is counted by the loop, so the result has too little room exactly if there are
lines behind the first 128 and one of these is not online (`Crowded`). Then
`assert(_tail <= _end)` (`BufferItem.cpp:88`) fails, and a build without assertions
returns a result that is larger than its room, which `GetResult` copies past its end
(`AdbDeviceMon.cpp:204`); the names in it are right all the same. For space, a total
that is not printed is zero, and `DevTableMod.cpp:249` then wraps around.

## 13. AppTable: what commands bring back

The worker of queue 0 updates rows of `tablets`, that of queue 1 replaces a
device's rows of `tablet_apps` by one delete and one insert per application; the monitor
changes rows as well. After its statements each thread calls Notify, which holds the
lock of the table's observers while it sends (`Notify`, `SendPDU`, `NotifyDone`). A
session is made, registers with three tables one after the other, is used, ends,
is stopped, unregisters in the same order and is deleted (`Accept` .. `Delete`); a peer asks
for a listing or an update at any time while its session is up.

- *apptable*: two clients, one device, two applications, one waiting command for
  each table, one failing statement. One command waiting and one under way are the two
  listings that could mix; two clients so that one is told while the other leaves.

`ListingWhole` is the comment at `AppTableMod.cpp:113`: the delete belongs to the
insert, not to the request. `HandlerLive` needs that UnregisterObserver waits for
the lock, `ToldAfterChange` that every path of OnExecuted, also that with a failed
statement or an empty listing, goes through Notify. The thread a device's commands
run in is that of its queue (GlobalDef.h:138-162), which AdbExec models as a pool;
both queues have one thread.

## 14. LockOrder: the locks of all threads

The other modules have the locks of one component each and show that they are given
up; here are all threads of libdevmgr's host side and the locks they share, and nothing
else. A thread's `plan` is the sequence of what it has still to do: lock or unlock a
mutex, call a function, set the quit flag of threads, join them. `held` is what it has
locked, `told` whose flag is set. A function with one path (`ExecSql`, `Notify`,
`FreeClientRec`) is an operator, its path; one that branches or loops is an action that
replaces the call by one of its paths, the loop by a call of itself at the end
(`Execute`, `Release`, `MuxThread`). A critical section is `Section`, with the path of
its body inside; where the code gives a lock up in the middle of a loop there are two
sections with the call between them (`WorkThread`, `RunCmds`, `DrainClients`). All
branches are choices, so that the paths are at least those of the code: data that would
exclude one is not there.

The locks of the model are those whose holder waits for something: `_MuxLock` around
the dispatch, `_ClientLock`, the two of the device center, the database's, the
observers' of each table, `_CmdLock` of each device and queue and `_ExecLock` of each
queue. `_RefLock`, `_SocketLock`, `_TransLock` and the MTP monitor's are held around list
operations and arithmetic only, and semaphores are waited for with nothing locked. `Main` loads and
unloads the parts in any order and as often as it likes, more than any program would.
Threads exist from the beginning, with the function each was created with (`routine`,
one of the combinations `Crews`; the proofs are for all), and a joined one is
not created again: a new one would begin as the old one did.

`NoCircularWait`: of any set of threads one waits for none of the set, be it for a mutex
or in `pthread_join`. The comment at `CommonServer.cpp:290` fears such a circle for
FreeClientRec. `LocksReleased`: who has ended or begins its loop again holds nothing.

- *lockorder*: three threads at a time, as the paths of all multiply, in five groups:
  adb monitor, worker and main, for callbacks with the center's locks held
  against loading, unloading and joining; the request table's thread, the mux
  thread and a worker, for the two directions between `_CmdLock` and `_ExecLock`; and
  the mux, accept and cleanup threads with main, for freeing a connection while another is
  dispatched to. Two devices so that a thread may be inside one's functions while
  another is inside the other's. A circle of two locks and the join of a thread
  that wants a lock take two threads, so that three leave one more.

The proof (section 15) is for all threads at once and any number of each. The mutants
show what the order depends on: an OnAttached that looks its device up, so locks
`_DeviceLock` that RegisterObserver holds; a loop of Unload that takes `_ClientLock` again
after the last connection.

What this does not show: that a thread is not held up for long. A peer that does not
read holds up, with the table's `_ObserverLock`, everybody who notifies that table, and
through the monitor's callbacks whoever wants the device center's.

## 15. The proofs about the other modules

Each has one inductive invariant of named parts, one lemma that Init implies it,
one that a step preserves it with a step of the proof per action, and the
theorems from it. All hold for every value of the constants that satisfies the named
assumption of the module.

- *AppTableProofs* (`TypeCorrect`, `ListingIsWhole`, `NobodyMissesAChange`,
  `NotifyCallsLive`), for any number of clients, devices, applications and waiting
  commands. `ListingWhole` is not inductive: it needs of the rows, while they are
  inserted, that they are the listing without what is left; `HandlerLive` that who is
  still to be called is registered, that who is registered is neither new nor
  deleted, and that a thread that sends holds its table's lock; `ToldAfterChange`
  that who was not told is an observer its thread has still to call.
- *MuxServerProofs* (`TypeCorrect`, `RecvNeverBlocks`, `DispatchesToLive`,
  `OneOwner`, `NothingLeft`, and `ConnectionLife` of the last three). `Owners`: a connection is registered, or held by the
  accept thread, or about to be deleted by one thread, and no two of these; the
  records are those of the registered ones and of the accept thread's.
  `Descriptors`: the open descriptors are those of the connections and those to be
  closed, all different. `Selected`: what select was given stays open until it is
  used. Without `Descriptors` a reused number would lead to a session that has ended;
  without `Places` two threads could free.
- *MuxServerProofs*, about LockOrder (`LocksInOrder`, `NoDeadlock`, `LocksGivenUp`),
  for every number of threads of each kind, devices and queues; explained below.
- *MsgClientProofs* (`TypeCorrect`, `ConnectionsLive`, `StopsOnlyWhenEnded`,
  `SessionLife` of both, and `FramesStayIntact`, explained below).
  `Place` says for each place of the work thread which connection is published,
  registered and alive; `Locked` that a sender inside has the lock; `Posted` matches
  the posts: before Unload there is a post, or one about to be made, exactly when
  the registered session has ended and the thread has not yet taken it.
- *CmdTableProofs* (`TypeCorrect`, `HandedOverOnce`, `ResultIsTrue`, `NoRowStuck`,
  `ChangeIsTold`, the action properties `MarkNeverBack` and
  `ResultNeverChanges`, and `RowsAreTrue` and `RowOnlyAdvances`, which join them), for any number of requests, devices, failing statements and
  crashes. None is inductive: that a row is not queued twice needs, of every row the
  query has returned and the thread has not yet reached, that nobody has touched it
  (`Once`), and that the table's marks are true of the executor (`Marks`), which is
  told from the outcome of the one command of the row (`Handed`). `LaneState` and
  `Apart` say which commands the lanes hold; what is in a lane survives every step
  but the last notification, after which the row is done (`AllHeld`). A crash
  empties the lanes and keeps the table; what makes it safe is that `load` precedes
  every other step and that outcomes once reported stay. `HandedOverOnce` needs a
  second invariant, `Repeats`, inductive relative to the first: a row that can be
  seen was handed over no more often than statements failed.
- *MsgRingProofs* (`TypeCorrect`, `AssertionsHold`, `SleepsOnlyOnEmpty`, `RingIsSafe`,
  `RingImplementsQueue`), for every
  size of the ring: the positions and slots agree at every step of either thread.
- *DeviceCenterProofs*, about DeviceCenter (`TypeCorrect`, `TableComplete`,
  `TableCurrent`, `TableIsTrue`). The
  monitor's lists are parts of the center's; the table lags behind by the one device
  for which the observers are being called, and by those still to be reported.
- *DeviceCenterProofs*, about UsbMonitor (`UsbTypeCorrect`, `RecvWaitsForOthers`,
  `HandlesLive`, `NoRecordKept`, and `RecordsCounted` of both), for every number of
  senders, devices and messages. `Records`: an
  open device is on exactly one of `_DeviceList` and `NewList`, and only what is on the
  first can be marked. `Handles`: a handle is of a record on the list, the count is the
  number of those who have one, and a marked record has at least one, as the last to
  give it back frees it. Neither property is inductive: that a handle is live needs
  that the count is exact, or a removal would free what is in use; that nothing is
  kept needs that marks are only on the list. `Builds` says which steps the two builds
  exclude, that select has found a message when recv is called on the netlink socket,
  and that its number is another's only when Unload has closed it: with the monitor
  gone when Unload returns, that is `WaitsOnlyForOthers`.
- *AdbExecProofs*, about AdbCmd (`CmdTypeCorrect`, `NoCommandLeaks`, `OutputIsWhole`),
  for every number of threads, list of commands, length of their outputs and size of
  the buffer. `Places`: each of the five descriptors and handles is open at exactly the
  places of Execute that the build's order of the two pipes gives it, so that the error
  exits together undo what was done. `Children`: a child that runs has its own output
  open, so that the end of the output, at which the read loop ends, comes only after
  the child has written everything; `Output` counts what was read against it.
  The children of other threads, which inherit descriptors, can only delay that end.
- *HelloServerProofs* (`TypeCorrect`, `NothingUsedDead`, `NoClientLeft`, and `ServiceLives` of both).
  `Workers`: from the place of the exiting thread follows which worker has been
  signalled and will not wait again, because `quit` was set before; `Closed`: from
  ev_break on there is neither a client nor a listening socket.

**The order of the locks.** `Rank` is the order: the mux's, the clients' and the
device center's observers' 1, the devices' 2, the database's, the tables' and `_CmdLock` 3,
`_ExecLock` 4. `Level` says of each function the lowest rank it may take, so
with which locks it may be called. The invariant `LInv` says that each thread has before
it a path (`Path`) on which it locks a mutex only if all that it holds is of a lower
rank, unlocks only what it holds, calls a function only with locks below its level held,
joins others only if it is main, none of them is, and it holds nothing, and at whose end it holds nothing.
Paths can be joined and taken apart (`PathConcat`, `PathHead`); a path is `Sound`
at a level if with anything below the level held it can be taken and leaves the same
held. Sections, calls and stops are sound (`SoundSection`, `SoundCall`, `SoundStop`), and so is
one sound path after another; with this each function's paths are
shown sound at its level, one lemma per action, and the invariant is preserved because a call
is replaced by a path that is sound where it stands (`GoesSound`). `LocksReleased` is the
end of the path. `NoCircularWait`: if every thread of a set waited for one of it, one that
wants a mutex would lead to its holder, who joins nobody as he holds something, so
wants a mutex too, of a higher rank; there are four ranks (`LInvNoCircle`).

**The stream of the message client.** `FramesIntact` says of what has been delivered
that it is in order and whole, or that the damage began with a PDU that spans two
sessions. Its invariant `FInv` is about what has not been delivered: the *backlog* is
what is assembled, what is in the buffer and what is on its way, one after the other.
Up to the first damage one of three things is true of a session (`Undamaged`).
`OnTrack`: the backlog is in step, its i-th unit is the one that the PDUs from the next
expected one on have at i, and as long as nothing is lost it has as many units as have
been sent since. `Stale`: what is assembled is the beginning of a PDU of an earlier
session, less than one PDU. `Mixed`: it begins there and goes on with units of
this session; if it is delivered it is the PDU that spans two sessions. A step moves
units between the three parts of the backlog (`ReceiveFrames`, `FillFrames`: associativity
of concatenation), takes its first PDU away (`DoneFrames`; the header is that of an
expected PDU, so `Missing` counts to its end, and not to that of another length:
`TrackIs`, `MissingIs`), appends the next PDU (`SendFrames`), cuts its end
(`LostFrames`), or begins a new session with what is assembled left as it is
(`WorkFrames`), which makes it stale. The arithmetic is for every length of the body
and every number of PDUs and sessions: a unit is where it belongs because i, less the
PDUs before it, is below the size of one (`FirstPdu`).

**The ring.** `RingImplementsQueue == Spec => ImplementsQueue`: the queue that Java sees
is the function of the slots from the read position on, as many as the distance of the
two positions modulo the size (`Distance`, `Place`). Lemmas on remainders, stated once
(`Wrap`, `DistanceIs`, `PlaceIs`), give what the steps need: the places between the two
positions are different slots (`Places`), advancing the write position adds a
place behind the last and only if there is room (`PlacesPush`), and advancing the
read position takes the first away and shifts the others. The step at which the
event counts as pushed is the store of the write position, and popped that of
the read position; the store of the slot before it is a stutter because the slot at the
write position is none of those places, and the clearing of a slot because the event
that was in it is still the first of the queue, in the worker's hands (`InHand`), until
the read position has advanced. That no other thread changes a
position between its load and its store is the invariant of the earlier theorems.

## 16. Runs and what is only model-checked

| Run | Bounds | Checks | Result |
|---|---|---|---|
| adbexec_safe | 2 devices, 1 queue, 2 workers, 2 clients, 2 commands | LaneServed, RefsExact, ImplementsService | hold; proved too |
| adbexec_live | 1 device, otherwise the same | CommandFinishes, CleanupReturns, DeviceDeleted | hold |
| muxserver | 2 connections, 2 descriptors | NeverBlocksInRecv, ConnectionsSound, EndedIsClosed, InputReceived, ShutdownReturns | hold; the first two proved too |
| cmdtable | 1 row, 2 devices, 1 failure, 1 crash | QueuedOnce, RowTrue, ChangeNotified, RowsAdvance, RequestDone | hold; all but the last proved too |
| msgring | ring of 2, 9 events, 2 lives | RingSafe, ImplementsQueue, EventDelivered | hold; the first two proved too |
| devicecenter | 2 devices, 2 changes, 2 probes, adb behind by 1 | TableTrue, DevicesSettle, BootShown | hold; the first proved too |
| helloserver | 2 clients, 2 lives | LivesSound, ExitReturns | hold; the first proved too |
| msgclient | 2 senders, 2 connections, 2 PDUs of 4 units | SessionsSound, FramesIntact, SessionFinishes | hold; the first two proved too |
| usbmonitor | 2 senders, 2 devices, 1 message, 1 failure | RecordsSound, PlugNoticed, MtpSettles, UnloadsReturn | hold; the first proved too |
| adbcmd | 2 threads, 11 texts, pieces of up to 2 of 3 units | NothingLeaks, OutputWhole, ResultRight, CommandEnds | hold; the first two proved too |
| apptable | 2 clients, 1 device, 2 applications, 1 waiting, 1 failure | ListingWhole, ToldAfterChange, HandlerLive | hold; proved too |
| lockorder | 5 groups of 3 threads, 2 devices, 1 queue | NoCircularWait, LocksReleased | hold; proved too |

Several properties of the runs are conjunctions of named parts that belong together
(`LaneServed`, `ConnectionsSound`, `RowTrue`, `RowsAdvance`, `RingSafe`, `TableTrue`,
`SessionsSound`, `RecordsSound`, `LivesSound`); most parts have a theorem of their own. The type invariants,
`NoDuplicateRequest`, `DestructorFindsNothing` and `WaitsOnlyForOthers` are stated by no run and proved.
Only model-checked: liveness under fairness, which is beyond the prover; and
`ResultRight`. For a command whose result is a reply it follows from `OutputWhole`; but what it says
of properties, disks, the battery and counts is what the parsers make of the texts of
the run, for which there is no formula but the texts, and that a list of devices is read as the list
printed is a fold over its lines, whose value for every text takes an induction over data,
which the installed provers cannot do. Deadlock is checked where
the system is not meant to stop; the configurations that switch it off are those in
which it may: the process ended, all bounds are used up, or the library is quit
for good.

Observations.

- An assertion that fails: when `CreateClientRec` cannot allocate the record of an
  accepted connection it calls `Stop` on a connection that was never
  started (`CommonServer.cpp:138`); `Unregister` asserts that it is registered
  (`TransSockInst.cpp:95`), and `Stop` goes on through a handler that is not set.
- Left behind or lost: the missed wake-up and the left-over events of MsgRing;
  devices and commands on `_ExecList` when the executor is told to quit
  (`SmartDeviceAdb.cpp:152`); the lost wake-up of a failed query; the command
  executed again after a failed mark; the rows of late observers; MTP records
  when the detection fails and nothing is plugged in; an opening that is not
  retried; a USB change before the Windows window is registered.
- Life cycle: in the hello library, exit before the loops run (`hello-jni.c:84`:
  `ev_async_send` on no loop, or an event that is lost before the join) and `quit` in
  the second life; the receive buffer that the client never resets; an Unload on
  Windows before `_hMainWnd` is set, and on Linux one that closes a socket whose number is
  opened again before the monitor's recv (`UsbDeviceMon.cpp:143`, 416), neither of which
  returns (section 11); a failed `pthread_create` is reported by
  GetLastError, which pthreads do not set.
- Limits: no limit of connections although `Register` asserts fewer than 64
  (`TransSockInst.cpp:69`); no limit of lines in the list of devices, each of which
  puts a record (`AdbCmdEnumDev.cpp:64`), although there is room for 128: the
  assertion of Put fails, or the result is copied past its end (section 12);
  `DevTableMod.cpp:249` wraps around if dumpsys prints no total, or more free space
  than there is.
- Commands: children inherit every descriptor (no close-on-exec), and keep the two
  ends they were given besides their copies; an adb that starts its daemon first
  prints lines that make the enumeration fail; "bytes in" anywhere in an output is a
  success, whatever errors it has that are not in the map (GlobalDef.h:170);
  GetSysInfo uses one AdbCmdGetProp for several properties and ignores its failures,
  so a failed query shows the value before it; a missing list file is a device without applications. `AdbCmdGetApkList` returns
  ERROR_SUCCESS also if no child could be started (`AdbCmdGetApkList.cpp:28`): its result
  is then empty, `ExecuteOne` passes on a BufferItem without data
  (`SmartDeviceAdb.cpp:389`), and `OnExecuted` of the application table deletes the
  old list and reads `dwCount` through its null pointer (`AppTableMod.cpp:119`).
- Sessions: the PDUs of two tables' Notify may be interleaved on one socket, as each
  holds its own lock; in `MsgServerHandler.cpp:75` the arguments of a trace are in
  the wrong order; GetMtpDevice returns records that are marked as removed.

## 17. Not modelled

- `ConfigCenter`, tracing, the character sets of `MiscUtils` and `SqlWrapper`, and
  the fetching of rows: they keep no state another component depends on. A query is
  its result set, taken at once; a statement takes effect or fails.
- The command lines of `AdbCmd*`, and the commands that only run others in turn
  (`AdbCmdInstallApk` and the like): a sequence of commands of section 12. Their file
  operations on the host.
- The Safe variants and Reset of `RingBuffer`, and everything else without a caller
  in the repository; of DeviceCenter's own Unload, which drops what is left at exit, only
  the releases (section 14).
- The listening socket's failures and the sending side of a session, but for the lock
  it takes; libmtp and libev beyond the calls made here; the prebuilt libraries, `ev.h`
  and `list.h`, which are third-party; the Java user interface.
- In LockOrder, the mutexes that nobody waits with.
