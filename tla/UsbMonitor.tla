------------------------------ MODULE UsbMonitor ------------------------------
(***************************************************************************)
(* How a change on the USB bus reaches the device monitors                 *)
(* (dev/UsbDeviceMon.cpp, for Linux and for Windows), and the monitor that *)
(* keeps the handles of MTP devices (dev/MtpDeviceMon.cpp) for the         *)
(* commands that send files (dev/AdbCmdPushPullFile.cpp).                  *)
(*                                                                         *)
(* The USB monitor's thread calls OnChanged of both monitors once when it  *)
(* starts and after every message.  OnChanged posts a semaphore; the MTP   *)
(* monitor is the one modelled here, the adb monitor is in DeviceCenter.   *)
(*                                                                         *)
(* A device gets a new address (bus_location, devnum) whenever it is       *)
(* plugged in, so a record is named by its address.  _DeviceList is a set: *)
(* its order only decides which of two records with one serial number      *)
(* GetMtpDevice returns, and here it returns any.                          *)
(***************************************************************************)
EXTENDS Integers, FiniteSets

CONSTANTS
  User,      \* executor threads that send a file
  MaxBus,    \* bound: devices plugged in so far
  MaxEvents, \* messages the netlink socket holds before it overflows
  MaxFail,   \* bound: openings that fail although the device is there
  NoAddr

Addr == 1 .. MaxBus

ASSUME UsbConstants ==
  /\ IsFiniteSet(User)
  /\ MaxBus \in Nat /\ MaxEvents \in Nat \ {0} /\ MaxFail \in Nat /\ NoAddr \notin Addr

VARIABLES
  windows,                \* which build it is
  onBus, plugCount,       \* devices plugged in; how many there were
  events, overflow,       \* messages on the socket or to the window; ENOBUFS
  pending, deaf,          \* history: a change no OnChanged followed; it was not sent
  mainPc,                 \* the thread that loads and unloads UsbDeviceMon
  usbPc, usbQuit,         \* UsbDeviceMon::MonThread, _bQuit
  sock,                   \* what the number in _nlfd names, also once it is closed
  sem,                    \* _hWakeEvent of UsbDeviceMon
  wndPc, listening,       \* WndThread; the window is registered for notifications
  hMainWnd, doClose,      \* _hMainWnd is set; a WM_DO_CLOSE is posted
  mtpPc, mtpSem, mtpQuit, \* MtpDeviceMon::MonThread, _hWakeEvent, _bQuit
  mtpMain,                \* the thread that unloads MtpDeviceMon
  mtpFound, mtpNew,       \* pDevices, NewList
  list,                   \* MtpDeviceMon::_DeviceList
  ref, remove,            \* dwRefCnt, bRemove
  open,                   \* devices that are open: their pMtpDevice may be used
  failed, fails,          \* devices whose last opening failed; how often one did
  handle                  \* pDevice of each user's MtpSendFile, if it has one

bus     == <<onBus, plugCount, events, overflow, pending, deaf>>
usb     == <<windows, mainPc, usbPc, usbQuit, sock, sem>>
wnd     == <<wndPc, listening, hMainWnd, doClose>>
mon     == <<mtpPc, mtpQuit, mtpMain, mtpFound>>
recs    == <<mtpNew, list, ref, remove, open, failed, fails>>
usbVars == <<bus, usb, wnd, mon, mtpSem, recs, handle>>

UsbTypeOK ==
  /\ windows \in BOOLEAN /\ usbQuit \in BOOLEAN /\ overflow \in BOOLEAN
  /\ pending \in BOOLEAN /\ deaf \in BOOLEAN /\ listening \in BOOLEAN
  /\ hMainWnd \in BOOLEAN /\ doClose \in BOOLEAN /\ mtpQuit \in BOOLEAN
  /\ plugCount \in 0 .. MaxBus /\ events \in Nat /\ sem \in Nat /\ mtpSem \in Nat
  /\ onBus \subseteq Addr /\ mtpFound \subseteq Addr /\ mtpNew \subseteq Addr
  /\ list \subseteq Addr /\ remove \subseteq Addr /\ open \subseteq Addr
  /\ failed \subseteq Addr /\ fails \in 0 .. MaxFail
  /\ mainPc \in {"socket", "thread", "window", "up", "close", "joinWnd", "quit",
                 "closeSock", "clearSock", "join", "down"}
  /\ usbPc \in {"none", "test", "inner", "select", "recv", "receive", "wait", "exited"}
  /\ sock \in {"none", "open", "closed", "reused"}
  /\ wndPc \in {"none", "create", "assign", "loop", "exited"}
  /\ mtpPc \in {"wait", "detect", "process", "init", "exited"}
  /\ mtpMain \in {"up", "join", "down"}
  /\ ref \in [Addr -> Nat]
  /\ handle \in [User -> Addr \cup {NoAddr}]

UsbInit ==
  /\ windows \in BOOLEAN
  /\ onBus = {} /\ plugCount = 0 /\ events = 0 /\ overflow = FALSE
  /\ pending = FALSE /\ deaf = FALSE
  /\ mainPc = (IF windows THEN "thread" ELSE "socket")
  /\ usbPc = "none" /\ usbQuit = FALSE /\ sock = "none" /\ sem = 0
  /\ wndPc = "none" /\ listening = FALSE /\ hMainWnd = FALSE /\ doClose = FALSE
  /\ mtpPc = "wait" /\ mtpSem = 0 /\ mtpQuit = FALSE /\ mtpMain = "up"
  /\ mtpFound = {} /\ mtpNew = {} /\ list = {} /\ remove = {} /\ open = {}
  /\ ref = [a \in Addr |-> 0] /\ failed = {} /\ fails = 0
  /\ handle = [u \in User |-> NoAddr]

MainAt(from, to) == mainPc = from /\ mainPc' = to
UsbAt(from, to) == usbPc = from /\ usbPc' = to
WndAt(from, to) == wndPc = from /\ wndPc' = to
MtpAt(from, to) == mtpPc = from /\ mtpPc' = to

------------------------------------------------------------------------------
(* The bus.                                                                *)

\* The kernel sends a message to a bound socket and the system one to a
\* registered window; a full socket drops it and remembers that it did.
Send ==
  /\ pending' = TRUE
  /\ IF windows
       THEN /\ events' = IF listening THEN events + 1 ELSE events
            /\ deaf' = (deaf \/ ~listening)
            /\ UNCHANGED overflow
       ELSE /\ events' = IF sock = "open" /\ events < MaxEvents THEN events + 1 ELSE events
            /\ overflow' = (overflow \/ (sock = "open" /\ events = MaxEvents))
            /\ UNCHANGED deaf

BusPlug ==
  /\ plugCount < MaxBus
  /\ plugCount' = plugCount + 1
  /\ onBus' = onBus \cup {plugCount'}
  /\ Send
  /\ UNCHANGED <<usb, wnd, mon, mtpSem, recs, handle>>

BusUnplug(a) ==
  /\ a \in onBus
  /\ onBus' = onBus \ {a}
  /\ failed' = failed \ {a}
  /\ Send
  /\ UNCHANGED <<plugCount, usb, wnd, mon, mtpSem, mtpNew, list, ref, remove, open,
                 fails, handle>>

------------------------------------------------------------------------------
(* UsbDeviceMon::Load and Unload.                                          *)

\* Load gives up by calling Unload.
StartUnload == mainPc' = IF windows THEN "close" ELSE "quit"

\* CreateNetLink.
LoadSocket ==
  /\ mainPc = "socket"
  /\ \/ sock' = "open" /\ mainPc' = "thread"
     \/ UNCHANGED sock /\ StartUnload
  /\ UNCHANGED <<bus, windows, usbPc, usbQuit, sem, wnd, mon, mtpSem, recs, handle>>

\* Mutant: MonThread waits for a message before it calls OnChanged.
LoadThreadWaits ==
  /\ mainPc = "thread"
  /\ \/ /\ usbPc' = IF windows THEN "wait" ELSE "inner"
        /\ mainPc' = IF windows THEN "window" ELSE "up"
     \/ UNCHANGED usbPc /\ StartUnload
  /\ UNCHANGED <<bus, windows, usbQuit, sock, sem, wnd, mon, mtpSem, recs, handle>>

LoadThread ==
  /\ mainPc = "thread"
  /\ \/ usbPc' = "test" /\ mainPc' = IF windows THEN "window" ELSE "up"
     \/ UNCHANGED usbPc /\ StartUnload
  /\ UNCHANGED <<bus, windows, usbQuit, sock, sem, wnd, mon, mtpSem, recs, handle>>

LoadWindow ==
  /\ mainPc = "window"
  /\ \/ wndPc' = "create" /\ mainPc' = "up"
     \/ UNCHANGED wndPc /\ StartUnload
  /\ UNCHANGED <<bus, windows, usbPc, usbQuit, sock, sem, listening, hMainWnd, doClose,
                 mon, mtpSem, recs, handle>>

UsbUnload ==
  /\ mainPc = "up"
  /\ StartUnload
  /\ UNCHANGED <<bus, windows, usbPc, usbQuit, sock, sem, wnd, mon, mtpSem, recs,
                 handle>>

UsbUnloadClose ==
  /\ MainAt("close", "joinWnd")
  /\ doClose' = (doClose \/ hMainWnd)
  /\ hMainWnd' = FALSE
  /\ UNCHANGED <<bus, windows, usbPc, usbQuit, sock, sem, wndPc, listening, mon, mtpSem,
                 recs, handle>>

UsbUnloadJoinWnd ==
  /\ MainAt("joinWnd", "quit")
  /\ wndPc \in {"none", "exited"}
  /\ UNCHANGED <<bus, windows, usbPc, usbQuit, sock, sem, wnd, mon, mtpSem, recs,
                 handle>>

UsbUnloadQuit ==
  /\ MainAt("quit", "closeSock")
  /\ usbQuit' = TRUE
  /\ sem' = IF windows THEN sem + 1 ELSE sem
  /\ UNCHANGED <<bus, windows, usbPc, sock, wnd, mon, mtpSem, recs, handle>>

\* closesocket(_nlfd): from here on the number may be anybody's.
UsbUnloadSock ==
  /\ MainAt("closeSock", IF sock = "none" THEN "join" ELSE "clearSock")
  /\ sock' = IF sock = "open" THEN "closed" ELSE sock
  /\ events' = (IF windows THEN events ELSE 0) /\ overflow' = FALSE
  /\ UNCHANGED <<onBus, plugCount, pending, deaf, windows, usbPc, usbQuit, sem, wnd,
                 mon, mtpSem, recs, handle>>

UsbUnloadClear ==
  /\ MainAt("clearSock", "join")
  /\ UNCHANGED <<bus, windows, usbPc, usbQuit, sock, sem, wnd, mon, mtpSem, recs,
                 handle>>

\* The closed number is given to a socket of another thread that has nothing
\* to read yet, and that socket gets some. "closed" is any number on which
\* recv returns: nobody's, or a socket's with input. Before the monitor is in
\* recv it makes no difference which it is (see UsbSelect, UsbRecvCall), and
\* after it neither.
OthersReopen ==
  /\ usbPc = "receive" /\ sock = "closed"
  /\ sock' = "reused"
  /\ UNCHANGED <<bus, windows, mainPc, usbPc, usbQuit, sem, wnd, mon, mtpSem, recs,
                 handle>>

OthersInput ==
  /\ usbPc = "receive" /\ sock = "reused"
  /\ sock' = "closed"
  /\ UNCHANGED <<bus, windows, mainPc, usbPc, usbQuit, sem, wnd, mon, mtpSem, recs,
                 handle>>

UsbUnloadJoin ==
  /\ MainAt("join", "down")
  /\ usbPc \in {"none", "exited"}
  /\ UNCHANGED <<bus, windows, usbPc, usbQuit, sock, sem, wnd, mon, mtpSem, recs,
                 handle>>

------------------------------------------------------------------------------
(* UsbDeviceMon::MonThread and WaitUEvent.                                 *)

OnChanged == mtpSem' = mtpSem + 1

UsbTest ==
  /\ usbPc = "test"
  /\ IF usbQuit
       THEN /\ usbPc' = "exited"
            /\ UNCHANGED <<mtpSem, pending, deaf>>
       ELSE /\ usbPc' = IF windows THEN "wait" ELSE "inner"
            /\ OnChanged
            /\ pending' = FALSE /\ deaf' = FALSE
  /\ UNCHANGED <<onBus, plugCount, events, overflow, windows, mainPc, usbQuit, sock,
                 sem, wnd, mon, recs, handle>>

\* Mutant: the loop around WaitUEvent does not look at _bQuit.
UsbInnerBlind ==
  /\ UsbAt("inner", "select")
  /\ UNCHANGED <<bus, windows, mainPc, usbQuit, sock, sem, wnd, mon, mtpSem, recs,
                 handle>>

UsbInner ==
  /\ UsbAt("inner", IF usbQuit THEN "test" ELSE "select")
  /\ UNCHANGED <<bus, windows, mainPc, usbQuit, sock, sem, wnd, mon, mtpSem, recs,
                 handle>>

\* _nlfd # INVALID_SOCKET.
NlfdSet == sock # "none" /\ mainPc \notin {"join", "down"}

\* select returns: with a message; after five seconds without; or, as Unload
\* may have closed the socket before or during the call, with what it finds
\* on the number then, with an error, or, for -1, with anything.
UsbSelect ==
  /\ \/ sock = "open" /\ (events > 0 \/ overflow) /\ UsbAt("select", "recv")
     \/ sock = "open" /\ events = 0 /\ ~overflow /\ UsbAt("select", "inner")
     \/ sock # "open" /\ \E to \in {"recv", "inner", "test"} : UsbAt("select", to)
  /\ UNCHANGED <<bus, windows, mainPc, usbQuit, sock, sem, wnd, mon, mtpSem, recs,
                 handle>>

\* recv is called with the number that is in _nlfd now, or fails with -1.
UsbRecvCall ==
  /\ UsbAt("recv", IF NlfdSet THEN "receive" ELSE "test")
  /\ UNCHANGED <<bus, windows, mainPc, usbQuit, sock, sem, wnd, mon, mtpSem, recs,
                 handle>>

\* recv returns a message, ENOBUFS after an overflow, EBADF, or what another
\* thread's socket has got; everything but a timeout is taken for a change.
UsbRecv ==
  /\ UsbAt("receive", "test")
  /\ sock # "reused"
  /\ events' = IF sock = "open" /\ ~overflow THEN events - 1 ELSE events
  /\ overflow' = FALSE
  /\ UNCHANGED <<onBus, plugCount, pending, deaf, windows, mainPc, usbQuit, sock, sem,
                 wnd, mon, mtpSem, recs, handle>>

\* sem_wait of the Windows build.
UsbWait ==
  /\ UsbAt("wait", "test")
  /\ sem > 0
  /\ sem' = sem - 1
  /\ UNCHANGED <<bus, windows, mainPc, usbQuit, sock, wnd, mon, mtpSem, recs, handle>>

------------------------------------------------------------------------------
(* UsbDeviceMon::WndThread: the window of the Windows build.               *)

\* CreateMainWindow registers for notifications (OnWMCreate), or fails.
WndCreate ==
  /\ WndAt("create", "assign")
  /\ listening' \in BOOLEAN
  /\ UNCHANGED <<bus, usb, hMainWnd, doClose, mon, mtpSem, recs, handle>>

WndAssign ==
  /\ WndAt("assign", "loop")
  /\ hMainWnd' = listening
  /\ UNCHANGED <<bus, usb, listening, doClose, mon, mtpSem, recs, handle>>

\* OnWMDeviceChange.
WndChange ==
  /\ wndPc = "loop" /\ events > 0
  /\ events' = events - 1
  /\ sem' = sem + 1
  /\ UNCHANGED <<onBus, plugCount, overflow, pending, deaf, windows, mainPc, usbPc,
                 usbQuit, sock, wnd, mon, mtpSem, recs, handle>>

\* WM_DO_CLOSE destroys the window, WM_DESTROY ends the loop.
WndClose ==
  /\ WndAt("loop", "exited")
  /\ doClose
  /\ doClose' = FALSE /\ listening' = FALSE
  /\ UNCHANGED <<bus, usb, hMainWnd, mon, mtpSem, recs, handle>>

------------------------------------------------------------------------------
(* MtpDeviceMon::MonThread, EnumDevices and ProcessDevices.                *)

MtpWait ==
  /\ MtpAt("wait", IF mtpQuit THEN "exited" ELSE "detect")
  /\ mtpSem > 0
  /\ mtpSem' = mtpSem - 1
  /\ UNCHANGED <<bus, usb, wnd, mtpQuit, mtpMain, mtpFound, recs, handle>>

\* EnumDevices does nothing on Windows, and nothing if the detection fails,
\* as it may when there is no device.
MtpDetect ==
  /\ \/ ~windows /\ MtpAt("detect", "process") /\ mtpFound' = onBus
     \/ (windows \/ onBus = {}) /\ MtpAt("detect", "wait") /\ UNCHANGED mtpFound
  /\ UNCHANGED <<bus, usb, wnd, mtpQuit, mtpMain, mtpSem, recs, handle>>

\* What remains open when the records of a set are freed.
FreeRec(as) == open \ as

\* Mutant: what is gone is freed, whoever uses it.
MtpProcessAll ==
  /\ MtpAt("process", "init")
  /\ mtpNew' = mtpFound \ list
  /\ failed' = failed \ mtpFound
  /\ list' = list \cap mtpFound
  /\ open' = FreeRec(list \ mtpFound)
  /\ mtpFound' = {}
  /\ UNCHANGED <<bus, usb, wnd, mtpQuit, mtpMain, mtpSem, ref, remove, fails, handle>>

\* The first section of ProcessDevices: a record whose device is gone is
\* freed, or marked if somebody uses it; new devices get a record.
MtpProcess ==
  /\ MtpAt("process", "init")
  /\ mtpNew' = mtpFound \ list
  /\ failed' = failed \ mtpFound
  /\ LET gone == list \ mtpFound
         used == {a \in gone : ref[a] > 0}
     IN /\ list' = (list \cap mtpFound) \cup used
        /\ remove' = remove \cup used
        /\ open' = FreeRec(gone \ used)
  /\ mtpFound' = {}    \* freed, as below what a record held
  /\ UNCHANGED <<bus, usb, wnd, mtpQuit, mtpMain, mtpSem, ref, fails, handle>>

\* InitRec, without the lock; a record that cannot be opened is freed.
MtpInit(a) ==
  /\ mtpPc = "init" /\ a \in mtpNew \ open
  /\ \/ /\ a \in onBus
        /\ open' = open \cup {a}
        /\ UNCHANGED <<mtpNew, failed, fails>>
     \/ /\ a \notin onBus \/ fails < MaxFail
        /\ mtpNew' = mtpNew \ {a}
        /\ failed' = IF a \in onBus THEN failed \cup {a} ELSE failed
        /\ fails' = IF a \in onBus THEN fails + 1 ELSE fails
        /\ UNCHANGED open
  /\ UNCHANGED <<bus, usb, wnd, mon, mtpPc, mtpSem, list, ref, remove, handle>>

\* Mutant: the posts that came meanwhile are taken for handled.
MtpSpliceDrain ==
  /\ MtpAt("init", "wait")
  /\ mtpNew \subseteq open
  /\ list' = list \cup mtpNew
  /\ mtpNew' = {} /\ mtpSem' = 0
  /\ UNCHANGED <<bus, usb, wnd, mtpQuit, mtpMain, mtpFound, ref, remove, open, failed,
                 fails, handle>>

\* The second section of ProcessDevices.
MtpSplice ==
  /\ MtpAt("init", "wait")
  /\ mtpNew \subseteq open
  /\ list' = list \cup mtpNew
  /\ mtpNew' = {}
  /\ UNCHANGED <<bus, usb, wnd, mtpQuit, mtpMain, mtpFound, mtpSem, ref, remove, open,
                 failed, fails, handle>>

------------------------------------------------------------------------------
(* MtpDeviceMon::Unload, once nobody sends files any more.                 *)

MtpUnload ==
  /\ mtpMain = "up" /\ mtpMain' = "join"
  /\ \A u \in User : handle[u] = NoAddr
  /\ mtpQuit' = TRUE
  /\ mtpSem' = mtpSem + 1
  /\ UNCHANGED <<bus, usb, wnd, mtpPc, mtpFound, recs, handle>>

MtpFree ==
  /\ mtpMain = "join" /\ mtpMain' = "down"
  /\ mtpPc = "exited"
  /\ list' = {} /\ open' = FreeRec(list)
  /\ UNCHANGED <<bus, usb, wnd, mtpPc, mtpQuit, mtpFound, mtpSem, mtpNew, ref, remove,
                 failed, fails, handle>>

------------------------------------------------------------------------------
(* AdbCmdPushPullFile::MtpSendFile uses the handle between its calls of    *)
(* GetMtpDevice and ReleaseMtpDevice, and releases it whatever fails.      *)

\* GetMtpDevice finds a record; otherwise adb is used, which changes nothing.
GetMtpDevice(u) ==
  /\ mtpMain = "up" /\ handle[u] = NoAddr
  /\ \E a \in list :
       /\ handle' = [handle EXCEPT ![u] = a]
       /\ ref' = [ref EXCEPT ![a] = @ + 1]
  /\ UNCHANGED <<bus, usb, wnd, mon, mtpSem, mtpNew, list, remove, open, failed, fails>>

ReleaseMtpDevice(u) ==
  /\ handle[u] # NoAddr
  /\ handle' = [handle EXCEPT ![u] = NoAddr]
  /\ LET a == handle[u]
         freed == IF a \in remove /\ ref[a] = 1 THEN {a} ELSE {}
     IN /\ ref' = [ref EXCEPT ![a] = @ - 1]
        /\ list' = list \ freed
        /\ open' = FreeRec(freed)
        /\ remove' = remove \ freed
  /\ UNCHANGED <<bus, usb, wnd, mon, mtpSem, mtpNew, failed, fails>>

------------------------------------------------------------------------------

\* Between the two calls the file is sent; the transfer itself changes nothing.
MtpSendFile(u) == GetMtpDevice(u) \/ ReleaseMtpDevice(u)

Load == LoadSocket \/ LoadThread \/ LoadWindow

UsbUnloadStep ==
  \/ UsbUnloadClose \/ UsbUnloadJoinWnd \/ UsbUnloadQuit \/ UsbUnloadSock
  \/ UsbUnloadClear \/ UsbUnloadJoin

OthersUseNumber == OthersReopen \/ OthersInput

UsbStep == UsbTest \/ UsbInner \/ UsbSelect \/ UsbRecvCall \/ UsbRecv \/ UsbWait

WndStep == WndCreate \/ WndAssign \/ WndChange \/ WndClose

MtpStep ==
  \/ MtpWait \/ MtpDetect \/ MtpProcess \/ MtpSplice
  \/ \E a \in Addr : MtpInit(a)

UsbNext ==
  \/ BusPlug \/ (\E a \in Addr : BusUnplug(a))
  \/ Load \/ UsbUnload \/ UsbUnloadStep \/ OthersUseNumber \/ UsbStep \/ WndStep
  \/ MtpStep \/ MtpUnload \/ MtpFree
  \/ \E u \in User : MtpSendFile(u)

UsbSpec == UsbInit /\ [][UsbNext]_usbVars

\* Threads run, calls of libmtp return; nobody has to plug anything in, send
\* a file or unload a monitor, and no other thread has to open a socket or to
\* get anything on it.
UsbFairness ==
  /\ WF_usbVars(Load \/ UsbUnloadStep) /\ WF_usbVars(UsbStep) /\ WF_usbVars(WndStep)
  /\ WF_usbVars(MtpStep) /\ WF_usbVars(MtpFree)
  /\ \A u \in User : WF_usbVars(ReleaseMtpDevice(u))

UsbFairSpec == UsbSpec /\ UsbFairness

------------------------------------------------------------------------------
(* Properties.                                                             *)

\* A handle that GetMtpDevice has given out is open and its record on the
\* list until it is given back, although the monitor takes records off the
\* list whenever the bus changes and releases some of them without anybody's
\* consent: no use after LIBMTP_Release_Device, and ReleaseMtpDevice finds
\* its record, as it asserts.
HandleLive == \A u \in User : handle[u] # NoAddr => handle[u] \in list \cap open

\* Nothing is kept that nobody needs.  Every open device is on a list, or it
\* would stay open for ever; and a record whose device is gone is kept only as
\* long as somebody uses it: the last one to release it frees it, and whoever
\* finds it in the meantime (GetMtpDevice does not look at the mark) counts.
NothingKept ==
  /\ open \subseteq list \cup mtpNew
  /\ \A a \in list \cap remove : \E u \in User : handle[u] = a

\* A record and its handle live as long as the device is there or in use, and
\* no longer: the count of users decides, whoever is the last to look at it.
RecordsSound == HandleLive /\ NothingKept

\* A change on the bus is followed by OnChanged, also when messages came
\* faster than they were read: unless the monitor has quit, or the window
\* that should have been told was not there yet.
PlugNoticed == []<>(~pending \/ deaf \/ usbQuit)

\* When the bus is quiet, the records are those of the devices plugged in,
\* but for those that could not be opened.  If no device is left, a detection
\* that fails leaves the old records.
MtpSettles ==
  <>[](\/ usbQuit \/ mtpQuit \/ windows \/ onBus = {}
       \/ list \ remove = onBus \ failed)

\* recv waits: there is nothing to read on the number it was called with.
RecvWaits ==
  usbPc = "receive" /\ (sock = "reused" \/ (sock = "open" /\ events = 0 /\ ~overflow))

\* The monitor's recv has no timeout, and no test of _bQuit ends it.  On the
\* netlink socket it is called only after select has found something, and it
\* returns; it waits only for another thread's input, only in Unload, and only
\* if Unload closed the socket after select had returned and the number was
\* opened again before recv looked it up.
WaitsOnlyForOthers ==
  RecvWaits => sock = "reused" /\ usbQuit /\ mainPc \in {"clearSock", "join"}

\* UsbDeviceMon::Unload is under way.
Unloading ==
  mainPc \in {"close", "joinWnd", "quit", "closeSock", "clearSock", "join"}

\* Unload of either monitor returns, whenever it is called: it is never under
\* way for ever.  On Windows only if the window existed when it looked for it;
\* on Linux not if the monitor is in recv on the socket of another thread that
\* got the number Unload has closed, for ever or again and again.
UnloadsReturn ==
  /\ []<>(~Unloading \/ RecvWaits \/ (mainPc = "joinWnd" /\ ~doClose))
  /\ []<>(mtpMain # "join")
==============================================================================
