------------------------- MODULE DeviceCenterProofs -------------------------
(***************************************************************************)
(* Theorems about DeviceCenter, for every set of devices: the types, and   *)
(* that the table shows the devices of the center and their states,        *)
(* whenever DevTableMod registers.  And about UsbMonitor, which tells the  *)
(* monitor of DeviceCenter that the bus has changed: the types, and that   *)
(* the handles of MTP devices are live and none is kept, for every number  *)
(* of users, devices and messages.                                         *)
(***************************************************************************)
EXTENDS DeviceCenter, UsbMonitor, FiniteSetTheorems, TLAPS

------------------------------------------------------------------------------
(* The invariant.                                                          *)

\* The monitor has changed the list of the center and not yet told the
\* observers.
Telling(d) == d = cur /\ monPc \in {"attached", "detached", "unloaded"}

\* The devices of the monitor are those of the center: devList and newList,
\* which is in use only while an enumeration is processed.
Lists ==
  /\ devList \subseteq centerList /\ newList \subseteq centerList
  /\ devList \cap newList = {}
  /\ monPc \notin {"process", "attached", "detached"} => newList = {}
  /\ monPc \notin {"update", "changed"} => toUpdate = {}
  /\ regPc # "loop" => toReport = {}

\* The device the monitor calls back for.
Current ==
  /\ monPc \in {"attached", "detached", "changed", "unloaded"} <=> cur # NoDev
  /\ monPc = "attached" => cur \in centerList /\ state[cur] = BOOTING
  /\ monPc \in {"detached", "unloaded"} => cur \notin centerList
  /\ monPc = "changed" => cur \in centerList /\ state[cur] \in {CHARGER, MAIN}

\* A row shows a device only if the center has it ...
RowsTrue ==
  /\ regPc = "push" => \A d \in Device : row[d] = NoRow
  /\ Registered =>
       \A d \in Device : row[d] \notin {OFF, NoRow} => d \in centerList \/ Telling(d)

\* ... every device that was reported is shown ...
RowsComplete ==
  regPc \in {"loop", "up"} =>
     \A d \in centerList \ toReport : Telling(d) \/ row[d] \notin {OFF, NoRow}

\* ... and with its state, or as booting if RegisterObserver reported it.
RowsCurrent ==
  regPc \in {"loop", "up"} =>
     \A d \in centerList \ toReport :
        d = cur \/ row[d] = state[d] \/ (d \in late /\ row[d] = BOOTING)

DInv == TypeOK /\ Lists /\ Current /\ RowsTrue /\ RowsComplete /\ RowsCurrent

------------------------------------------------------------------------------

\* The center starts in DInv.
LEMMA InitDInv == Init => DInv
<1> SUFFICES ASSUME Init
             PROVE  DInv
  OBVIOUS
<1>1. Cardinality(Device) \in Nat /\ ProbeCount \in Nat /\ MaxPlug \in Nat /\ MaxLag \in Nat
  BY CenterConstants, FS_CardinalityType
<1>2. TypeOK
  <2>1. /\ 0 \in 0 .. MaxPlug /\ 0 \in 0 .. MaxLag /\ 0 \in 0 .. Cardinality(Device) + 1
        /\ 0 \in 0 .. ProbeCount
    BY <1>1
  <2>2. state \in [Device -> OFF .. MAIN] /\ row \in [Device -> OFF .. NoRow]
    BY DEF Init, OFF, MAIN, NoRow
  <2> QED
    BY <2>1, <2>2 DEF Init, TypeOK
<1>3. Lists /\ Current
  BY DEF Init, Lists, Current
<1>4. RowsTrue /\ RowsComplete /\ RowsCurrent
  BY DEF Init, RowsTrue, RowsComplete, RowsCurrent, Registered
<1> QED
  BY <1>2, <1>3, <1>4 DEF DInv

\* The count of the kernel is a number of devices.
LEMMA Counts ==
  ASSUME NEW S \in SUBSET Device
  PROVE  Cardinality(S) \in 0 .. Cardinality(Device) + 1
<1>1. /\ Cardinality(Device) \in Nat /\ Cardinality(S) \in Nat
      /\ Cardinality(S) <= Cardinality(Device)
  BY CenterConstants, FS_CardinalityType, FS_Subset
<1> QED
  BY <1>1

\* Every step of the center preserves DInv.
LEMMA NextDInv == DInv /\ [Next]_vars => DInv'
<1> SUFFICES ASSUME DInv, [Next]_vars
             PROVE  DInv'
  OBVIOUS
<1>c. /\ Cardinality(Device) \in Nat /\ ProbeCount \in Nat /\ MaxPlug \in Nat
      /\ MaxLag \in Nat /\ NoDev \notin Device
  BY CenterConstants, FS_CardinalityType
<1> USE DEF DInv, TypeOK, OFF, BOOTING, CHARGER, MAIN, NoRow, env, probe, update, reg
<1>1. CASE MonWait
  BY <1>1, <1>c DEF MonWait, MonAt, Lists, Current, RowsTrue, RowsComplete,
     RowsCurrent, Telling, Registered
<1>2. CASE MonTimeout
  <2>1. TypeOK'
    BY <1>2, <1>c DEF MonTimeout, MonAt, StartUpdate, Lists, Current
  <2>2. Lists'
    BY <1>2, <1>c DEF MonTimeout, MonAt, StartUpdate, Lists
  <2>3. Current'
    BY <1>2, <1>c DEF MonTimeout, MonAt, StartUpdate, Lists, Current
  <2>4. RowsTrue' /\ RowsComplete'
    BY <1>2, <1>c DEF MonTimeout, MonAt, StartUpdate, Lists, Current, RowsTrue,
       RowsComplete, Telling, Registered
  <2>5. RowsCurrent'
    BY <1>2, <1>c DEF MonTimeout, MonAt, StartUpdate, Lists, Current, RowsTrue,
       RowsComplete, RowsCurrent, Telling, Registered
  <2> QED
    BY <2>1, <2>2, <2>3, <2>4, <2>5
<1>3. CASE MonCount
  BY <1>3, <1>c, Counts DEF MonCount, MonAt, Lists, Current, RowsTrue, RowsComplete,
     RowsCurrent, Telling, Registered
<1>4. CASE MonEnum
  BY <1>4, <1>c DEF MonEnum, MonAt, Lists, Current, RowsTrue, RowsComplete,
     RowsCurrent, Telling, Registered
<1>5. ASSUME NEW d \in Device, ProcessKnown(d)
      PROVE  DInv'
  BY <1>5, <1>c DEF ProcessKnown, Lists, Current, RowsTrue, RowsComplete, RowsCurrent,
     Telling, Registered
<1>6. ASSUME NEW d \in Device, ProcessAttach(d)
      PROVE  DInv'
  BY <1>6, <1>c DEF ProcessAttach, MonAt, DeviceLocked, Lists, Current, RowsTrue,
     RowsComplete, RowsCurrent, Telling, Registered
<1>7. CASE NotifyAttached
  BY <1>7, <1>c DEF NotifyAttached, MonAt, RowAttached, Registered, Lists, Current,
     RowsTrue, RowsComplete, RowsCurrent, Telling
<1>8. ASSUME NEW d \in Device, ProcessDetach(d)
      PROVE  DInv'
  BY <1>8, <1>c DEF ProcessDetach, MonAt, DeviceLocked, Lists, Current, RowsTrue,
     RowsComplete, RowsCurrent, Telling, Registered
<1>9. CASE NotifyDetached
  BY <1>9, <1>c DEF NotifyDetached, MonAt, RowSet, Registered, Lists, Current,
     RowsTrue, RowsComplete, RowsCurrent, Telling
<1>10. CASE ProcessDone
  BY <1>10, <1>c DEF ProcessDone, MonAt, Lists, Current, RowsTrue, RowsComplete,
     RowsCurrent, Telling, Registered
<1>11. CASE MonCheck
  <2>1. TypeOK'
    <3>1. retry' \in 0 .. ProbeCount
      BY <1>11, <1>c DEF MonCheck
    <3>2. cnt' \in 0 .. Cardinality(Device) + 1
      BY <1>11, <1>c DEF MonCheck
    <3>3. toUpdate' \subseteq devList' /\ queryAgain' \in BOOLEAN
      BY <1>11 DEF MonCheck, StartUpdate
    <3> QED
      BY <1>11, <3>1, <3>2, <3>3 DEF MonCheck, MonAt, StartUpdate
  <2>2. Lists'
    BY <1>11, <1>c DEF MonCheck, MonAt, StartUpdate, Lists
  <2>3. Current'
    BY <1>11, <1>c DEF MonCheck, MonAt, StartUpdate, Lists, Current
  <2>4. RowsTrue' /\ RowsComplete'
    BY <1>11, <1>c DEF MonCheck, MonAt, StartUpdate, Lists, Current, RowsTrue,
       RowsComplete, Telling, Registered
  <2>5. RowsCurrent'
    BY <1>11, <1>c DEF MonCheck, MonAt, StartUpdate, Lists, Current, RowsTrue,
       RowsComplete, RowsCurrent, Telling, Registered
  <2> QED
    BY <2>1, <2>2, <2>3, <2>4, <2>5
<1>12. ASSUME NEW d \in Device, UpdateState(d)
      PROVE  DInv'
  <2>1. TypeOK'
    <3>1. state' \in [Device -> OFF .. MAIN]
      BY <1>12 DEF UpdateState
    <3>2. queryAgain' \in BOOLEAN
      BY <1>12, Zenon DEF UpdateState
    <3>3. /\ cur' \in Device \cup {NoDev} /\ toUpdate' \subseteq devList'
          /\ monPc' \in {"update", "changed"}
      BY <1>12 DEF UpdateState
    <3> QED
      BY <1>12, <3>1, <3>2, <3>3 DEF UpdateState
  <2>2. Lists'
    BY <1>12, <1>c DEF UpdateState, Lists
  <2>3. Current'
    BY <1>12, <1>c DEF UpdateState, Lists, Current
  <2>4. RowsTrue' /\ RowsComplete'
    BY <1>12, <1>c DEF UpdateState, Lists, Current, RowsTrue, RowsComplete, Telling,
       Registered
  <2>5. RowsCurrent'
    BY <1>12, <1>c DEF UpdateState, Lists, Current, RowsTrue, RowsComplete,
       RowsCurrent, Telling, Registered
  <2> QED
    BY <2>1, <2>2, <2>3, <2>4, <2>5
<1>13. CASE NotifyChanged
  BY <1>13, <1>c DEF NotifyChanged, MonAt, RowSet, Registered, Lists, Current,
     RowsTrue, RowsComplete, RowsCurrent, Telling
<1>14. CASE UpdateDone
  BY <1>14, <1>c DEF UpdateDone, MonAt, Lists, Current, RowsTrue, RowsComplete,
     RowsCurrent, Telling, Registered
<1>15. CASE UnloadQuit
  BY <1>15, <1>c DEF UnloadQuit, Lists, Current, RowsTrue, RowsComplete, RowsCurrent,
     Telling, Registered
<1>16. CASE UnloadJoin
  BY <1>16, <1>c DEF UnloadJoin, MonAt, Lists, Current, RowsTrue, RowsComplete,
     RowsCurrent, Telling, Registered
<1>17. ASSUME NEW d \in Device, UnloadDetach(d)
      PROVE  DInv'
  BY <1>17, <1>c DEF UnloadDetach, MonAt, DeviceLocked, Lists, Current, RowsTrue,
     RowsComplete, RowsCurrent, Telling, Registered
<1>18. CASE UnloadDone
  BY <1>18, <1>c DEF UnloadDone, MonAt, Lists, Current, RowsTrue, RowsComplete,
     RowsCurrent, Telling, Registered
<1>19. CASE LoadDelete
  BY <1>19, <1>c DEF LoadDelete, RegAt, Lists, Current, RowsTrue, RowsComplete,
     RowsCurrent, Telling, Registered
<1>20. CASE RegisterPush
  BY <1>20, <1>c DEF RegisterPush, RegAt, Lists, Current, RowsTrue, RowsComplete,
     RowsCurrent, Telling, Registered
<1>21. CASE RegisterLock
  BY <1>21, <1>c DEF RegisterLock, RegAt, Lists, Current, RowsTrue, RowsComplete,
     RowsCurrent, Telling, Registered
<1>22. ASSUME NEW d \in Device, RegisterReport(d)
      PROVE  DInv'
  BY <1>22, <1>c DEF RegisterReport, RowAttached, Lists, Current, RowsTrue,
     RowsComplete, RowsCurrent, Telling, Registered
<1>23. CASE RegisterDone
  BY <1>23, <1>c DEF RegisterDone, RegAt, Lists, Current, RowsTrue, RowsComplete,
     RowsCurrent, Telling, Registered
<1>24. CASE UnregisterObserver
  BY <1>24, <1>c DEF UnregisterObserver, RegAt, Lists, Current, RowsTrue,
     RowsComplete, RowsCurrent, Telling, Registered
<1>25. CASE WaitUEvent
  BY <1>25, <1>c DEF WaitUEvent, Lists, Current, RowsTrue, RowsComplete, RowsCurrent,
     Telling, Registered
<1>26. ASSUME NEW d \in Device, Plug(d)
      PROVE  DInv'
  BY <1>26, <1>c DEF Plug, Lists, Current, RowsTrue, RowsComplete, RowsCurrent,
     Telling, Registered
<1>27. ASSUME NEW d \in Device, Boot(d)
      PROVE  DInv'
  BY <1>27, <1>c DEF Boot, Lists, Current, RowsTrue, RowsComplete, RowsCurrent,
     Telling, Registered
<1>28. CASE UNCHANGED vars
  BY <1>28 DEF vars, Lists, Current, RowsTrue, RowsComplete, RowsCurrent, Telling,
     Registered
<1> QED
  BY <1>1, <1>2, <1>3, <1>4, <1>5, <1>6, <1>7, <1>8, <1>9, <1>10, <1>11, <1>12, <1>13,
     <1>14, <1>15, <1>16, <1>17, <1>18, <1>19, <1>20, <1>21, <1>22, <1>23, <1>24, <1>25,
     <1>26, <1>27, <1>28
  DEF Next, MonStep, UnloadStep, RegStep

\* DInv holds in every state.
LEMMA DInvariant == Spec => []DInv
BY InitDInv, NextDInv, PTL DEF Spec

------------------------------------------------------------------------------
(* The theorems.                                                           *)

\* Every variable has its type; in particular what the monitor and the table
\* module are working through are devices of their lists.
THEOREM TypeCorrect == Spec => []TypeOK
<1>1. DInv => TypeOK
  BY DEF DInv
<1> QED
  BY <1>1, DInvariant, PTL

\* Once registered, the table shows exactly the devices of the center, for
\* every set of devices and wherever RegisterObserver came in between.
THEOREM TableComplete == Spec => []TableShowsDevices
<1>1. DInv => TableShowsDevices
  BY DEF DInv, TypeOK, Lists, RowsTrue, RowsComplete, TableShowsDevices, Telling, Registered
<1> QED
  BY <1>1, DInvariant, PTL

\* And it shows their states, but for the devices RegisterObserver reported.
THEOREM TableCurrent == Spec => []TableShowsState
<1>1. DInv => TableShowsState
  BY DEF DInv, TypeOK, Lists, RowsCurrent, TableShowsState
<1> QED
  BY <1>1, DInvariant, PTL

\* The device table says what the center has, for every set of devices.
THEOREM TableIsTrue == Spec => []TableTrue
BY TableComplete, TableCurrent, PTL DEF TableTrue

------------------------------------------------------------------------------
(* The USB and MTP monitors: the theorems about UsbMonitor.                *)

\* Who has a handle of a device.
Holding(a) == {u \in User : handle[u] = a}

\* What only one of the two builds has; a message is there when recv is called
\* on the netlink socket, but for an overflow; and the number of that socket is
\* another's only from when Unload has closed it, which joins the monitor last.
Builds ==
  /\ windows => sock = "none" /\ mainPc # "socket"
  /\ ~windows => wndPc = "none" /\ mainPc \notin {"window", "close", "joinWnd"}
  /\ mainPc = "socket" => usbPc = "none"
  /\ usbPc \in {"recv", "receive"} /\ sock = "open" /\ ~overflow => events > 0
  /\ sock \in {"closed", "reused"} => mainPc \in {"clearSock", "join", "down"}
  /\ mainPc \in {"closeSock", "clearSock", "join", "down"} => usbQuit
  /\ mainPc = "down" => usbPc \in {"none", "exited"}

\* An open device is on exactly one of _DeviceList and NewList, everything on
\* _DeviceList is open, and only records on _DeviceList are marked.
Records ==
  /\ list \subseteq open
  /\ open \subseteq list \cup mtpNew
  /\ list \cap mtpNew = {}
  /\ mtpNew # {} => mtpPc = "init"
  /\ remove \subseteq list

\* Handles are of records on _DeviceList and counted exactly; a marked record
\* has a user, or it would have been freed.
Handles ==
  /\ \A u \in User : handle[u] # NoAddr => handle[u] \in list /\ mtpMain = "up"
  /\ \A a \in remove : Holding(a) # {}
  /\ \A a \in Addr : ref[a] = Cardinality(Holding(a))

\* The types, by kind.
Flags ==
  /\ windows \in BOOLEAN /\ usbQuit \in BOOLEAN /\ overflow \in BOOLEAN
  /\ pending \in BOOLEAN /\ deaf \in BOOLEAN /\ listening \in BOOLEAN
  /\ hMainWnd \in BOOLEAN /\ doClose \in BOOLEAN /\ mtpQuit \in BOOLEAN

Points ==
  /\ mainPc \in {"socket", "thread", "window", "up", "close", "joinWnd", "quit",
                 "closeSock", "clearSock", "join", "down"}
  /\ usbPc \in {"none", "test", "inner", "select", "recv", "receive", "wait", "exited"}
  /\ sock \in {"none", "open", "closed", "reused"}
  /\ wndPc \in {"none", "create", "assign", "loop", "exited"}
  /\ mtpPc \in {"wait", "detect", "process", "init", "exited"}
  /\ mtpMain \in {"up", "join", "down"}

Numbers ==
  /\ plugCount \in 0 .. MaxBus /\ events \in Nat /\ sem \in Nat /\ mtpSem \in Nat
  /\ fails \in 0 .. MaxFail

Sets ==
  /\ onBus \subseteq Addr /\ mtpFound \subseteq Addr /\ mtpNew \subseteq Addr
  /\ list \subseteq Addr /\ remove \subseteq Addr /\ open \subseteq Addr
  /\ failed \subseteq Addr
  /\ ref \in [Addr -> Nat]
  /\ handle \in [User -> Addr \cup {NoAddr}]

Types == Flags /\ Points /\ Numbers /\ Sets

UInv == Types /\ Builds /\ Records /\ Handles

\* There are finitely many users of a device, and none is one that counts zero.
LEMMA HoldingFinite ==
  ASSUME NEW a
  PROVE  /\ IsFiniteSet(Holding(a)) /\ Cardinality(Holding(a)) \in Nat
         /\ Holding(a) = {} <=> Cardinality(Holding(a)) = 0
<1>1. IsFiniteSet(Holding(a))
  BY UsbConstants, FS_Subset DEF Holding
<1> QED
  BY <1>1, FS_CardinalityType, FS_EmptySet

\* What the two monitors do to the bus, the socket and the window leaves the
\* records alone, and the other way round.
LEMMA RecordsSame ==
  ASSUME Records, Handles,
         UNCHANGED <<mtpNew, list, ref, remove, open, handle, mtpPc, mtpMain>>
  PROVE  Records' /\ Handles'
BY DEF Records, Handles, Holding

LEMMA BuildsSame ==
  ASSUME Builds, UNCHANGED <<windows, sock, mainPc, wndPc, usbPc, usbQuit, events, overflow>>
  PROVE  Builds'
BY DEF Builds

Handled == {handle[u] : u \in User}

\* No step of the monitors or of a user disturbs the types of the others.
LEMMA SetsSame ==
  ASSUME Sets, UNCHANGED <<onBus, mtpFound, recs, handle>>
  PROVE  Sets'
BY DEF Sets, recs

LEMMA UsbSideSame ==
  ASSUME Flags, Numbers, UNCHANGED <<bus, usb, wnd>>
  PROVE  /\ mtpQuit' \in BOOLEAN => Flags'
         /\ mtpSem' \in Nat /\ fails' \in 0 .. MaxFail => Numbers'
BY DEF Flags, Numbers, bus, usb, wnd

\* The monitor's own steps leave the users alone.
LEMMA HandlesSame ==
  ASSUME Handles, UNCHANGED <<handle, ref, mtpMain>>, list \cap Handled \subseteq list',
         \A a \in remove' : a \in remove \/ Holding(a) # {}
  PROVE  Handles'
<1>1. \A a : Holding(a)' = Holding(a)
  BY DEF Holding
<1>2. \A u \in User : handle'[u] # NoAddr => handle'[u] \in list' /\ mtpMain' = "up"
  BY DEF Handles, Handled
<1>3. \A a \in remove' : Holding(a)' # {}
  BY <1>1 DEF Handles
<1>4. \A a \in Addr : ref'[a] = Cardinality(Holding(a)')
  BY <1>1 DEF Handles
<1> QED
  BY <1>2, <1>3, <1>4 DEF Handles

\* The invariant holds before the monitors are loaded ...
LEMMA InitUInv == UsbInit => UInv
<1> SUFFICES ASSUME UsbInit PROVE UInv
  OBVIOUS
<1>1. \A a \in Addr : Holding(a) = {}
  BY UsbConstants DEF UsbInit, Holding
<1>2. Types
  <2>1. Flags
    BY DEF UsbInit, Flags
  <2>2. Points /\ Numbers
    BY UsbConstants DEF UsbInit, Points, Numbers
  <2>3. Sets
    BY DEF UsbInit, Sets
  <2> QED
    BY <2>1, <2>2, <2>3 DEF Types
<1>3. Builds /\ Records
  BY DEF UsbInit, Builds, Records
<1>4. Handles
  BY <1>1, FS_EmptySet DEF UsbInit, Handles
<1> QED
  BY <1>2, <1>3, <1>4 DEF UInv

\* ... and every step keeps it.
LEMMA NextUInv == UInv /\ [UsbNext]_usbVars => UInv'
<1> SUFFICES ASSUME UInv, [UsbNext]_usbVars
             PROVE  UInv'
  OBVIOUS
<1>c. /\ MaxBus \in Nat /\ MaxEvents \in Nat \ {0} /\ MaxFail \in Nat
      /\ NoAddr \notin Addr
  BY UsbConstants
<1> USE DEF UInv, Types, bus, usb, wnd, mon, recs
<1>1. CASE BusPlug
  <2>1. Flags'
    BY <1>1 DEF BusPlug, Send, Flags
  <2>2. Points' /\ Numbers'
    BY <1>1, <1>c DEF BusPlug, Send, Points, Numbers, Builds
  <2>3. Sets'
    BY <1>1, <1>c DEF BusPlug, Sets, Numbers, Addr
  <2>4. Builds'
    <3>1. events > 0 => events' > 0
      BY <1>1, <1>c DEF BusPlug, Send, Numbers
    <3>2. overflow => overflow'
      BY <1>1 DEF BusPlug, Send, Flags
    <3>3. UNCHANGED <<windows, sock, mainPc, wndPc, usbPc, usbQuit>>
      BY <1>1 DEF BusPlug
    <3> QED
      BY <3>1, <3>2, <3>3 DEF Builds
  <2>5. UNCHANGED <<mtpNew, list, ref, remove, open, handle, mtpPc, mtpMain>>
    BY <1>1 DEF BusPlug
  <2> QED
    BY <2>1, <2>2, <2>3, <2>4, <2>5, RecordsSame
<1>2. ASSUME NEW a \in Addr, BusUnplug(a)
      PROVE  UInv'
  <2>1. Flags'
    BY <1>2 DEF BusUnplug, Send, Flags
  <2>2. Points' /\ Numbers'
    BY <1>2, <1>c DEF BusUnplug, Send, Points, Numbers, Builds
  <2>3. Sets'
    BY <1>2, <1>c DEF BusUnplug, Sets, Numbers, Addr
  <2>4. Builds'
    <3>1. events > 0 => events' > 0
      BY <1>2, <1>c DEF BusUnplug, Send, Numbers
    <3>2. overflow => overflow'
      BY <1>2 DEF BusUnplug, Send, Flags
    <3>3. UNCHANGED <<windows, sock, mainPc, wndPc, usbPc, usbQuit>>
      BY <1>2 DEF BusUnplug
    <3> QED
      BY <3>1, <3>2, <3>3 DEF Builds
  <2>5. UNCHANGED <<mtpNew, list, ref, remove, open, handle, mtpPc, mtpMain>>
    BY <1>2 DEF BusUnplug
  <2> QED
    BY <2>1, <2>2, <2>3, <2>4, <2>5, RecordsSame
<1>3. CASE LoadSocket
  <2>1. Flags'
    BY <1>3 DEF LoadSocket, StartUnload, Flags
  <2>2. Points' /\ Numbers'
    BY <1>3, <1>c DEF LoadSocket, StartUnload, Points, Numbers, Builds
  <2>3. Sets'
    BY <1>3, SetsSame DEF LoadSocket
  <2>4. Builds'
    <3>1. ~windows /\ UNCHANGED <<windows, wndPc, usbPc, events, overflow>>
      BY <1>3 DEF LoadSocket, Builds
    <3>2. mainPc' \in {"thread", "quit"} /\ usbPc = "none" /\ sock' \in {sock, "open"}
          /\ sock \notin {"closed", "reused"}
      BY <1>3, <3>1 DEF LoadSocket, StartUnload, Builds
    <3> QED
      BY <3>1, <3>2 DEF Builds
  <2>5. UNCHANGED <<mtpNew, list, ref, remove, open, handle, mtpPc, mtpMain>>
    BY <1>3 DEF LoadSocket
  <2> QED
    BY <2>1, <2>2, <2>3, <2>4, <2>5, RecordsSame
<1>4. CASE LoadThread
  <2>1. Flags'
    BY <1>4 DEF LoadThread, StartUnload, Flags
  <2>2. Points' /\ Numbers'
    BY <1>4, <1>c DEF LoadThread, StartUnload, Points, Numbers, Builds
  <2>3. Sets'
    BY <1>4, SetsSame DEF LoadThread
  <2>4. Builds'
    BY <1>4 DEF LoadThread, StartUnload, Points, Numbers, Builds
  <2>5. UNCHANGED <<mtpNew, list, ref, remove, open, handle, mtpPc, mtpMain>>
    BY <1>4 DEF LoadThread
  <2> QED
    BY <2>1, <2>2, <2>3, <2>4, <2>5, RecordsSame
<1>5. CASE LoadWindow
  <2>1. Flags'
    BY <1>5 DEF LoadWindow, StartUnload, Flags
  <2>2. Points' /\ Numbers'
    BY <1>5, <1>c DEF LoadWindow, StartUnload, Points, Numbers, Builds
  <2>3. Sets'
    BY <1>5, SetsSame DEF LoadWindow
  <2>4. Builds'
    BY <1>5 DEF LoadWindow, StartUnload, Points, Numbers, Builds
  <2>5. UNCHANGED <<mtpNew, list, ref, remove, open, handle, mtpPc, mtpMain>>
    BY <1>5 DEF LoadWindow
  <2> QED
    BY <2>1, <2>2, <2>3, <2>4, <2>5, RecordsSame
<1>6. CASE UsbUnload
  <2>1. Flags'
    BY <1>6 DEF UsbUnload, StartUnload, Flags
  <2>2. Points' /\ Numbers'
    BY <1>6, <1>c DEF UsbUnload, StartUnload, Points, Numbers, Builds
  <2>3. Sets'
    BY <1>6, SetsSame DEF UsbUnload
  <2>4. Builds'
    BY <1>6 DEF UsbUnload, StartUnload, Points, Numbers, Builds
  <2>5. UNCHANGED <<mtpNew, list, ref, remove, open, handle, mtpPc, mtpMain>>
    BY <1>6 DEF UsbUnload
  <2> QED
    BY <2>1, <2>2, <2>3, <2>4, <2>5, RecordsSame
<1>7. CASE UsbUnloadClose
  <2>1. Flags'
    BY <1>7 DEF UsbUnloadClose, MainAt, Flags
  <2>2. Points' /\ Numbers'
    BY <1>7, <1>c DEF UsbUnloadClose, MainAt, Points, Numbers, Builds
  <2>3. Sets'
    BY <1>7, SetsSame DEF UsbUnloadClose
  <2>4. Builds'
    BY <1>7 DEF UsbUnloadClose, MainAt, Points, Numbers, Builds
  <2>5. UNCHANGED <<mtpNew, list, ref, remove, open, handle, mtpPc, mtpMain>>
    BY <1>7 DEF UsbUnloadClose
  <2> QED
    BY <2>1, <2>2, <2>3, <2>4, <2>5, RecordsSame
<1>8. CASE UsbUnloadJoinWnd
  <2>1. Flags'
    BY <1>8 DEF UsbUnloadJoinWnd, MainAt, Flags
  <2>2. Points' /\ Numbers'
    BY <1>8, <1>c DEF UsbUnloadJoinWnd, MainAt, Points, Numbers, Builds
  <2>3. Sets'
    BY <1>8, SetsSame DEF UsbUnloadJoinWnd
  <2>4. Builds'
    BY <1>8 DEF UsbUnloadJoinWnd, MainAt, Points, Numbers, Builds
  <2>5. UNCHANGED <<mtpNew, list, ref, remove, open, handle, mtpPc, mtpMain>>
    BY <1>8 DEF UsbUnloadJoinWnd
  <2> QED
    BY <2>1, <2>2, <2>3, <2>4, <2>5, RecordsSame
<1>9. CASE UsbUnloadQuit
  <2>1. Flags'
    BY <1>9 DEF UsbUnloadQuit, MainAt, Flags
  <2>2. Points' /\ Numbers'
    BY <1>9, <1>c DEF UsbUnloadQuit, MainAt, Points, Numbers, Builds
  <2>3. Sets'
    BY <1>9, SetsSame DEF UsbUnloadQuit
  <2>4. Builds'
    BY <1>9 DEF UsbUnloadQuit, MainAt, Points, Numbers, Builds
  <2>5. UNCHANGED <<mtpNew, list, ref, remove, open, handle, mtpPc, mtpMain>>
    BY <1>9 DEF UsbUnloadQuit
  <2> QED
    BY <2>1, <2>2, <2>3, <2>4, <2>5, RecordsSame
<1>10. CASE UsbUnloadSock
  <2>1. Flags'
    BY <1>10 DEF UsbUnloadSock, MainAt, Flags
  <2>2. Points' /\ Numbers'
    BY <1>10, <1>c DEF UsbUnloadSock, MainAt, Points, Numbers, Builds
  <2>3. Sets'
    BY <1>10, SetsSame DEF UsbUnloadSock
  <2>4. Builds'
    BY <1>10 DEF UsbUnloadSock, MainAt, Points, Numbers, Builds
  <2>5. UNCHANGED <<mtpNew, list, ref, remove, open, handle, mtpPc, mtpMain>>
    BY <1>10 DEF UsbUnloadSock
  <2> QED
    BY <2>1, <2>2, <2>3, <2>4, <2>5, RecordsSame
<1>11. CASE UsbUnloadJoin
  <2>1. Flags'
    BY <1>11 DEF UsbUnloadJoin, MainAt, Flags
  <2>2. Points' /\ Numbers'
    BY <1>11, <1>c DEF UsbUnloadJoin, MainAt, Points, Numbers, Builds
  <2>3. Sets'
    BY <1>11, SetsSame DEF UsbUnloadJoin
  <2>4. Builds'
    BY <1>11 DEF UsbUnloadJoin, MainAt, Points, Numbers, Builds
  <2>5. UNCHANGED <<mtpNew, list, ref, remove, open, handle, mtpPc, mtpMain>>
    BY <1>11 DEF UsbUnloadJoin
  <2> QED
    BY <2>1, <2>2, <2>3, <2>4, <2>5, RecordsSame
<1>12. CASE UsbTest
  <2>1. Flags'
    BY <1>12 DEF UsbTest, OnChanged, Flags
  <2>2. Points' /\ Numbers'
    BY <1>12, <1>c DEF UsbTest, OnChanged, Points, Numbers, Builds
  <2>3. Sets'
    BY <1>12, SetsSame DEF UsbTest
  <2>4. Builds'
    BY <1>12 DEF UsbTest, OnChanged, Points, Numbers, Builds
  <2>5. UNCHANGED <<mtpNew, list, ref, remove, open, handle, mtpPc, mtpMain>>
    BY <1>12 DEF UsbTest
  <2> QED
    BY <2>1, <2>2, <2>3, <2>4, <2>5, RecordsSame
<1>13. CASE UsbInner
  <2>1. Flags'
    BY <1>13 DEF UsbInner, UsbAt, Flags
  <2>2. Points' /\ Numbers'
    BY <1>13, <1>c DEF UsbInner, UsbAt, Points, Numbers, Builds
  <2>3. Sets'
    BY <1>13, SetsSame DEF UsbInner
  <2>4. Builds'
    BY <1>13 DEF UsbInner, UsbAt, Points, Numbers, Builds
  <2>5. UNCHANGED <<mtpNew, list, ref, remove, open, handle, mtpPc, mtpMain>>
    BY <1>13 DEF UsbInner
  <2> QED
    BY <2>1, <2>2, <2>3, <2>4, <2>5, RecordsSame
<1>14. CASE UsbSelect
  <2>1. Flags'
    BY <1>14 DEF UsbSelect, UsbAt, Flags
  <2>2. Points' /\ Numbers'
    BY <1>14, <1>c DEF UsbSelect, UsbAt, Points, Numbers, Builds
  <2>3. Sets'
    BY <1>14, SetsSame DEF UsbSelect
  <2>4. Builds'
    BY <1>14 DEF UsbSelect, UsbAt, Points, Numbers, Builds
  <2>5. UNCHANGED <<mtpNew, list, ref, remove, open, handle, mtpPc, mtpMain>>
    BY <1>14 DEF UsbSelect
  <2> QED
    BY <2>1, <2>2, <2>3, <2>4, <2>5, RecordsSame
<1>15. CASE UsbRecv
  <2>1. Flags'
    BY <1>15 DEF UsbRecv, UsbAt, Flags
  <2>2. Points' /\ Numbers'
    BY <1>15, <1>c DEF UsbRecv, UsbAt, Points, Numbers, Builds
  <2>3. Sets'
    BY <1>15, SetsSame DEF UsbRecv
  <2>4. Builds'
    BY <1>15 DEF UsbRecv, UsbAt, Points, Numbers, Builds
  <2>5. UNCHANGED <<mtpNew, list, ref, remove, open, handle, mtpPc, mtpMain>>
    BY <1>15 DEF UsbRecv
  <2> QED
    BY <2>1, <2>2, <2>3, <2>4, <2>5, RecordsSame
<1>16. CASE UsbWait
  <2>1. Flags'
    BY <1>16 DEF UsbWait, UsbAt, Flags
  <2>2. Points' /\ Numbers'
    BY <1>16, <1>c DEF UsbWait, UsbAt, Points, Numbers, Builds
  <2>3. Sets'
    BY <1>16, SetsSame DEF UsbWait
  <2>4. Builds'
    BY <1>16 DEF UsbWait, UsbAt, Points, Numbers, Builds
  <2>5. UNCHANGED <<mtpNew, list, ref, remove, open, handle, mtpPc, mtpMain>>
    BY <1>16 DEF UsbWait
  <2> QED
    BY <2>1, <2>2, <2>3, <2>4, <2>5, RecordsSame
<1>17. CASE WndCreate
  <2>1. Flags'
    BY <1>17 DEF WndCreate, WndAt, Flags
  <2>2. Points' /\ Numbers'
    BY <1>17, <1>c DEF WndCreate, WndAt, Points, Numbers, Builds
  <2>3. Sets'
    BY <1>17, SetsSame DEF WndCreate
  <2>4. Builds'
    BY <1>17 DEF WndCreate, WndAt, Points, Numbers, Builds
  <2>5. UNCHANGED <<mtpNew, list, ref, remove, open, handle, mtpPc, mtpMain>>
    BY <1>17 DEF WndCreate
  <2> QED
    BY <2>1, <2>2, <2>3, <2>4, <2>5, RecordsSame
<1>18. CASE WndAssign
  <2>1. Flags'
    BY <1>18 DEF WndAssign, WndAt, Flags
  <2>2. Points' /\ Numbers'
    BY <1>18, <1>c DEF WndAssign, WndAt, Points, Numbers, Builds
  <2>3. Sets'
    BY <1>18, SetsSame DEF WndAssign
  <2>4. Builds'
    BY <1>18 DEF WndAssign, WndAt, Points, Numbers, Builds
  <2>5. UNCHANGED <<mtpNew, list, ref, remove, open, handle, mtpPc, mtpMain>>
    BY <1>18 DEF WndAssign
  <2> QED
    BY <2>1, <2>2, <2>3, <2>4, <2>5, RecordsSame
<1>19. CASE WndChange
  <2>1. Flags'
    BY <1>19 DEF WndChange, Flags
  <2>2. Points' /\ Numbers'
    BY <1>19, <1>c DEF WndChange, Points, Numbers, Builds
  <2>3. Sets'
    BY <1>19, SetsSame DEF WndChange
  <2>4. Builds'
    BY <1>19 DEF WndChange, Points, Numbers, Builds
  <2>5. UNCHANGED <<mtpNew, list, ref, remove, open, handle, mtpPc, mtpMain>>
    BY <1>19 DEF WndChange
  <2> QED
    BY <2>1, <2>2, <2>3, <2>4, <2>5, RecordsSame
<1>20. CASE WndClose
  <2>1. Flags'
    BY <1>20 DEF WndClose, WndAt, Flags
  <2>2. Points' /\ Numbers'
    BY <1>20, <1>c DEF WndClose, WndAt, Points, Numbers, Builds
  <2>3. Sets'
    BY <1>20, SetsSame DEF WndClose
  <2>4. Builds'
    BY <1>20 DEF WndClose, WndAt, Points, Numbers, Builds
  <2>5. UNCHANGED <<mtpNew, list, ref, remove, open, handle, mtpPc, mtpMain>>
    BY <1>20 DEF WndClose
  <2> QED
    BY <2>1, <2>2, <2>3, <2>4, <2>5, RecordsSame
<1>21. CASE MtpWait
  <2>1. Types' /\ Builds' /\ Records'
    BY <1>21, UsbSideSame, SetsSame, BuildsSame
       DEF MtpWait, MtpAt, Flags, Points, Numbers, Records
  <2>2. Handles'
    BY <1>21, HandlesSame DEF MtpWait
  <2> QED
    BY <2>1, <2>2
<1>22. CASE MtpDetect
  <2>1. Types' /\ Builds' /\ Records'
    <3>1. Sets'
      BY <1>22 DEF MtpDetect, Sets
    <3> QED
      BY <1>22, <3>1, UsbSideSame, BuildsSame
         DEF MtpDetect, MtpAt, Flags, Points, Numbers, Records
  <2>2. Handles'
    BY <1>22, HandlesSame DEF MtpDetect
  <2> QED
    BY <2>1, <2>2
<1>23. CASE MtpProcess
  <2> DEFINE gone == list \ mtpFound
             used == {a \in gone : ref[a] > 0}
  <2>1. /\ list' = (list \cap mtpFound) \cup used
        /\ remove' = remove \cup used
        /\ open' = open \ (gone \ used)
        /\ mtpNew' = mtpFound \ list
        /\ mtpPc' = "init" /\ mtpNew = {}
        /\ UNCHANGED <<handle, ref, mtpMain>>
    BY <1>23 DEF MtpProcess, MtpAt, FreeRec, Records
  <2>2. used \subseteq gone /\ gone \subseteq list
    OBVIOUS
  <2>3. Types' /\ Builds'
    <3>1. Sets'
      BY <1>23, <2>1, <2>2 DEF MtpProcess, Sets
    <3> QED
      BY <1>23, <3>1, UsbSideSame, BuildsSame
         DEF MtpProcess, MtpAt, Flags, Points, Numbers
  <2>4. \A a \in list : ref[a] > 0 <=> Holding(a) # {}
    <3> SUFFICES ASSUME NEW a \in list PROVE ref[a] > 0 <=> Holding(a) # {}
      OBVIOUS
    <3>1. ref[a] = Cardinality(Holding(a))
      BY DEF Handles, Sets
    <3> QED
      BY <3>1, HoldingFinite
  <2>5. list \cap Handled \subseteq list'
    <3> SUFFICES ASSUME NEW u \in User, handle[u] \in list
                 PROVE  handle[u] \in list'
      BY DEF Handled
    <3>1. Holding(handle[u]) # {}
      BY DEF Holding
    <3> QED
      BY <2>1, <2>4, <3>1
  <2>6. remove \cap gone \subseteq used
    BY <2>4 DEF Handles, Records
  <2>7. Records'
    <3> HIDE DEF gone, used
    <3>1. gone = list \ mtpFound
      BY DEF gone
    <3> QED
      BY <2>1, <2>2, <2>6, <3>1 DEF Records
  <2>8. Handles'
    BY <2>1, <2>4, <2>5, HandlesSame
  <2> QED
    BY <2>3, <2>7, <2>8
<1>24. ASSUME NEW a \in Addr, MtpInit(a)
       PROVE  UInv'
  <2>1. Types' /\ Builds' /\ Records'
    <3>1. Sets'
      BY <1>24 DEF MtpInit, Sets
    <3>2. Flags' /\ Numbers'
      BY <1>24, <1>c, UsbSideSame DEF MtpInit, Flags, Numbers
    <3>3. Points' /\ Builds' /\ Records'
      BY <1>24, BuildsSame DEF MtpInit, Points, Records
    <3> QED
      BY <3>1, <3>2, <3>3
  <2>2. Handles'
    BY <1>24, HandlesSame DEF MtpInit
  <2> QED
    BY <2>1, <2>2
<1>25. CASE MtpSplice
  <2>1. Types' /\ Builds' /\ Records'
    <3>1. Sets'
      BY <1>25 DEF MtpSplice, MtpAt, Sets
    <3>2. Flags' /\ Numbers'
      BY <1>25, <1>c, UsbSideSame DEF MtpSplice, MtpAt, Flags, Numbers
    <3>3. Points' /\ Builds'
      BY <1>25, BuildsSame DEF MtpSplice, MtpAt, Points
    <3>4. Records'
      BY <1>25 DEF MtpSplice, Records
    <3> QED
      BY <3>1, <3>2, <3>3, <3>4
  <2>2. Handles'
    BY <1>25, HandlesSame DEF MtpSplice
  <2> QED
    BY <2>1, <2>2
<1>26. CASE MtpUnload
  <2>1. Types' /\ Builds' /\ Records'
    <3>1. Sets'
      BY <1>26 DEF MtpUnload, Sets
    <3>2. Flags' /\ Numbers'
      BY <1>26, <1>c, UsbSideSame DEF MtpUnload, Flags, Numbers
    <3>3. Points' /\ Builds' /\ Records'
      BY <1>26, BuildsSame DEF MtpUnload, Points, Records
    <3> QED
      BY <3>1, <3>2, <3>3
  <2>2. Handles'
    BY <1>26 DEF MtpUnload, Handles, Holding
  <2> QED
    BY <2>1, <2>2
<1>27. CASE MtpFree
  <2>1. \A u \in User : handle[u] = NoAddr
    BY <1>27 DEF MtpFree, Handles
  <2>2. remove = {}
    <3>1. \A a \in remove : a \in Addr
      BY DEF Sets
    <3> QED
      BY <2>1, <1>c, <3>1 DEF Handles, Holding
  <2>3. Types' /\ Builds' /\ Records'
    <3>1. Sets'
      BY <1>27 DEF MtpFree, FreeRec, Sets
    <3>2. Flags' /\ Numbers'
      BY <1>27, UsbSideSame DEF MtpFree, Flags, Numbers
    <3>3. Points' /\ Builds' /\ Records'
      BY <1>27, <2>2, BuildsSame DEF MtpFree, FreeRec, Points, Records
    <3> QED
      BY <3>1, <3>2, <3>3
  <2>4. Handles'
    BY <1>27, <2>1, <2>2 DEF MtpFree, Handles, Holding
  <2> QED
    BY <2>3, <2>4
<1>28. ASSUME NEW u \in User, GetMtpDevice(u)
       PROVE  UInv'
  <2>1. PICK a \in list : /\ handle' = [handle EXCEPT ![u] = a]
                          /\ ref' = [ref EXCEPT ![a] = @ + 1]
    BY <1>28 DEF GetMtpDevice
  <2>2. a \in Addr /\ a # NoAddr /\ handle[u] = NoAddr /\ mtpMain = "up" /\ mtpMain' = "up"
        /\ list' = list /\ remove' = remove
    BY <1>28, <1>c DEF GetMtpDevice, Sets
  <2>3. Types' /\ Builds' /\ Records'
    <3>1. Sets'
      BY <1>28, <2>1, <2>2 DEF GetMtpDevice, Sets
    <3>2. Flags' /\ Numbers'
      BY <1>28, UsbSideSame DEF GetMtpDevice, Flags, Numbers
    <3>3. Points' /\ Builds' /\ Records'
      BY <1>28, BuildsSame DEF GetMtpDevice, Points, Records
    <3> QED
      BY <3>1, <3>2, <3>3
  <2>4. /\ Holding(a)' = Holding(a) \cup {u} /\ u \notin Holding(a)
        /\ \A b \in Addr : b # a => Holding(b)' = Holding(b)
    BY <2>1, <2>2, <1>c DEF Holding, Sets
  <2>5. Cardinality(Holding(a)') = Cardinality(Holding(a)) + 1
    BY <2>4, HoldingFinite, FS_AddElement
  <2>6. \A b \in Addr : ref'[b] = Cardinality(Holding(b)')
    BY <2>1, <2>2, <2>4, <2>5 DEF Handles, Sets
  <2>7. \A v \in User : handle'[v] # NoAddr => handle'[v] \in list' /\ mtpMain' = "up"
    BY <2>1, <2>2 DEF Handles, Sets
  <2>8. \A b \in remove' : Holding(b)' # {}
    BY <2>2, <2>4 DEF Handles, Sets
  <2> QED
    BY <2>3, <2>6, <2>7, <2>8 DEF Handles
<1>29. ASSUME NEW u \in User, ReleaseMtpDevice(u)
       PROVE  UInv'
  <2>a. PICK a \in Addr : a = handle[u]
    BY <1>29 DEF ReleaseMtpDevice, Sets
  <2> DEFINE freed == IF a \in remove /\ ref[a] = 1 THEN {a} ELSE {}
  <2>1. /\ handle' = [handle EXCEPT ![u] = NoAddr]
        /\ ref' = [ref EXCEPT ![a] = @ - 1]
        /\ list' = list \ freed /\ open' = open \ freed /\ remove' = remove \ freed
        /\ UNCHANGED <<mtpNew, mtpPc, mtpMain>>
    BY <1>29, <2>a DEF ReleaseMtpDevice, FreeRec
  <2>2. a \in list /\ a \in Addr /\ mtpMain = "up" /\ freed \subseteq {a}
    BY <1>29, <2>a DEF ReleaseMtpDevice, Handles, Sets
  <2>f. freed = IF a \in remove /\ ref[a] = 1 THEN {a} ELSE {}
    OBVIOUS
  <2> HIDE DEF freed
  <2>4. /\ Holding(a)' = Holding(a) \ {u} /\ u \in Holding(a)
        /\ \A b \in Addr : b # a => Holding(b)' = Holding(b)
    BY <2>1, <2>2, <2>a, <1>c DEF Holding, Sets
  <2>5. Cardinality(Holding(a)') = Cardinality(Holding(a)) - 1
    BY <2>4, HoldingFinite, FS_RemoveElement
  <2>6. ref[a] = Cardinality(Holding(a)) /\ ref[a] \in Nat /\ ref[a] > 0
    BY <2>2, <2>4, HoldingFinite DEF Handles
  <2>3. Types' /\ Builds' /\ Records'
    <3>1. ref' \in [Addr -> Nat] /\ handle' \in [User -> Addr \cup {NoAddr}]
      BY <2>1, <2>2, <2>6 DEF Sets
    <3>2. Sets'
      BY <1>29, <2>1, <3>1 DEF ReleaseMtpDevice, Sets
    <3>3. Flags' /\ Numbers'
      BY <1>29, UsbSideSame DEF ReleaseMtpDevice, Flags, Numbers
    <3>4. Points' /\ Builds'
      BY <1>29, BuildsSame DEF ReleaseMtpDevice, Points
    <3>5. Records'
      BY <2>1, <2>2 DEF Records
    <3> QED
      BY <3>2, <3>3, <3>4, <3>5
  <2>7. \A b \in Addr : ref'[b] = Cardinality(Holding(b)')
    <3>1. \A b \in Addr : ref'[b] = IF b = a THEN ref[a] - 1 ELSE ref[b]
      BY <2>1, <2>2 DEF Sets
    <3> QED
      BY <2>2, <2>4, <2>5, <3>1 DEF Handles
  <2>8. ref[a] = 1 => Holding(a)' = {}
    <3>1. (Holding(a) \ {u}) = {} <=> Cardinality(Holding(a) \ {u}) = 0
      BY HoldingFinite, FS_RemoveElement, FS_EmptySet
    <3> QED
      BY <2>4, <2>5, <2>6, <3>1
  <2>9. \A v \in User : handle'[v] # NoAddr => handle'[v] \in list' /\ mtpMain' = "up"
    <3> SUFFICES ASSUME NEW v \in User, handle'[v] # NoAddr
                 PROVE  handle'[v] \in list' /\ mtpMain' = "up"
      OBVIOUS
    <3>1. v # u /\ handle'[v] = handle[v]
      BY <2>1 DEF Sets
    <3>2. handle[v] \in list /\ mtpMain' = "up"
      BY <2>1, <2>2, <3>1 DEF Handles
    <3>3. handle[v] \notin freed
      BY <2>2, <2>f, <2>8, <3>1 DEF Holding
    <3> QED
      BY <2>1, <3>1, <3>2, <3>3
  <2>10. \A b \in remove' : Holding(b)' # {}
    <3> SUFFICES ASSUME NEW b \in remove' PROVE Holding(b)' # {}
      OBVIOUS
    <3>1. b \in remove /\ b \notin freed /\ b \in Addr
      BY <2>1 DEF Sets
    <3>2. CASE b # a
      BY <2>4, <3>1, <3>2 DEF Handles
    <3>3. CASE b = a
      <4>1. ref[a] # 1
        BY <2>f, <3>1, <3>3
      <4>2. Cardinality(Holding(a) \ {u}) # 0
        BY <2>4, <2>5, <2>6, <4>1
      <4>3. Holding(a) \ {u} # {}
        BY <4>2, FS_EmptySet
      <4> QED
        BY <2>4, <3>3, <4>3
    <3> QED
      BY <3>2, <3>3
  <2> QED
    BY <2>3, <2>7, <2>9, <2>10 DEF Handles
<1>30. CASE UsbUnloadClear
  <2>1. Flags'
    BY <1>30 DEF UsbUnloadClear, MainAt, Flags
  <2>2. Points' /\ Numbers'
    BY <1>30, <1>c DEF UsbUnloadClear, MainAt, Points, Numbers, Builds
  <2>3. Sets'
    BY <1>30, SetsSame DEF UsbUnloadClear
  <2>4. Builds'
    BY <1>30 DEF UsbUnloadClear, MainAt, Points, Numbers, Builds
  <2>5. UNCHANGED <<mtpNew, list, ref, remove, open, handle, mtpPc, mtpMain>>
    BY <1>30 DEF UsbUnloadClear
  <2> QED
    BY <2>1, <2>2, <2>3, <2>4, <2>5, RecordsSame
<1>31. CASE OthersReopen
  <2>1. Flags'
    BY <1>31 DEF OthersReopen, Flags
  <2>2. Points' /\ Numbers'
    BY <1>31, <1>c DEF OthersReopen, Points, Numbers, Builds
  <2>3. Sets'
    BY <1>31, SetsSame DEF OthersReopen
  <2>4. Builds'
    BY <1>31 DEF OthersReopen, Points, Numbers, Builds
  <2>5. UNCHANGED <<mtpNew, list, ref, remove, open, handle, mtpPc, mtpMain>>
    BY <1>31 DEF OthersReopen
  <2> QED
    BY <2>1, <2>2, <2>3, <2>4, <2>5, RecordsSame
<1>32. CASE OthersInput
  <2>1. Flags'
    BY <1>32 DEF OthersInput, Flags
  <2>2. Points' /\ Numbers'
    BY <1>32, <1>c DEF OthersInput, Points, Numbers, Builds
  <2>3. Sets'
    BY <1>32, SetsSame DEF OthersInput
  <2>4. Builds'
    BY <1>32 DEF OthersInput, Points, Numbers, Builds
  <2>5. UNCHANGED <<mtpNew, list, ref, remove, open, handle, mtpPc, mtpMain>>
    BY <1>32 DEF OthersInput
  <2> QED
    BY <2>1, <2>2, <2>3, <2>4, <2>5, RecordsSame
<1>33. CASE UsbRecvCall
  <2>1. Flags'
    BY <1>33 DEF UsbRecvCall, UsbAt, Flags
  <2>2. Points' /\ Numbers'
    BY <1>33, <1>c DEF UsbRecvCall, UsbAt, Points, Numbers, Builds
  <2>3. Sets'
    BY <1>33, SetsSame DEF UsbRecvCall
  <2>4. Builds'
    BY <1>33 DEF UsbRecvCall, UsbAt, Points, Numbers, Builds
  <2>5. UNCHANGED <<mtpNew, list, ref, remove, open, handle, mtpPc, mtpMain>>
    BY <1>33 DEF UsbRecvCall
  <2> QED
    BY <2>1, <2>2, <2>3, <2>4, <2>5, RecordsSame
<1>34. CASE UNCHANGED usbVars
  BY <1>34, BuildsSame, RecordsSame DEF usbVars, Flags, Points, Numbers, Sets
<1> QED
  BY <1>1, <1>2, <1>3, <1>4, <1>5, <1>6, <1>7, <1>8, <1>9, <1>10, <1>11, <1>12, <1>13,
     <1>14, <1>15, <1>16, <1>17, <1>18, <1>19, <1>20, <1>21, <1>22, <1>23, <1>24, <1>25,
     <1>26, <1>27, <1>28, <1>29, <1>30, <1>31, <1>32, <1>33, <1>34
     DEF UsbNext, Load, UsbUnloadStep, OthersUseNumber, UsbStep, WndStep, MtpStep, MtpSendFile

\* Hence it holds in every state.
LEMMA UInvariant == UsbSpec => []UInv
BY InitUInv, NextUInv, PTL DEF UsbSpec

\* Every variable of UsbMonitor keeps its type: no message is taken off an
\* empty socket, and no handle released twice.
THEOREM UsbTypeCorrect == UsbSpec => []UsbTypeOK
<1>1. UInv => UsbTypeOK
  BY DEF UInv, Types, Flags, Points, Numbers, Sets, UsbTypeOK
<1> QED
  BY <1>1, UInvariant, PTL

\* The monitor's recv waits for nothing but input of another thread's socket,
\* once Unload has closed the number and that thread has got it: neither lost
\* messages nor an overflow nor any order of its steps and those of Load and
\* Unload make it wait on the netlink socket, or after Unload has returned.
THEOREM RecvWaitsForOthers == UsbSpec => []WaitsOnlyForOthers
<1>1. UInv => WaitsOnlyForOthers
  BY DEF UInv, Types, Flags, Points, Numbers, Builds, WaitsOnlyForOthers, RecvWaits
<1> QED
  BY <1>1, UInvariant, PTL

\* A handle is open and its record on the list until ReleaseMtpDevice, for any
\* number of users and of changes on the bus.
THEOREM HandlesLive == UsbSpec => []HandleLive
<1>1. UInv => HandleLive
  BY DEF UInv, Records, Handles, HandleLive
<1> QED
  BY <1>1, UInvariant, PTL

\* No device stays open without a record, and no record of a device that is
\* gone without a user.
THEOREM NoRecordKept == UsbSpec => []NothingKept
<1>1. UInv => NothingKept
  BY DEF UInv, Records, Handles, Holding, NothingKept
<1> QED
  BY <1>1, UInvariant, PTL

\* A record lives while its device is there or somebody uses it, for any number
\* of users and of changes on the bus.
THEOREM RecordsCounted == UsbSpec => []RecordsSound
BY HandlesLive, NoRecordKept, PTL DEF RecordsSound
=============================================================================
