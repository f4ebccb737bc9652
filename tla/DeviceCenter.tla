----------------------------- MODULE DeviceCenter -----------------------------
(***************************************************************************)
(* How a device that is plugged in becomes known: the USB monitor          *)
(* (dev/UsbDeviceMon.cpp) wakes the adb monitor (dev/AdbDeviceMon.cpp),    *)
(* which enumerates devices and tells the device center                    *)
(* (dev/DeviceCenter.cpp), which calls its observers; one of them,         *)
(* DevTableMod (db/DevTableMod.cpp), keeps the table `tablets' the peers   *)
(* read.                                                                   *)
(*                                                                         *)
(* The monitor thread calls back with _ObserverLock held.  DevTableMod     *)
(* registers from another thread and is then called back by that thread,   *)
(* with _DeviceLock held, for every device of the list.  An enumeration by *)
(* adb may be behind what is plugged in.                                   *)
(*                                                                         *)
(* Serial numbers are unique, so a SmartDeviceAdb object is named by its   *)
(* serial number: there is one at most, as ProcessDevices keeps the object *)
(* it finds.                                                               *)
(***************************************************************************)
EXTENDS Integers, FiniteSets

CONSTANTS
  Device,     \* serial numbers
  ProbeCount, \* ADB_DEV_PROBE_COUNT, 4: enumerations made for one wake-up
  MaxLag,     \* assumption: enumerations that may be behind after a change
  MaxPlug,    \* bound: changes of what is plugged in
  MayUnload,  \* the application unloads the monitor or the table module
  NoDev

ASSUME CenterConstants ==
  /\ IsFiniteSet(Device) /\ NoDev \notin Device
  /\ MayUnload \in BOOLEAN
  /\ ProbeCount \in Nat /\ MaxPlug \in Nat /\ MaxLag \in 0 .. ProbeCount - 1

VARIABLES
  plugged, booted,   \* devices plugged in; those that have finished booting
  plugs, lag,        \* changes so far; enumerations that may still be behind
  uevents,           \* messages on the netlink socket
  wake,              \* _hWakeEvent of AdbDeviceMon
  monPc, cur,        \* the monitor thread, the device it calls back for
  cnt, retry,        \* dwCnt, nRetry
  found, newList,    \* enumerated devices still to be processed; NewList
  devList,           \* AdbDeviceMon::_DeviceList
  toUpdate,          \* devices UpdateDevicesState has still to look at
  queryAgain, quit,  \* bQueryAgain, _bQuit
  state,             \* _DeviceState
  centerList,        \* DeviceCenter::_DeviceList
  regPc, toReport,   \* DevTableMod::Load and Unload, the rest of its loop
  row,               \* tablets: the column `connected' of each serial number
  late               \* history: objects RegisterObserver has reported

env     == <<plugged, booted, plugs, lag>>
probe   == <<cnt, retry, found, newList>>
update  == <<toUpdate, queryAgain, state>>
reg     == <<regPc, toReport>>
vars == <<env, uevents, wake, monPc, cur, probe, devList, update, quit, centerList,
          reg, row, late>>

OFF == 0   BOOTING == 1   CHARGER == 2   MAIN == 3    \* DEV_STATE
NoRow == 4

TypeOK ==
  /\ plugged \subseteq Device /\ booted \subseteq plugged
  /\ plugs \in 0 .. MaxPlug /\ lag \in 0 .. MaxLag /\ uevents \in Nat /\ wake \in Nat
  /\ monPc \in {"wait", "count", "enum", "process", "attached", "detached", "check",
                "update", "changed", "exited", "unload", "unloaded", "down"}
  /\ cur \in Device \cup {NoDev}
  /\ cnt \in 0 .. Cardinality(Device) + 1 /\ retry \in 0 .. ProbeCount
  /\ found \subseteq Device /\ newList \subseteq Device
  /\ devList \subseteq Device /\ toUpdate \subseteq devList
  /\ queryAgain \in BOOLEAN /\ quit \in BOOLEAN
  /\ state \in [Device -> OFF .. MAIN]
  /\ centerList \subseteq Device /\ late \subseteq Device /\ toReport \subseteq centerList
  /\ regPc \in {"load", "push", "lock", "loop", "up", "off"}
  /\ row \in [Device -> OFF .. NoRow]

Init ==
  /\ plugged = {} /\ booted = {} /\ plugs = 0 /\ lag = 0 /\ uevents = 0
  /\ wake = 1    \* UsbDeviceMon::MonThread begins with OnChanged
  /\ monPc = "wait" /\ cur = NoDev
  /\ cnt = 0 /\ retry = 0 /\ found = {} /\ newList = {} /\ devList = {}
  /\ toUpdate = {} /\ queryAgain = FALSE /\ quit = FALSE
  /\ state = [d \in Device |-> OFF]
  /\ centerList = {} /\ late = {}
  /\ regPc = "load" /\ toReport = {}
  /\ row = [d \in Device |-> MAIN]    \* left by an earlier process

MonAt(from, to) == monPc = from /\ monPc' = to

\* Mutant: RegisterObserver reports from a copy of the list, without the lock.
DeviceNotLocked == FALSE

\* RegisterObserver holds _DeviceLock while it reports the devices.
DeviceLocked == regPc = "loop"

\* DevTableMod is on _ObserverList.
Registered == regPc \in {"lock", "loop", "up"}

------------------------------------------------------------------------------
(* Devices and the USB monitor.                                            *)

\* Bound: what happens to devices once the monitor has stopped is left out.
Watched == monPc \notin {"exited", "unload", "unloaded", "down"}

\* A device is plugged in or unplugged; the kernel sends a message.
Plug(d) ==
  /\ plugs < MaxPlug /\ Watched
  /\ plugs' = plugs + 1
  /\ plugged' = IF d \in plugged THEN plugged \ {d} ELSE plugged \cup {d}
  /\ booted' = booted \ {d}
  /\ lag' = MaxLag
  /\ uevents' = uevents + 1
  /\ UNCHANGED <<wake, monPc, cur, probe, devList, update, quit, centerList, reg, row, late>>

Boot(d) ==
  /\ d \in plugged \ booted /\ Watched
  /\ booted' = booted \cup {d}
  /\ UNCHANGED <<plugged, plugs, lag, uevents, wake, monPc, cur, probe, devList, update,
                 quit, centerList, reg, row, late>>

\* WaitUEvent receives, and the next round of the loop calls OnChanged.
WaitUEvent ==
  /\ uevents > 0
  /\ uevents' = uevents - 1
  /\ wake' = wake + 1
  /\ UNCHANGED <<env, monPc, cur, probe, devList, update, quit, centerList, reg, row, late>>

------------------------------------------------------------------------------
(* The adb monitor: waiting and probing.                                   *)

\* sem_wait or sem_timedwait2 returns with a post.
MonWait ==
  /\ wake > 0
  /\ MonAt("wait", IF quit THEN "exited" ELSE "count")
  /\ wake' = wake - 1
  /\ UNCHANGED <<env, uevents, cur, probe, devList, update, quit, centerList, reg, row, late>>

\* UpdateDevicesState begins.
StartUpdate ==
  /\ toUpdate' = devList
  /\ queryAgain' = FALSE
  /\ UNCHANGED state

\* sem_timedwait2 times out.
MonTimeout ==
  /\ queryAgain /\ wake = 0
  /\ MonAt("wait", IF quit THEN "exited" ELSE "update")
  /\ IF quit THEN UNCHANGED update ELSE StartUpdate
  /\ UNCHANGED <<env, uevents, wake, cur, probe, devList, quit, centerList, reg, row, late>>

\* GetDeviceCount: the kernel's count, or a failure, which is the largest DWORD.
MonCount ==
  /\ MonAt("count", "enum")
  /\ cnt' \in {Cardinality(plugged), Cardinality(Device) + 1}
  /\ retry' = 0
  /\ UNCHANGED <<env, uevents, wake, cur, found, newList, devList, update, quit,
                 centerList, reg, row, late>>

\* EnumDevices: what adb shows, which may be any mixture of what was known
\* and what is plugged in as long as adb is behind.  A failed enumeration
\* changes nothing, as one that shows what was known.
MonEnum ==
  /\ MonAt("enum", "process")
  /\ \/ found' = plugged /\ lag' = 0
     \/ /\ lag > 0 /\ lag' = lag - 1
        /\ found' \in SUBSET (plugged \cup devList)
  /\ newList' = devList
  /\ devList' = {}
  /\ UNCHANGED <<plugged, booted, plugs, uevents, wake, cur, cnt, retry, update, quit,
                 centerList, reg, row, late>>

------------------------------------------------------------------------------
(* ProcessDevices, with OnDeviceAttached and OnDeviceDetached: the list of *)
(* the center is changed in one _DeviceLock section, the observers are     *)
(* called in a later _ObserverLock section.                                *)

ProcessKnown(d) ==
  /\ monPc = "process"
  /\ d \in found \cap newList
  /\ found' = found \ {d}
  /\ newList' = newList \ {d}
  /\ devList' = devList \cup {d}
  /\ UNCHANGED <<env, uevents, wake, monPc, cur, cnt, retry, update, quit, centerList,
                 reg, row, late>>

ProcessAttach(d) ==
  /\ ~DeviceLocked
  /\ MonAt("process", "attached")
  /\ d \in found \ newList
  /\ found' = found \ {d}
  /\ devList' = devList \cup {d}
  /\ state' = [state EXCEPT ![d] = BOOTING]
  /\ centerList' = centerList \cup {d}
  /\ cur' = d
  /\ UNCHANGED <<env, uevents, wake, cnt, retry, newList, toUpdate, queryAgain, quit,
                 reg, row, late>>

\* DevTableMod::OnAttached: "replace into tablets".
RowAttached(d) == row' = [row EXCEPT ![d] = BOOTING]

\* DevTableMod::OnDetached and OnStateChanged: an update of a row that is there.
RowSet(d, v) == row' = [row EXCEPT ![d] = IF @ = NoRow THEN NoRow ELSE v]

NotifyAttached ==
  /\ MonAt("attached", "process")
  /\ IF Registered THEN RowAttached(cur) ELSE UNCHANGED row
  /\ cur' = NoDev
  /\ UNCHANGED <<env, uevents, wake, probe, devList, update, quit, centerList, reg, late>>

\* What is left in NewList is gone.
ProcessDetach(d) ==
  /\ ~DeviceLocked
  /\ found = {}
  /\ MonAt("process", "detached")
  /\ d \in newList
  /\ newList' = newList \ {d}
  /\ centerList' = centerList \ {d}
  /\ cur' = d
  /\ UNCHANGED <<env, uevents, wake, cnt, retry, found, devList, update, quit, reg, row, late>>

NotifyDetached ==
  /\ \/ MonAt("detached", "process")
     \/ MonAt("unloaded", "unload")
  /\ IF Registered THEN RowSet(cur, OFF) ELSE UNCHANGED row
  /\ cur' = NoDev
  /\ state' = [state EXCEPT ![cur] = OFF]    \* the object is given up
  /\ late' = late \ {cur}
  /\ UNCHANGED <<env, uevents, wake, probe, devList, toUpdate, queryAgain, quit,
                 centerList, reg>>

ProcessDone ==
  /\ found = {} /\ newList = {}
  /\ MonAt("process", "check")
  /\ UNCHANGED <<env, uevents, wake, cur, probe, devList, update, quit, centerList, reg,
                 row, late>>

\* Mutant: one enumeration for each wake-up.
MonCheckOnce ==
  /\ MonAt("check", "update")
  /\ StartUpdate
  /\ cnt' = 0 /\ retry' = 0
  /\ UNCHANGED <<env, uevents, wake, cur, found, newList, devList, quit, centerList, reg,
                 row, late>>

\* Mutant: the enumerations are not counted.
MonCheckForever ==
  /\ \/ /\ Cardinality(devList) = cnt
        /\ MonAt("check", "update")
        /\ StartUpdate
        /\ cnt' = 0 /\ retry' = 0
     \/ /\ Cardinality(devList) # cnt
        /\ MonAt("check", "enum")
        /\ UNCHANGED <<cnt, retry, update>>
  /\ UNCHANGED <<env, uevents, wake, cur, found, newList, devList, quit, centerList,
                 reg, row, late>>

\* Another enumeration, unless the number is right or the last one was made.
MonCheck ==
  /\ \/ /\ Cardinality(devList) = cnt \/ retry + 1 = ProbeCount
        /\ MonAt("check", "update")
        /\ StartUpdate
        /\ cnt' = 0 /\ retry' = 0    \* not read before they are set again
     \/ /\ Cardinality(devList) # cnt /\ retry + 1 < ProbeCount
        /\ MonAt("check", "enum")
        /\ retry' = retry + 1
        /\ UNCHANGED <<cnt, update>>
  /\ UNCHANGED <<env, uevents, wake, cur, found, newList, devList, quit, centerList,
                 reg, row, late>>

------------------------------------------------------------------------------
(* UpdateDevicesState, and SmartDeviceAdb::UpdateState.                    *)

\* The property query shows that the device has booted, or not; without an
\* answer the code looks at a buffer that was never written.
UpdateState(d) ==
  /\ monPc = "update" /\ d \in toUpdate
  /\ toUpdate' = toUpdate \ {d}
  /\ \/ state[d] # BOOTING /\ UNCHANGED <<state, queryAgain, monPc, cur>>
     \/ /\ state[d] = BOOTING
        /\ \E s \in {CHARGER, MAIN} : state' = [state EXCEPT ![d] = s]
        /\ monPc' = "changed" /\ cur' = d
        /\ UNCHANGED queryAgain
     \/ /\ state[d] = BOOTING /\ d \notin booted
        /\ queryAgain' = TRUE
        /\ UNCHANGED <<state, monPc, cur>>
  /\ UNCHANGED <<env, uevents, wake, probe, devList, quit, centerList, reg, row, late>>

NotifyChanged ==
  /\ MonAt("changed", "update")
  /\ IF Registered THEN RowSet(cur, state[cur]) ELSE UNCHANGED row
  /\ cur' = NoDev
  /\ UNCHANGED <<env, uevents, wake, probe, devList, update, quit, centerList, reg, late>>

UpdateDone ==
  /\ toUpdate = {}
  /\ MonAt("update", "wait")
  /\ UNCHANGED <<env, uevents, wake, cur, probe, devList, update, quit, centerList, reg,
                 row, late>>

------------------------------------------------------------------------------
(* AdbDeviceMon::Unload, in the main thread once the monitor is joined.    *)

UnloadQuit ==
  /\ MayUnload /\ ~quit
  /\ quit' = TRUE
  /\ wake' = wake + 1
  /\ UNCHANGED <<env, uevents, monPc, cur, probe, devList, update, centerList, reg, row, late>>

UnloadJoin ==
  /\ MonAt("exited", "unload")
  /\ UNCHANGED <<env, uevents, wake, cur, probe, devList, update, quit, centerList, reg,
                 row, late>>

UnloadDetach(d) ==
  /\ ~DeviceLocked
  /\ MonAt("unload", "unloaded")
  /\ d \in devList
  /\ devList' = devList \ {d}
  /\ centerList' = centerList \ {d}
  /\ cur' = d
  /\ UNCHANGED <<env, uevents, wake, probe, update, quit, reg, row, late>>

UnloadDone ==
  /\ devList = {}
  /\ MonAt("unload", "down")
  /\ UNCHANGED <<env, uevents, wake, cur, probe, devList, update, quit, centerList, reg,
                 row, late>>

------------------------------------------------------------------------------
(* DevTableMod::Load, with RegisterObserver, and Unload.                   *)

RegAt(from, to) == regPc = from /\ regPc' = to

\* "delete from tablets".
LoadDelete ==
  /\ RegAt("load", "push")
  /\ row' = [d \in Device |-> NoRow]
  /\ UNCHANGED <<env, uevents, wake, monPc, cur, probe, devList, update, quit,
                 centerList, toReport, late>>

RegisterPush ==
  /\ RegAt("push", "lock")
  /\ UNCHANGED <<env, uevents, wake, monPc, cur, probe, devList, update, quit,
                 centerList, toReport, row, late>>

RegisterLock ==
  /\ RegAt("lock", "loop")
  /\ toReport' = centerList
  /\ UNCHANGED <<env, uevents, wake, monPc, cur, probe, devList, update, quit,
                 centerList, row, late>>

RegisterReport(d) ==
  /\ regPc = "loop" /\ d \in toReport
  /\ toReport' = toReport \ {d}
  /\ late' = late \cup {d}
  /\ RowAttached(d)
  /\ UNCHANGED <<env, uevents, wake, monPc, cur, probe, devList, update, quit,
                 centerList, regPc>>

RegisterDone ==
  /\ RegAt("loop", "up")
  /\ toReport = {}
  /\ UNCHANGED <<env, uevents, wake, monPc, cur, probe, devList, update, quit,
                 centerList, toReport, row, late>>

UnregisterObserver ==
  /\ MayUnload
  /\ RegAt("up", "off")
  /\ late' = {}    \* nobody compares states any more
  /\ UNCHANGED <<env, uevents, wake, monPc, cur, probe, devList, update, quit,
                 centerList, toReport, row>>

------------------------------------------------------------------------------

MonStep ==
  \/ MonWait \/ MonTimeout \/ MonCount \/ MonEnum
  \/ \E d \in Device : ProcessKnown(d) \/ ProcessAttach(d) \/ ProcessDetach(d)
  \/ NotifyAttached \/ NotifyDetached \/ ProcessDone \/ MonCheck
  \/ (\E d \in Device : UpdateState(d)) \/ NotifyChanged \/ UpdateDone

UnloadStep == UnloadJoin \/ (\E d \in Device : UnloadDetach(d)) \/ UnloadDone

RegStep ==
  \/ LoadDelete \/ RegisterPush \/ RegisterLock
  \/ (\E d \in Device : RegisterReport(d)) \/ RegisterDone

Next ==
  \/ MonStep \/ UnloadStep \/ RegStep \/ UnregisterObserver \/ UnloadQuit \/ WaitUEvent
  \/ \E d \in Device : Plug(d) \/ Boot(d)

Spec == Init /\ [][Next]_vars

\* The threads run and adb commands return; nobody has to plug in a device,
\* load the table or unload anything.
Fairness == WF_vars(MonStep \/ UnloadStep) /\ WF_vars(RegStep) /\ WF_vars(WaitUEvent)

FairSpec == Spec /\ Fairness

------------------------------------------------------------------------------
(* Properties.                                                             *)

\* Once DevTableMod is registered its rows show exactly the devices of the
\* center as connected, but for the one the monitor is calling back for:
\* no attach or detach is lost between RegisterObserver and the monitor, which
\* change two lists under two locks.
TableShowsDevices ==
  regPc = "up" =>
    \A d \in Device \ {cur} : row[d] \notin {OFF, NoRow} <=> d \in centerList

\* The row of a device shows its state.  A device that was in its state before
\* DevTableMod was registered is only reported as attached and shown booting,
\* until its state changes; it is never shown in a state it is not in.
TableShowsState ==
  regPc = "up" =>
    \A d \in centerList \ {cur} : row[d] = state[d] \/ (d \in late /\ row[d] = BOOTING)

\* What the peers read in the device table is what the center has.
TableTrue == TableShowsDevices /\ TableShowsState

\* When nothing is plugged in or unplugged any more, the center settles on as
\* many devices as are plugged in, although each change wakes the monitor only
\* once and adb may be behind.
DevicesSettle ==
  <>[](quit \/ Cardinality(centerList) = Cardinality(plugged))

\* Then a device that has booted is shown so, too: the monitor goes on asking as
\* long as one of its devices is booting.
BootShown ==
  <>[](\/ quit \/ regPc # "up"
       \/ \A d \in (centerList \cap booted) \ late : row[d] \in {CHARGER, MAIN})
==============================================================================
