-------------------------- MODULE MuxServerProofs --------------------------
(***************************************************************************)
(* Theorems about MuxServer, for every number of connections and           *)
(* descriptors: the types and the four safety properties.  Then, about     *)
(* LockOrder, for all threads, devices and queues: the locks are taken in  *)
(* one order, so that no threads wait for each other.                      *)
(***************************************************************************)
EXTENDS MuxServer, LockOrder, TLAPS

------------------------------------------------------------------------------
(* The invariant.                                                          *)

\* Each thread's places, and which of the others are there at main's.
Places ==
  /\ pc["mux"] \in {"test", "build", "wait", "select", "lock", "dispatch", "signal",
                    "exited"}
  /\ pc["accept"] \in {"absent", "test", "accept", "create", "start", "register", "post",
                       "drop", "exited"}
  /\ pc["cleanup"] \in {"absent", "wait", "collect", "free", "delete", "post", "exited"}
  /\ pc["main"] \in {"load", "loading", "run", "unload", "joinaccept", "joincleanup",
                     "free", "delete", "post", "joinmux", "down"}
  /\ pc["main"] = "load" => pc["cleanup"] = "absent"
  /\ pc["main"] \in {"load", "loading"} => pc["accept"] = "absent"
  /\ pc["main"] \in {"joincleanup", "free", "delete", "post", "joinmux", "down"} =>
       pc["accept"] \in {"absent", "exited"}
  /\ pc["main"] \in {"free", "delete", "post", "joinmux", "down"} =>
       pc["cleanup"] \in {"absent", "exited"}
  /\ pc["main"] \in {"joinmux", "down"} => clients = {}
  /\ pc["main"] = "down" => pc["mux"] = "exited" /\ closing = {}

\* What the accept thread has not yet registered, and what a thread that
\* frees has unregistered and is about to delete.
Held(i) ==
  i = cur["accept"] /\ pc["accept"] \in {"create", "start", "register", "drop"}
Deleting(i) == \E t \in Freer : i = cur[t] /\ pc[t] = "delete"

\* Every connection is in exactly one of three places, and every one that is
\* registered has its record on exactly one list.
Owners ==
  /\ pc["accept"] \in {"create", "start", "register", "drop"} => cur["accept"] \in Inst
  /\ \A t \in Freer : pc[t] = "delete" => cur[t] \in Inst
  /\ \A i \in Inst :
       /\ i \in alive <=> i \in muxList \/ Held(i) \/ Deleting(i)
       /\ i \in muxList => ~Held(i) /\ ~Deleting(i)
       /\ ~(Held(i) /\ Deleting(i))
       /\ i \in endList <=> i \in muxList /\ i \notin clients
       /\ i \in clients => i \in muxList \/ Held(i)
       /\ Held(i) => (i \in clients <=> pc["accept"] \in {"start", "register"})
  /\ pc["cleanup"] \notin {"free", "delete", "post"} => endList = {}

\* The open descriptors are those of the connections and those that the mux
\* thread is to close, and no two of these are the same.
Descriptors ==
  /\ \A i \in alive : instFd[i] \in Fd \ closing
  /\ \A i, j \in alive : instFd[i] = instFd[j] => i = j
  /\ \A f \in Fd : f \in fdOpen <=> f \in closing \/ \E i \in alive : instFd[i] = f

\* A session that has ended is suspended; it was started.
Sessions ==
  /\ \A i \in Inst : ended[i] => ignore[i] /\ instFd[i] # NoFd /\ ~Held(i)
  /\ \A i \in muxList : handler[i]
  /\ pc["accept"] = "register" => handler[cur["accept"]]

\* What select was given and returned stays open until it is used, and belongs
\* to connections that are not suspended ...
Selected ==
  /\ rdFds \subseteq fdOpen
  /\ rdFds # {} => pc["mux"] \in {"select", "lock"}
  /\ pc["mux"] = "lock" => \A f \in rdFds : input[f] # "none"
  /\ \A i \in alive : instFd[i] \in rdFds => ~ignore[i] /\ ~Held(i)

\* ... and what is dispatched to stays registered.
Dispatched ==
  /\ todo \subseteq muxList
  /\ todo # {} => MuxLocked
  /\ \A i \in todo : ~ended[i] /\ input[instFd[i]] # "none"

MInv ==
  TypeOK /\ Places /\ Owners /\ Descriptors /\ Sessions /\ Selected /\ Dispatched

------------------------------------------------------------------------------

LEMMA InitMInv == Init => MInv
<1> SUFFICES ASSUME Init
             PROVE  MInv
  OBVIOUS
<1> USE MuxConstants DEF Thread, Freer, Init
<1>1. TypeOK
  BY DEF TypeOK
<1>2. Places /\ Owners
  BY DEF Places, Owners, Held, Deleting
<1>3. Descriptors /\ Sessions /\ Selected /\ Dispatched
  BY DEF Descriptors, Sessions, Selected, Dispatched, Held
<1> QED
  BY <1>1, <1>2, <1>3 DEF MInv

LEMMA NextMInv == MInv /\ [Next]_vars => MInv'
<1> SUFFICES ASSUME MInv, [Next]_vars
             PROVE  MInv'
  OBVIOUS
<1> USE MuxConstants DEF MInv, TypeOK, Thread, Freer, At, kernel, instVars, muxVars, serverVars
<1>1. ASSUME NEW f \in Fd, PeerSend(f)
      PROVE  MInv'
  BY <1>1 DEF PeerSend, Places, Owners, Descriptors, Sessions, Selected, Dispatched,
     Held, Deleting, MuxLocked
<1>2. ASSUME NEW f \in Fd, PeerClose(f)
      PROVE  MInv'
  BY <1>2 DEF PeerClose, Places, Owners, Descriptors, Sessions, Selected, Dispatched,
     Held, Deleting, MuxLocked
<1>3. CASE MuxTest
  BY <1>3 DEF MuxTest, CleanupSocketList, Places, Owners, Descriptors, Sessions,
     Selected, Dispatched, Held, Deleting, MuxLocked
<1>4. CASE MuxBuild
  <2>1. TypeOK'
    BY <1>4 DEF MuxBuild, Places, Owners, Descriptors, Held, Deleting
  <2>2. Places'
    BY <1>4 DEF MuxBuild, Places
  <2>3. Owners'
    BY <1>4 DEF MuxBuild, Places, Owners, Sessions, Held, Deleting
  <2>4. Descriptors'
    BY <1>4 DEF MuxBuild, Places, Owners, Descriptors, Held, Deleting
  <2>5. Sessions'
    BY <1>4 DEF MuxBuild, Places, Owners, Sessions, Descriptors, Held, Deleting
  <2>6. Selected'
    BY <1>4 DEF MuxBuild, Places, Owners, Descriptors, Sessions, Selected, Held,
       Deleting
  <2>7. Dispatched'
    BY <1>4 DEF MuxBuild, Places, Owners, Descriptors, Sessions, Selected, Dispatched,
       MuxLocked, Held, Deleting
  <2> QED
    BY <2>1, <2>2, <2>3, <2>4, <2>5, <2>6, <2>7
<1>5. CASE MuxWait
  BY <1>5 DEF MuxWait, Places, Owners, Descriptors, Sessions, Selected, Dispatched,
     Held, Deleting, MuxLocked
<1>6. CASE MuxSelectNothing
  BY <1>6 DEF MuxSelectNothing, Readable, Places, Owners, Descriptors, Sessions,
     Selected, Dispatched, Held, Deleting, MuxLocked
<1>7. CASE MuxSelect
  BY <1>7 DEF MuxSelect, Readable, Places, Owners, Descriptors, Sessions, Selected,
     Dispatched, Held, Deleting, MuxLocked
<1>8. CASE MuxLock
  BY <1>8 DEF MuxLock, Places, Owners, Descriptors, Sessions, Selected, Dispatched,
     Held, Deleting, MuxLocked
<1>9. ASSUME NEW i \in Inst, MuxReceive(i)
      PROVE  MInv'
  BY <1>9 DEF MuxReceive, Places, Owners, Descriptors, Sessions, Selected, Dispatched,
     Held, Deleting, MuxLocked
<1>10. ASSUME NEW i \in Inst, MuxEndSession(i)
      PROVE  MInv'
  BY <1>10 DEF MuxEndSession, Places, Owners, Descriptors, Sessions, Selected,
     Dispatched, Held, Deleting, MuxLocked
<1>11. CASE MuxSignal
  BY <1>11 DEF MuxSignal, Places, Owners, Descriptors, Sessions, Selected, Dispatched,
     Held, Deleting, MuxLocked
<1>12. CASE MuxUnlock
  BY <1>12 DEF MuxUnlock, Places, Owners, Descriptors, Sessions, Selected, Dispatched,
     Held, Deleting, MuxLocked
<1>13. CASE AcceptTest
  BY <1>13 DEF AcceptTest, Places, Owners, Descriptors, Sessions, Selected,
     Dispatched, Held, Deleting, MuxLocked
<1>14. CASE AcceptTimeout
  BY <1>14 DEF AcceptTimeout, Places, Owners, Descriptors, Sessions, Selected,
     Dispatched, Held, Deleting, MuxLocked
<1>15. ASSUME NEW i \in Inst, NEW f \in Fd, AcceptConn(i, f)
      PROVE  MInv'
  BY <1>15 DEF AcceptConn, Places, Owners, Descriptors, Sessions, Selected,
     Dispatched, Held, Deleting, MuxLocked
<1>16. CASE AcceptNoMemory
  BY <1>16 DEF AcceptNoMemory, Places, Owners, Descriptors, Sessions, Selected,
     Dispatched, Held, Deleting, MuxLocked
<1>17. CASE AcceptList
  BY <1>17 DEF AcceptList, Places, Owners, Descriptors, Sessions, Selected,
     Dispatched, Held, Deleting, MuxLocked
<1>18. CASE AcceptStart
  BY <1>18 DEF AcceptStart, Places, Owners, Descriptors, Sessions, Selected,
     Dispatched, Held, Deleting, MuxLocked
<1>19. CASE AcceptRegister
  BY <1>19 DEF AcceptRegister, MuxLocked, Places, Owners, Descriptors, Sessions,
     Selected, Dispatched, Held, Deleting
<1>20. CASE AcceptPost
  BY <1>20 DEF AcceptPost, Places, Owners, Descriptors, Sessions, Selected,
     Dispatched, Held, Deleting, MuxLocked
<1>21. CASE CleanupWait
  BY <1>21 DEF CleanupWait, Places, Owners, Descriptors, Sessions, Selected,
     Dispatched, Held, Deleting, MuxLocked
<1>22. CASE CleanupCollect
  BY <1>22 DEF CleanupCollect, Places, Owners, Descriptors, Sessions, Selected,
     Dispatched, Held, Deleting, MuxLocked
<1>23. CASE CleanupDone
  BY <1>23 DEF CleanupDone, Places, Owners, Descriptors, Sessions, Selected,
     Dispatched, Held, Deleting, MuxLocked
<1>24. ASSUME NEW t \in Freer, NEW i \in Inst, FreeStop(t, i)
      PROVE  MInv'
  BY <1>24 DEF FreeStop, MuxLocked, Pending, Places, Owners, Descriptors, Sessions,
     Selected, Dispatched, Held, Deleting
<1>25. ASSUME NEW t \in Freer, FreeDelete(t)
      PROVE  MInv'
  BY <1>25 DEF FreeDelete, Places, Owners, Descriptors, Sessions, Selected,
     Dispatched, Held, Deleting, MuxLocked
<1>26. ASSUME NEW t \in Freer, FreePost(t)
      PROVE  MInv'
  BY <1>26 DEF FreePost, Places, Owners, Descriptors, Sessions, Selected, Dispatched,
     Held, Deleting, MuxLocked
<1>27. CASE LoadCleanup
  BY <1>27 DEF LoadCleanup, Places, Owners, Descriptors, Sessions, Selected,
     Dispatched, Held, Deleting, MuxLocked
<1>28. CASE LoadAccept
  BY <1>28 DEF LoadAccept, Places, Owners, Descriptors, Sessions, Selected,
     Dispatched, Held, Deleting, MuxLocked
<1>29. CASE Unload
  BY <1>29 DEF Unload, Places, Owners, Descriptors, Sessions, Selected, Dispatched,
     Held, Deleting, MuxLocked
<1>30. CASE UnloadQuit
  BY <1>30 DEF UnloadQuit, Places, Owners, Descriptors, Sessions, Selected,
     Dispatched, Held, Deleting, MuxLocked
<1>31. CASE UnloadJoinAccept
  BY <1>31 DEF UnloadJoinAccept, Places, Owners, Descriptors, Sessions, Selected,
     Dispatched, Held, Deleting, MuxLocked
<1>32. CASE UnloadJoinCleanup
  BY <1>32 DEF UnloadJoinCleanup, Places, Owners, Descriptors, Sessions, Selected,
     Dispatched, Held, Deleting, MuxLocked
<1>33. CASE MuxStop
  BY <1>33 DEF MuxStop, Places, Owners, Descriptors, Sessions, Selected, Dispatched,
     Held, Deleting, MuxLocked
<1>34. CASE MuxJoin
  BY <1>34 DEF MuxJoin, CleanupSocketList, Places, Owners, Descriptors, Sessions,
     Selected, Dispatched, Held, Deleting, MuxLocked
<1>35. CASE UNCHANGED vars
  BY <1>35 DEF vars, Places, Owners, Descriptors, Sessions, Selected, Dispatched, Held,
     Deleting, MuxLocked
<1> QED
  BY <1>1, <1>2, <1>3, <1>4, <1>5, <1>6, <1>7, <1>8, <1>9, <1>10, <1>11, <1>12, <1>13,
     <1>14, <1>15, <1>16, <1>17, <1>18, <1>19, <1>20, <1>21, <1>22, <1>23, <1>24,
     <1>25, <1>26, <1>27, <1>28, <1>29, <1>30, <1>31, <1>32, <1>33, <1>34, <1>35
  DEF Next, MuxStep, AcceptStep, CleanupStep, MainStep, FreeStep

LEMMA MInvariant == Spec => []MInv
BY InitMInv, NextMInv, PTL DEF Spec

------------------------------------------------------------------------------
(* The theorems.                                                           *)

\* Every variable has its type; no semaphore is waited for below zero.
THEOREM TypeCorrect == Spec => []TypeOK
<1>1. MInv => TypeOK
  BY DEF MInv
<1> QED
  BY <1>1, MInvariant, PTL

\* The mux thread never calls recv on a descriptor that was closed, and maybe
\* opened by somebody else, since select reported it.
THEOREM RecvNeverBlocks == Spec => []NeverBlocksInRecv
<1>1. MInv => NeverBlocksInRecv
  BY DEF MInv, Dispatched, NeverBlocksInRecv
<1> QED
  BY <1>1, MInvariant, PTL

\* It dispatches only to connections that live, have their handler and whose
\* session goes on.
THEOREM DispatchesToLive == Spec => []DispatchSafe
<1>1. MInv => DispatchSafe
  BY DEF MInv, TypeOK, Dispatched, Owners, Sessions, DispatchSafe
<1> QED
  BY <1>1, MInvariant, PTL

\* Every record has one owner, who unregisters and deletes its connection once.
THEOREM OneOwner == Spec => []OwnersLive
<1>1. MInv => OwnersLive
  <2> SUFFICES ASSUME MInv
               PROVE  OwnersLive
    OBVIOUS
  <2> USE DEF MInv, TypeOK, Thread, Freer
  <2>1. clients \cup endList \cup muxList \subseteq alive /\ clients \cap endList = {}
    BY DEF Owners
  <2>2. pc["accept"] \in {"create", "start", "register"} => cur["accept"] \in alive
    BY DEF Owners, Held
  <2>3. ASSUME NEW t \in Freer, pc[t] = "delete"
        PROVE  cur[t] \in alive /\ cur[t] \notin clients \cup endList
    BY <2>3 DEF Owners, Held, Deleting
  <2>4. FreesRegistered
    BY DEF Places, Owners, Held, Pending, FreesRegistered
  <2> QED
    BY <2>1, <2>2, <2>3, <2>4 DEF OwnersLive
<1> QED
  BY <1>1, MInvariant, PTL

\* Nothing is left when everything is unloaded.
THEOREM NothingLeft == Spec => []CleanShutdown
<1>1. MInv => CleanShutdown
  BY DEF MInv, TypeOK, Thread, Places, Owners, Descriptors, Held, Deleting, Freer,
         CleanShutdown
<1> QED
  BY <1>1, MInvariant, PTL

\* From Start to the destructor a connection has the threads' use of it in
\* order, for every number of connections and descriptors.
THEOREM ConnectionLife == Spec => []ConnectionsSound
BY DispatchesToLive, OneOwner, NothingLeft, PTL DEF ConnectionsSound

------------------------------------------------------------------------------
(* The order of the locks: definitions and the invariant of LockOrder.     *)

\* The rank of a mutex: a thread takes mutexes in the order of their ranks.
Rank(m) ==
  IF m[1] \in {"mux", "client", "center"} THEN 1
  ELSE IF m[1] = "device" THEN 2
  ELSE IF m[1] = "exec" THEN 4 ELSE 3

\* The functions of the code, and the lowest rank each may take: it is called
\* with mutexes of lower rank held only.
Functions ==
  Routines \cup {<<"InsertApps">>, <<"ReportDevices">>, <<"FetchRows">>, <<"Dispatch">>,
                 <<"FreeEnded">>, <<"DropDevices">>, <<"UnloadCenter">>, <<"DrainClients">>}
    \cup {<<"QueueCmd", d>> : d \in Devices} \cup {<<"Release", d>> : d \in Devices}
    \cup {<<"Drain", q>> : q \in Queues}
    \cup {<<"Execute", d, q>> : d \in Devices, q \in Queues}
    \cup {<<"RunCmds", d, q>> : d \in Devices, q \in Queues}

Level(f) ==
  IF f[1] \in {"QueueCmd", "Release", "InsertApps", "ReportDevices"} THEN 3
  ELSE IF f[1] = "Dispatch" THEN 2 ELSE 1

Mains(ro) == {t \in Threads : ro[t] = <<"Main">>}

Steps ==
  {Take(m) : m \in Mutexes} \cup {Give(m) : m \in Mutexes} \cup {Call(f) : f \in Functions}
    \cup {<<"quit", T>> : T \in SUBSET Threads} \cup {<<"join", T>> : T \in SUBSET Threads}

\* All mutexes of a are of a rank lower than k.
Below(a, k) == \A m \in a : Rank(m) < k

\* Thread t, holding a, may take step e, and holds b after it.
Does(ro, t, a, e, b) ==
  \/ \E m \in Mutexes : e = Take(m) /\ Below(a, Rank(m)) /\ b = a \cup {m}
  \/ \E m \in Mutexes : e = Give(m) /\ m \in a /\ b = a \ {m}
  \/ \E f \in Functions :
       e = Call(f) /\ Below(a, Level(f)) /\ b = a /\ (f = <<"Main">> => t \in Mains(ro))
  \/ \E T \in SUBSET Threads : e = <<"quit", T>> /\ b = a
  \/ \E T \in SUBSET Threads :
       e = <<"join", T>> /\ a = {} /\ b = {} /\ t \in Mains(ro) /\ T \cap Mains(ro) = {}

\* What is held before each step of p, and after the last.
Holds(ro, t, p, s) == \A i \in 1 .. Len(p) : Does(ro, t, s[i], p[i], s[i + 1])

\* Thread t, holding a, may take path p, and holds b after it.
Path(ro, t, a, p, b) ==
  /\ p \in Seq(Steps)
  /\ \E s \in [1 .. Len(p) + 1 -> SUBSET Mutexes] :
       s[1] = a /\ s[Len(p) + 1] = b /\ Holds(ro, t, p, s)

\* Wherever all that is held is below k, t may take p and holds the same after it.
Sound(ro, t, k, p) == \A a \in SUBSET Mutexes : Below(a, k) => Path(ro, t, a, p, a)

LInv ==
  /\ routine \in [Threads -> Routines]
  /\ plan \in [Threads -> Seq(Steps)]
  /\ held \in [Threads -> SUBSET Mutexes]
  /\ told \subseteq Threads
  /\ \A t \in Threads : Path(routine, t, held[t], plan[t], {})

------------------------------------------------------------------------------
(* Paths: how they are put together and taken apart.                      *)

\* Doing nothing changes nothing ...
LEMMA PathEmpty ==
  ASSUME NEW t, NEW a \in SUBSET Mutexes
  PROVE  Path(routine, t, a, <<>>, a)
<1> DEFINE s == [i \in 1 .. 1 |-> a]
<1>1. s \in [1 .. Len(<<>>) + 1 -> SUBSET Mutexes] /\ s[1] = a /\ s[Len(<<>>) + 1] = a
  OBVIOUS
<1>2. Holds(routine, t, <<>>, s)
  BY DEF Holds
<1>3. <<>> \in Seq(Steps)
  OBVIOUS
<1> QED
  BY <1>1, <1>2, <1>3 DEF Path

\* ... and that is all it does.
LEMMA PathOver ==
  ASSUME NEW t, NEW a, NEW b, Path(routine, t, a, <<>>, b)
  PROVE  a = b
BY DEF Path

\* A single step is a path.
LEMMA PathStep ==
  ASSUME NEW t, NEW a \in SUBSET Mutexes, NEW b \in SUBSET Mutexes, NEW e \in Steps,
         Does(routine, t, a, e, b)
  PROVE  Path(routine, t, a, <<e>>, b)
<1> DEFINE s == [i \in 1 .. 2 |-> IF i = 1 THEN a ELSE b]
           p == <<e>>
<1>1. p \in Seq(Steps) /\ Len(p) = 1 /\ p[1] = e
  OBVIOUS
<1>2. s \in [1 .. 2 -> SUBSET Mutexes] /\ s[1] = a /\ s[2] = b
  OBVIOUS
<1> HIDE DEF s, p
<1>3. Holds(routine, t, p, s)
  BY <1>1, <1>2 DEF Holds
<1>4. Path(routine, t, a, p, b)
  BY <1>1, <1>2, <1>3 DEF Path
<1> QED
  BY <1>4 DEF p

\* Paths can be joined where what is held after the one is held before the other.
LEMMA PathConcat ==
  ASSUME NEW t, NEW a, NEW b, NEW c, NEW p, NEW r, Path(routine, t, a, p, b), Path(routine, t, b, r, c)
  PROVE  Path(routine, t, a, p \o r, c)
<1>1. p \in Seq(Steps) /\ r \in Seq(Steps)
  BY DEF Path
<1>2. PICK s \in [1 .. Len(p) + 1 -> SUBSET Mutexes] :
        s[1] = a /\ s[Len(p) + 1] = b /\ Holds(routine, t, p, s)
  BY DEF Path
<1>3. PICK z \in [1 .. Len(r) + 1 -> SUBSET Mutexes] :
        z[1] = b /\ z[Len(r) + 1] = c /\ Holds(routine, t, r, z)
  BY DEF Path
<1> DEFINE w == p \o r
           n == Len(p)
           y == [i \in 1 .. Len(w) + 1 |-> IF i <= n THEN s[i] ELSE z[i - n]]
<1>4. /\ w \in Seq(Steps) /\ n \in Nat /\ Len(r) \in Nat /\ Len(w) = n + Len(r)
      /\ \A i \in 1 .. n : w[i] = p[i]
      /\ \A i \in n + 1 .. Len(w) : w[i] = r[i - n]
  BY <1>1
<1>5. /\ y \in [1 .. Len(w) + 1 -> SUBSET Mutexes]
      /\ \A i \in 1 .. n + 1 : y[i] = s[i]
      /\ \A i \in n + 1 .. Len(w) + 1 : y[i] = z[i - n]
  BY <1>2, <1>3, <1>4
<1> HIDE DEF w, y, n
<1>6. y[1] = a /\ y[Len(w) + 1] = c
  BY <1>2, <1>3, <1>4, <1>5
<1>7. ASSUME NEW i \in 1 .. Len(w)
      PROVE  Does(routine, t, y[i], w[i], y[i + 1])
  <2>1. CASE i <= n
    <3>1. i \in 1 .. n /\ y[i] = s[i] /\ y[i + 1] = s[i + 1] /\ w[i] = p[i]
      BY <2>1, <1>4, <1>5
    <3> QED
      BY <3>1, <1>2 DEF Holds, n
  <2>2. CASE i > n
    <3>1. i - n \in 1 .. Len(r) /\ y[i] = z[i - n] /\ w[i] = r[i - n]
      BY <2>2, <1>4, <1>5
    <3>2. y[i + 1] = z[(i - n) + 1]
      BY <2>2, <1>4, <1>5
    <3> QED
      BY <3>1, <3>2, <1>3 DEF Holds
  <2> QED
    BY <2>1, <2>2, <1>4
<1>8. Path(routine, t, a, w, c)
  BY <1>4, <1>5, <1>6, <1>7 DEF Path, Holds
<1> QED
  BY <1>8 DEF w

\* The first step of a path, and the path that is left.
LEMMA PathHead ==
  ASSUME NEW t, NEW a, NEW b, NEW p, Path(routine, t, a, p, b), p # <<>>
  PROVE  \E c \in SUBSET Mutexes : Does(routine, t, a, Head(p), c) /\ Path(routine, t, c, Tail(p), b)
<1>1. p \in Seq(Steps)
  BY DEF Path
<1>2. PICK s \in [1 .. Len(p) + 1 -> SUBSET Mutexes] :
        s[1] = a /\ s[Len(p) + 1] = b /\ Holds(routine, t, p, s)
  BY DEF Path
<1> DEFINE w == Tail(p)
           y == [i \in 1 .. Len(w) + 1 |-> s[i + 1]]
<1>3. /\ w \in Seq(Steps) /\ Len(p) \in Nat /\ Len(p) > 0 /\ Len(w) = Len(p) - 1
      /\ Head(p) = p[1] /\ \A i \in 1 .. Len(w) : w[i] = p[i + 1]
  BY <1>1
<1>4. /\ y \in [1 .. Len(w) + 1 -> SUBSET Mutexes]
      /\ \A i \in 1 .. Len(w) + 1 : y[i] = s[i + 1]
  BY <1>2, <1>3
<1> HIDE DEF w, y
<1>5. y[1] = s[2] /\ y[Len(w) + 1] = b /\ s[2] \in SUBSET Mutexes
  BY <1>2, <1>3, <1>4
<1>6. ASSUME NEW i \in 1 .. Len(w)
      PROVE  Does(routine, t, y[i], w[i], y[i + 1])
  <2>1. i + 1 \in 1 .. Len(p) /\ y[i] = s[i + 1] /\ y[i + 1] = s[(i + 1) + 1] /\ w[i] = p[i + 1]
    BY <1>3, <1>4
  <2> QED
    BY <2>1, <1>2 DEF Holds
<1>7. Path(routine, t, s[2], w, b)
  BY <1>3, <1>4, <1>5, <1>6 DEF Path, Holds
<1>8. Does(routine, t, a, Head(p), s[2])
  <2>1. 1 \in 1 .. Len(p) /\ 1 + 1 = 2
    BY <1>3
  <2>2. Does(routine, t, s[1], p[1], s[1 + 1])
    BY <2>1, <1>2 DEF Holds
  <2> QED
    BY <2>1, <2>2, <1>2, <1>3
<1> QED
  BY <1>5, <1>7, <1>8 DEF w

------------------------------------------------------------------------------
(* Paths that give up what they take.                                     *)

\* Every mutex has a rank.
LEMMA RankType ==
  ASSUME NEW m \in Mutexes
  PROVE  Rank(m) \in 1 .. 4
BY DEF Rank

\* The order of the locks.
LEMMA Ranks ==
  /\ MuxMutex \in Mutexes /\ Rank(MuxMutex) = 1
  /\ ClientMutex \in Mutexes /\ Rank(ClientMutex) = 1
  /\ CenterMutex \in Mutexes /\ Rank(CenterMutex) = 1
  /\ DeviceMutex \in Mutexes /\ Rank(DeviceMutex) = 2
  /\ DbMutex \in Mutexes /\ Rank(DbMutex) = 3
  /\ \A b \in Tabs : ObserverMutex(b) \in Mutexes /\ Rank(ObserverMutex(b)) = 3
  /\ \A d \in Devices, q \in Queues : CmdMutex(d, q) \in Mutexes /\ Rank(CmdMutex(d, q)) = 3
  /\ \A q \in Queues : ExecMutex(q) \in Mutexes /\ Rank(ExecMutex(q)) = 4
<1>1. /\ Rank(MuxMutex) = 1 /\ Rank(ClientMutex) = 1 /\ Rank(CenterMutex) = 1
      /\ Rank(DeviceMutex) = 2 /\ Rank(DbMutex) = 3
  BY DEF Rank, MuxMutex, ClientMutex, CenterMutex, DeviceMutex, DbMutex
<1>2. \A b : Rank(ObserverMutex(b)) = 3
  BY DEF Rank, ObserverMutex
<1>3. \A d, q : Rank(CmdMutex(d, q)) = 3
  BY DEF Rank, CmdMutex
<1>4. \A q : Rank(ExecMutex(q)) = 4
  BY DEF Rank, ExecMutex
<1> QED
  BY <1>1, <1>2, <1>3, <1>4 DEF Mutexes

\* Doing nothing is sound at every level, ...
LEMMA SoundEmpty ==
  ASSUME NEW t, NEW k
  PROVE  Sound(routine, t, k, <<>>)
BY PathEmpty DEF Sound

\* ... one sound path after another, ...
LEMMA SoundConcat ==
  ASSUME NEW t, NEW k, NEW p, NEW r, Sound(routine, t, k, p), Sound(routine, t, k, r)
  PROVE  Sound(routine, t, k, p \o r)
BY PathConcat DEF Sound

\* ... a critical section whose body takes higher ranks only, ...
LEMMA SoundSection ==
  ASSUME NEW t, NEW k \in Int, NEW m \in Mutexes, k <= Rank(m), NEW p,
         Sound(routine, t, Rank(m) + 1, p)
  PROVE  Sound(routine, t, k, Section(m, p))
<1> SUFFICES ASSUME NEW a \in SUBSET Mutexes, Below(a, k)
             PROVE  Path(routine, t, a, Section(m, p), a)
  BY DEF Sound
<1>1. Rank(m) \in Int
  BY RankType
<1>2. \A n \in a : Rank(n) \in Int /\ Rank(n) < k
  BY RankType DEF Below
<1>3. Below(a, Rank(m)) /\ Below(a \cup {m}, Rank(m) + 1) /\ m \notin a
  BY <1>1, <1>2 DEF Below
<1>4. Does(routine, t, a, Take(m), a \cup {m}) /\ Take(m) \in Steps
  BY <1>3 DEF Does, Steps
<1>5. Does(routine, t, a \cup {m}, Give(m), a) /\ Give(m) \in Steps
  BY <1>3 DEF Does, Steps
<1>6. Path(routine, t, a, <<Take(m)>>, a \cup {m}) /\ Path(routine, t, a \cup {m}, <<Give(m)>>, a)
  BY <1>4, <1>5, PathStep
<1>7. Path(routine, t, a \cup {m}, p, a \cup {m})
  BY <1>3 DEF Sound
<1>8. Path(routine, t, a, <<Take(m)>> \o p, a \cup {m})
  BY <1>6, <1>7, PathConcat
<1>9. Path(routine, t, a, (<<Take(m)>> \o p) \o <<Give(m)>>, a)
  BY <1>6, <1>8, PathConcat
<1> QED
  BY <1>9 DEF Section

\* ... a call of a function that takes this rank or higher ones, ...
LEMMA SoundCall ==
  ASSUME NEW t, NEW k \in Int, NEW f \in Functions, k <= Level(f),
         f = <<"Main">> => t \in Mains(routine)
  PROVE  Sound(routine, t, k, <<Call(f)>>)
<1> SUFFICES ASSUME NEW a \in SUBSET Mutexes, Below(a, k)
             PROVE  Path(routine, t, a, <<Call(f)>>, a)
  BY DEF Sound
<1>1. \A n \in a : Rank(n) \in Int /\ Rank(n) < k
  BY RankType DEF Below
<1>2. Level(f) \in Int
  BY DEF Level
<1>3. Below(a, Level(f))
  BY <1>1, <1>2 DEF Below
<1>4. Does(routine, t, a, Call(f), a) /\ Call(f) \in Steps
  BY <1>3 DEF Does, Steps
<1> QED
  BY <1>4, PathStep

\* ... steps that are sound each ...
LEMMA SoundEach ==
  ASSUME NEW t, NEW k, NEW p \in Seq(Steps), \A i \in 1 .. Len(p) : Sound(routine, t, k, <<p[i]>>)
  PROVE  Sound(routine, t, k, p)
<1> SUFFICES ASSUME NEW a \in SUBSET Mutexes, Below(a, k)
             PROVE  Path(routine, t, a, p, a)
  BY DEF Sound
<1> DEFINE s == [i \in 1 .. Len(p) + 1 |-> a]
<1>1. ASSUME NEW e, Path(routine, t, a, <<e>>, a)
      PROVE  Does(routine, t, a, e, a)
  <2>1. <<e>> # <<>> /\ Head(<<e>>) = e /\ Tail(<<e>>) = <<>>
    OBVIOUS
  <2>2. \E c \in SUBSET Mutexes : Does(routine, t, a, e, c) /\ Path(routine, t, c, <<>>, a)
    BY <1>1, <2>1, PathHead
  <2> QED
    BY <2>2, PathOver
<1>2. /\ Len(p) \in Nat /\ s \in [1 .. Len(p) + 1 -> SUBSET Mutexes]
      /\ \A i \in 1 .. Len(p) + 1 : s[i] = a
  OBVIOUS
<1> HIDE DEF s
<1>3. ASSUME NEW i \in 1 .. Len(p)
      PROVE  Does(routine, t, s[i], p[i], s[i + 1])
  <2>1. Does(routine, t, a, p[i], a)
    BY <1>1 DEF Sound
  <2>2. s[i] = a /\ s[i + 1] = a
    BY <1>2
  <2> QED
    BY <2>1, <2>2
<1>4. s[1] = a /\ s[Len(p) + 1] = a
  BY <1>2
<1> QED
  BY <1>2, <1>3, <1>4 DEF Path, Holds

\* ... and to stop and join others, with nothing held, unless main is among them.
LEMMA SoundStop ==
  ASSUME NEW t \in Mains(routine), NEW rs, <<"Main">> \notin rs
  PROVE  Sound(routine, t, 1, Stop(rs))
<1> DEFINE T == Created(rs)
           e == <<"quit", T>>
           j == <<"join", T>>
<1>1. T \in SUBSET Threads /\ T \cap Mains(routine) = {}
  BY DEF Created, Mains
<1> HIDE DEF T
<1>2. e \in Steps /\ j \in Steps
  BY <1>1 DEF Steps
<1>3. ASSUME NEW a \in SUBSET Mutexes, Below(a, 1)
      PROVE  Path(routine, t, a, <<e>>, a) /\ Path(routine, t, a, <<j>>, a)
  <2>1. \A m \in a : Rank(m) \in 1 .. 4 /\ Rank(m) < 1
    BY <1>3, RankType DEF Below
  <2>2. a = {}
    BY <2>1
  <2>3. Does(routine, t, a, e, a) /\ Does(routine, t, a, j, a)
    BY <1>1, <2>2 DEF Does
  <2> HIDE DEF e, j
  <2> QED
    BY <1>2, <2>3, PathStep
<1> DEFINE p == <<e, j>>
<1> HIDE DEF e, j
<1>4. p \in Seq(Steps) /\ Len(p) = 2 /\ p[1] = e /\ p[2] = j
  BY <1>2
<1>5. Sound(routine, t, 1, <<e>>) /\ Sound(routine, t, 1, <<j>>)
  BY <1>3 DEF Sound
<1> HIDE DEF p
<1>6. Sound(routine, t, 1, p)
  BY <1>4, <1>5, SoundEach
<1> QED
  BY <1>6 DEF Stop, p, e, j, T

\* What a thread is about to call is a function of the code, allowed here.
LEMMA CallKnown ==
  ASSUME LInv, NEW t \in Threads, NEW f, plan[t] # <<>>, Head(plan[t]) = Call(f)
  PROVE  /\ f \in Functions /\ Below(held[t], Level(f)) /\ (f = <<"Main">> => t \in Mains(routine))
         /\ Path(routine, t, held[t], Tail(plan[t]), {})
<1>1. PICK c \in SUBSET Mutexes :
        Does(routine, t, held[t], Head(plan[t]), c) /\ Path(routine, t, c, Tail(plan[t]), {})
  BY PathHead DEF LInv
<1>2. PICK g \in Functions :
        Call(f) = Call(g) /\ Below(held[t], Level(g)) /\ c = held[t]
          /\ (g = <<"Main">> => t \in Mains(routine))
  BY <1>1 DEF Does, Call, Take, Give
<1>3. f = g
  BY <1>2 DEF Call
<1> QED
  BY <1>1, <1>2, <1>3

\* A function keeps the invariant if each of its paths is sound at its level.
LEMMA GoesSound ==
  ASSUME LInv, NEW t \in Threads, NEW f, NEW paths, Goes(t, f, paths),
         \A p \in paths : Sound(routine, t, Level(f), p)
  PROVE  LInv'
<1>1. /\ Below(held[t], Level(f)) /\ Path(routine, t, held[t], Tail(plan[t]), {})
      /\ held[t] \in SUBSET Mutexes
  BY CallKnown DEF Goes, LInv
<1>2. PICK p \in paths : plan' = [plan EXCEPT ![t] = p \o Tail(plan[t])]
  BY DEF Goes
<1>3. Path(routine, t, held[t], p, held[t])
  BY <1>1, <1>2 DEF Sound
<1>4. Path(routine, t, held[t], p \o Tail(plan[t]), {})
  BY <1>1, <1>3, PathConcat
<1>5. p \o Tail(plan[t]) \in Seq(Steps)
  BY <1>4 DEF Path
<1>6. held' = held /\ told' = told /\ routine' = routine
  BY DEF Goes
<1>7. plan' \in [Threads -> Seq(Steps)]
  BY <1>2, <1>5 DEF LInv
<1>8. ASSUME NEW u \in Threads
      PROVE  Path(routine', u, held'[u], plan'[u], {})
  <2>1. plan'[u] = IF u = t THEN p \o Tail(plan[t]) ELSE plan[u]
    BY <1>2 DEF LInv
  <2> QED
    BY <2>1, <1>4, <1>6 DEF LInv
<1> QED
  BY <1>6, <1>7, <1>8 DEF LInv

\* A thread's function keeps it if one turn of its loop is sound.
LEMMA CyclesSound ==
  ASSUME LInv, NEW t \in Threads, NEW f, NEW paths, Cycles(t, f, paths),
         \A p \in paths : Sound(routine, t, 1, p), Level(f) = 1
  PROVE  LInv'
<1>1. f \in Functions /\ (f = <<"Main">> => t \in Mains(routine))
  BY CallKnown DEF Cycles, Goes
<1>2. Sound(routine, t, 1, <<Call(f)>>)
  BY <1>1, SoundCall
<1>3. \A p \in paths : Sound(routine, t, 1, p \o <<Call(f)>>)
  BY <1>2, SoundConcat
<1> DEFINE all == {p \o <<Call(f)>> : p \in paths} \cup (IF t \in told THEN {<<>>} ELSE {})
<1>4. \A p \in all : Sound(routine, t, 1, p)
  BY <1>3, SoundEmpty
<1>5. Goes(t, f, all)
  BY DEF Cycles
<1> HIDE DEF all
<1> QED
  BY <1>4, <1>5, GoesSound

\* f is a function of level k, and not main's.
Known(f, k) == f \in Functions /\ Level(f) = k /\ f # <<"Main">>

\* The level of each function.
LEMMA Levels ==
  /\ Known(<<"InsertApps">>, 3) /\ Known(<<"ReportDevices">>, 3) /\ Known(<<"Dispatch">>, 2)
  /\ \A d \in Devices : Known(<<"QueueCmd", d>>, 3) /\ Known(<<"Release", d>>, 3)
  /\ Known(<<"FetchRows">>, 1) /\ Known(<<"FreeEnded">>, 1) /\ Known(<<"DropDevices">>, 1)
  /\ Known(<<"UnloadCenter">>, 1) /\ Known(<<"DrainClients">>, 1)
  /\ Known(<<"MonThread">>, 1) /\ Known(<<"CmdMonThread">>, 1)
  /\ Known(<<"MuxThread">>, 1) /\ Known(<<"AcceptThread">>, 1) /\ Known(<<"CleanupThread">>, 1)
  /\ \A q \in Queues : Known(<<"WorkThread", q>>, 1) /\ Known(<<"Drain", q>>, 1)
  /\ \A d \in Devices, q \in Queues :
       Known(<<"Execute", d, q>>, 1) /\ Known(<<"RunCmds", d, q>>, 1)
<1>1. Known(<<"InsertApps">>, 3) /\ Known(<<"ReportDevices">>, 3) /\ Known(<<"Dispatch">>, 2)
  BY DEF Known, Level, Functions
<1>2. \A d \in Devices : Known(<<"QueueCmd", d>>, 3) /\ Known(<<"Release", d>>, 3)
  BY DEF Known, Level, Functions
<1>3. /\ Known(<<"FetchRows">>, 1) /\ Known(<<"FreeEnded">>, 1) /\ Known(<<"DropDevices">>, 1)
      /\ Known(<<"UnloadCenter">>, 1) /\ Known(<<"DrainClients">>, 1)
  BY DEF Known, Level, Functions
<1>4. /\ Known(<<"MonThread">>, 1) /\ Known(<<"CmdMonThread">>, 1)
      /\ Known(<<"MuxThread">>, 1) /\ Known(<<"AcceptThread">>, 1) /\ Known(<<"CleanupThread">>, 1)
  BY DEF Known, Level, Functions, Routines
<1>5. \A q \in Queues : Known(<<"WorkThread", q>>, 1) /\ Known(<<"Drain", q>>, 1)
  BY DEF Known, Level, Functions, Routines
<1>6. \A d \in Devices, q \in Queues :
       Known(<<"Execute", d, q>>, 1) /\ Known(<<"RunCmds", d, q>>, 1)
  BY DEF Known, Level, Functions
<1> QED
  BY <1>1, <1>2, <1>3, <1>4, <1>5, <1>6

\* SoundCall, SoundEach and GoesSound for the functions of these levels.
LEMMA SoundKnown ==
  ASSUME NEW t, NEW k \in Int, NEW j \in Int, k <= j, NEW f, Known(f, j)
  PROVE  Sound(routine, t, k, <<Call(f)>>)
BY SoundCall DEF Known

LEMMA SoundPair ==
  ASSUME NEW t, NEW k \in Int, NEW j \in Int, NEW l \in Int, k <= j, k <= l,
         NEW f, NEW g, Known(f, j), Known(g, l)
  PROVE  Sound(routine, t, k, <<Call(f), Call(g)>>)
<1> DEFINE x == Call(f)
           y == Call(g)
           p == <<x, y>>
<1>1. Sound(routine, t, k, <<x>>) /\ Sound(routine, t, k, <<y>>) /\ x \in Steps /\ y \in Steps
  BY SoundKnown DEF Known, Steps
<1> HIDE DEF x, y
<1>2. p \in Seq(Steps) /\ Len(p) = 2 /\ p[1] = x /\ p[2] = y
  BY <1>1
<1> HIDE DEF p
<1>3. Sound(routine, t, k, p)
  BY <1>1, <1>2, SoundEach
<1> QED
  BY <1>3 DEF p, x, y

LEMMA KnownGoes ==
  ASSUME LInv, NEW t \in Threads, NEW f, NEW k, Known(f, k), NEW paths, Goes(t, f, paths),
         \A p \in paths : Sound(routine, t, k, p)
  PROVE  LInv'
BY GoesSound DEF Known

------------------------------------------------------------------------------
(* One lemma per action: the paths of its function are sound at its level. *)

\* The database's lock, then the observers'.
LEMMA RecordSound ==
  ASSUME NEW t, NEW k \in Int, k <= 3, NEW b \in Tabs
  PROVE  Sound(routine, t, k, ExecSql) /\ Sound(routine, t, k, Notify(b)) /\ Sound(routine, t, k, Record(b))
<1>1. Sound(routine, t, k, ExecSql) /\ Sound(routine, t, k, Notify(b))
  BY SoundEmpty, SoundSection, Ranks DEF ExecSql, Notify
<1> QED
  BY <1>1, SoundConcat DEF Record

LEMMA CancelledSound ==
  ASSUME NEW t, NEW k \in Int, k <= 3, NEW c \in Cancelled
  PROVE  Sound(routine, t, k, c)
BY RecordSound, SoundEmpty DEF Cancelled, Tabs

LEMMA QueueCmdSound ==
  ASSUME LInv, NEW t \in Threads, QueueCmd(t)
  PROVE  LInv'
<1> DEFINE paths(d) == {<<>>} \cup {Section(CmdMutex(d, q), <<>>) : q \in Queues}
                         \cup {Section(CmdMutex(d, q), Request(q)) : q \in Queues}
<1>1. PICK d \in Devices : Goes(t, <<"QueueCmd", d>>, paths(d))
  BY DEF QueueCmd
<1>2. \A q \in Queues : Sound(routine, t, 3, Section(CmdMutex(d, q), <<>>))
  BY SoundEmpty, SoundSection, Ranks
<1>3. \A q \in Queues : Sound(routine, t, 4, Request(q))
  BY SoundEmpty, SoundSection, Ranks DEF Request
<1>4. \A q \in Queues : Sound(routine, t, 3, Section(CmdMutex(d, q), Request(q)))
  BY <1>3, SoundSection, Ranks
<1>5. \A p \in paths(d) : Sound(routine, t, 3, p)
  BY <1>2, <1>4, SoundEmpty
<1>6. Known(<<"QueueCmd", d>>, 3)
  BY Levels
<1> HIDE DEF paths
<1> QED
  BY <1>1, <1>5, <1>6, KnownGoes

LEMMA ReleaseSound ==
  ASSUME LInv, NEW t \in Threads, Release(t)
  PROVE  LInv'
<1> DEFINE f(d) == <<"Release", d>>
           paths(d, q) == {<<>>} \cup {Section(CmdMutex(d, q), <<>>) \o c \o <<Call(f(d))>> :
                                         c \in Cancelled}
<1>1. PICK d \in Devices, q \in Queues : Goes(t, f(d), paths(d, q))
  BY DEF Release
<1>2. Known(f(d), 3)
  BY Levels
<1> HIDE DEF f
<1>3. Sound(routine, t, 3, <<Call(f(d))>>)
  BY <1>2, SoundKnown
<1>4. Sound(routine, t, 3, Section(CmdMutex(d, q), <<>>))
  BY SoundEmpty, SoundSection, Ranks
<1>5. \A c \in Cancelled :
        Sound(routine, t, 3, Section(CmdMutex(d, q), <<>>) \o c \o <<Call(f(d))>>)
  BY <1>3, <1>4, CancelledSound, SoundConcat
<1>6. \A p \in paths(d, q) : Sound(routine, t, 3, p)
  BY <1>5, SoundEmpty
<1> HIDE DEF paths
<1> QED
  BY <1>1, <1>2, <1>6, KnownGoes

LEMMA InsertAppsSound ==
  ASSUME LInv, NEW t \in Threads, InsertApps(t)
  PROVE  LInv'
<1> DEFINE f == <<"InsertApps">>
           paths == {ExecSql \o <<Call(f)>>, Notify("app")}
<1>1. Goes(t, f, paths)
  BY DEF InsertApps
<1>2. Known(f, 3)
  BY Levels
<1> HIDE DEF f
<1>3. Sound(routine, t, 3, <<Call(f)>>)
  BY <1>2, SoundKnown
<1>4. Sound(routine, t, 3, ExecSql) /\ Sound(routine, t, 3, Notify("app"))
  BY RecordSound DEF Tabs
<1>5. \A p \in paths : Sound(routine, t, 3, p)
  BY <1>3, <1>4, SoundConcat
<1> HIDE DEF paths
<1> QED
  BY <1>1, <1>2, <1>5, KnownGoes

LEMMA ExecuteOneSound ==
  ASSUME NEW t, NEW c \in ExecuteOne
  PROVE  Sound(routine, t, 1, c)
<1> DEFINE insert == <<Call(<<"InsertApps">>)>>
<1>1. Sound(routine, t, 1, insert)
  BY SoundKnown, Levels
<1>2. Sound(routine, t, 1, ExecSql) /\ Sound(routine, t, 1, Record("cmd")) /\ Sound(routine, t, 1, Record("dev"))
  BY RecordSound DEF Tabs
<1> HIDE DEF insert
<1>3. Sound(routine, t, 1, Record("cmd") \o Record("cmd")) /\ Sound(routine, t, 1, ExecSql \o insert)
  BY <1>1, <1>2, SoundConcat
<1>4. \/ c \in Cancelled
      \/ c \in {Record("cmd") \o Record("cmd"), Record("dev"), ExecSql \o insert}
  BY DEF ExecuteOne, insert
<1>5. CASE c \in Cancelled
  BY <1>5, CancelledSound
<1> QED
  BY <1>2, <1>3, <1>4, <1>5

LEMMA ExecuteSound ==
  ASSUME LInv, NEW t \in Threads, Execute(t)
  PROVE  LInv'
<1> DEFINE x(d, q) == <<"Execute", d, q>>
           r(d, q) == <<"RunCmds", d, q>>
           taken(d, q) == Section(CmdMutex(d, q), <<>>)
           first(d, q) == {taken(d, q) \o <<Call(r(d, q))>>}
           paths(d, q) == {<<>>} \cup {c \o taken(d, q) \o <<Call(r(d, q))>> : c \in ExecuteOne}
<1>1. PICK d \in Devices, q \in Queues :
        Goes(t, x(d, q), first(d, q)) \/ Goes(t, r(d, q), paths(d, q))
  BY DEF Execute
<1>2. Known(x(d, q), 1) /\ Known(r(d, q), 1)
  BY Levels
<1>3. Sound(routine, t, 1, taken(d, q))
  BY SoundEmpty, SoundSection, Ranks
<1> HIDE DEF x, r, taken
<1>4. Sound(routine, t, 1, <<Call(r(d, q))>>)
  BY <1>2, SoundKnown
<1>5. \A p \in first(d, q) : Sound(routine, t, 1, p)
  BY <1>3, <1>4, SoundConcat
<1>6. \A c \in ExecuteOne : Sound(routine, t, 1, c \o taken(d, q) \o <<Call(r(d, q))>>)
  BY <1>3, <1>4, SoundConcat, ExecuteOneSound
<1>7. \A p \in paths(d, q) : Sound(routine, t, 1, p)
  BY <1>6, SoundEmpty
<1> HIDE DEF first, paths
<1> QED
  BY <1>1, <1>2, <1>5, <1>7, KnownGoes

LEMMA WorkThreadSound ==
  ASSUME LInv, NEW t \in Threads, WorkThread(t)
  PROVE  LInv'
<1> DEFINE w(q) == <<"WorkThread", q>>
           n(q) == <<"Drain", q>>
           x(d, q) == <<"Execute", d, q>>
           r(d) == <<"Release", d>>
           taken(q) == Section(ExecMutex(q), <<>>)
           woken(q) == {taken(q) \o <<Call(n(q))>>}
           next(d, q) == <<Call(x(d, q)), Call(r(d))>> \o taken(q) \o <<Call(n(q))>>
           paths(q) == {<<>>} \cup {next(d, q) : d \in Devices}
<1>1. PICK q \in Queues : Cycles(t, w(q), woken(q)) \/ Goes(t, n(q), paths(q))
  BY DEF WorkThread
<1>2. Known(w(q), 1) /\ Known(n(q), 1) /\ \A d \in Devices : Known(x(d, q), 1) /\ Known(r(d), 3)
  BY Levels
<1>3. Sound(routine, t, 1, taken(q))
  BY SoundEmpty, SoundSection, Ranks
<1> HIDE DEF w, n, x, r, taken
<1>4. Sound(routine, t, 1, <<Call(n(q))>>)
  BY <1>2, SoundKnown
<1>5. \A d \in Devices : Sound(routine, t, 1, <<Call(x(d, q)), Call(r(d))>>)
  BY <1>2, SoundPair
<1>6. \A d \in Devices : Sound(routine, t, 1, next(d, q))
  BY <1>3, <1>4, <1>5, SoundConcat
<1>7. \A p \in woken(q) : Sound(routine, t, 1, p)
  BY <1>3, <1>4, SoundConcat
<1> HIDE DEF next, woken
<1>8. \A p \in paths(q) : Sound(routine, t, 1, p)
  BY <1>6, SoundEmpty
<1> HIDE DEF paths
<1> QED
  BY <1>1, <1>2, <1>7, <1>8, KnownGoes, CyclesSound DEF Known

\* What the functions of the device center and of its observers do.
LEMMA CenterSound ==
  ASSUME NEW t, NEW d \in Devices
  PROVE  /\ \A k \in 1 .. 3 : Sound(routine, t, k, OnAttached(d)) /\ Sound(routine, t, k, OnDetached(d))
         /\ \A p \in OnDeviceAttached(d) \cup OnDeviceDetached(d) \cup OnDeviceStateChanged(d) :
              Sound(routine, t, 1, p)
         /\ \A k \in 1 .. 2 : Sound(routine, t, k, GetDevice)
<1> DEFINE f == <<"QueueCmd", d>>
           s == Call(f)
           three == <<s, s, s>>
<1>1. \A k \in 1 .. 3 : Sound(routine, t, k, OnAttached(d)) /\ Sound(routine, t, k, OnDetached(d))
  BY RecordSound DEF OnAttached, OnDetached, Tabs
<1>2. \A k \in 1 .. 2 : Sound(routine, t, k, GetDevice)
  BY SoundEmpty, SoundSection, Ranks DEF GetDevice
<1>3. Sound(routine, t, 2, three)
  <2> HIDE DEF f
  <2>1. Sound(routine, t, 2, <<s>>) /\ s \in Steps
    <3>1. Known(f, 3)
      BY Levels DEF f
    <3> QED
      BY <3>1, SoundKnown DEF Known, Steps
  <2> HIDE DEF s
  <2>2. three \in Seq(Steps) /\ Len(three) = 3 /\ \A i \in 1 .. 3 : three[i] = s
    BY <2>1
  <2> HIDE DEF three
  <2> QED
    BY <2>1, <2>2, SoundEach
<1> HIDE DEF three
<1>4. Sound(routine, t, 2, Record("dev")) /\ Sound(routine, t, 2, Record("dev") \o three)
  BY <1>3, RecordSound, SoundConcat DEF Tabs
<1>5. \A c \in OnStateChanged(d) : Sound(routine, t, 2, c)
  BY <1>4 DEF OnStateChanged, three
<1>6. Sound(routine, t, 1, Section(DeviceMutex, <<>>))
  BY SoundEmpty, SoundSection, Ranks
<1>7. \A c : Sound(routine, t, 2, c) => Sound(routine, t, 1, Section(CenterMutex, c))
  BY SoundSection, Ranks
<1>8. \A c \in {<<>>} \cup OnStateChanged(d) \cup {OnAttached(d), OnDetached(d)} :
        /\ Sound(routine, t, 1, Section(CenterMutex, c))
        /\ Sound(routine, t, 1, Section(DeviceMutex, <<>>) \o Section(CenterMutex, c))
  BY <1>1, <1>5, <1>6, <1>7, SoundEmpty, SoundConcat
<1>9. /\ \A p \in OnDeviceAttached(d) : Sound(routine, t, 1, p)
      /\ \A p \in OnDeviceDetached(d) : Sound(routine, t, 1, p)
      /\ \A p \in OnDeviceStateChanged(d) : Sound(routine, t, 1, p)
  BY <1>6, <1>8 DEF OnDeviceAttached, OnDeviceDetached, OnDeviceStateChanged
<1> QED
  BY <1>1, <1>2, <1>9

LEMMA ReportDevicesSound ==
  ASSUME LInv, NEW t \in Threads, ReportDevices(t)
  PROVE  LInv'
<1> DEFINE f == <<"ReportDevices">>
           paths(d) == {<<>>, OnAttached(d) \o <<Call(f)>>}
<1>1. PICK d \in Devices : Goes(t, f, paths(d))
  BY DEF ReportDevices
<1>2. Known(f, 3)
  BY Levels
<1> HIDE DEF f
<1>3. Sound(routine, t, 3, <<Call(f)>>)
  BY <1>2, SoundKnown
<1>4. Sound(routine, t, 3, OnAttached(d))
  BY CenterSound
<1>5. \A p \in paths(d) : Sound(routine, t, 3, p)
  BY <1>3, <1>4, SoundConcat, SoundEmpty
<1> HIDE DEF paths
<1> QED
  BY <1>1, <1>2, <1>5, KnownGoes

LEMMA MonThreadSound ==
  ASSUME LInv, NEW t \in Threads, MonThread(t)
  PROVE  LInv'
<1> DEFINE f == <<"MonThread">>
           r(d) == <<"Release", d>>
           paths(d) == OnDeviceAttached(d) \cup {p \o <<Call(r(d))>> : p \in OnDeviceDetached(d)}
                         \cup OnDeviceStateChanged(d)
<1>1. PICK d \in Devices : Cycles(t, f, paths(d))
  BY DEF MonThread
<1>2. Known(f, 1) /\ Known(r(d), 3)
  BY Levels
<1> HIDE DEF f, r
<1>3. Sound(routine, t, 1, <<Call(r(d))>>)
  BY <1>2, SoundKnown
<1>4. \A p \in OnDeviceDetached(d) : Sound(routine, t, 1, p \o <<Call(r(d))>>)
  BY <1>3, CenterSound, SoundConcat
<1>5. \A p \in paths(d) : Sound(routine, t, 1, p)
  BY <1>4, CenterSound
<1> HIDE DEF paths
<1> QED
  BY <1>1, <1>2, <1>5, CyclesSound DEF Known

LEMMA CmdMonThreadSound ==
  ASSUME LInv, NEW t \in Threads, CmdMonThread(t)
  PROVE  LInv'
<1> DEFINE f == <<"CmdMonThread">>
           g == <<"FetchRows">>
           r(d) == <<Call(<<"Release", d>>)>>
           s(d) == <<Call(<<"QueueCmd", d>>)>>
           fetched == {BeginGetTable \o <<Call(g)>>}
           paths(d) == {<<>>} \cup {p \o <<Call(g)>> : p \in ProcessCmd(d)}
<1>1. Cycles(t, f, fetched) \/ \E d \in Devices : Goes(t, g, paths(d))
  BY DEF CmdMonThread
<1>2. Known(f, 1) /\ Known(g, 1)
  BY Levels
<1> HIDE DEF f, g
<1>3. Sound(routine, t, 1, <<Call(g)>>)
  BY <1>2, SoundKnown
<1>4. Sound(routine, t, 1, BeginGetTable)
  BY SoundEmpty, SoundSection, Ranks DEF BeginGetTable
<1>5. \A p \in fetched : Sound(routine, t, 1, p)
  BY <1>3, <1>4, SoundConcat
<1>6. ASSUME NEW d \in Devices, NEW p \in ProcessCmd(d)
      PROVE  Sound(routine, t, 1, p)
  <2>1. Sound(routine, t, 1, r(d)) /\ Sound(routine, t, 1, s(d))
    BY SoundKnown, Levels
  <2>2. Sound(routine, t, 1, GetDevice) /\ Sound(routine, t, 1, Record("cmd"))
    BY CenterSound, RecordSound DEF Tabs
  <2>3. p \in {GetDevice \o Record("cmd"), GetDevice \o Record("cmd") \o r(d),
               GetDevice \o s(d) \o Record("cmd") \o r(d)}
    BY DEF ProcessCmd
  <2> HIDE DEF r, s
  <2>4. Sound(routine, t, 1, GetDevice \o Record("cmd")) /\ Sound(routine, t, 1, GetDevice \o s(d))
    BY <2>1, <2>2, SoundConcat
  <2>5. Sound(routine, t, 1, GetDevice \o Record("cmd") \o r(d))
    BY <2>1, <2>4, SoundConcat
  <2>6. Sound(routine, t, 1, GetDevice \o s(d) \o Record("cmd"))
    BY <2>2, <2>4, SoundConcat
  <2>7. Sound(routine, t, 1, GetDevice \o s(d) \o Record("cmd") \o r(d))
    BY <2>1, <2>6, SoundConcat
  <2> QED
    BY <2>3, <2>4, <2>5, <2>7
<1>7. \A d \in Devices : \A p \in ProcessCmd(d) : Sound(routine, t, 1, p \o <<Call(g)>>)
  BY <1>3, <1>6, SoundConcat
<1>8. \A d \in Devices : \A p \in paths(d) : Sound(routine, t, 1, p)
  BY <1>7, SoundEmpty
<1> HIDE DEF fetched, paths
<1> QED
  BY <1>1, <1>2, <1>5, <1>8, KnownGoes, CyclesSound DEF Known

LEMMA MuxThreadSound ==
  ASSUME LInv, NEW t \in Threads, MuxThread(t)
  PROVE  LInv'
<1> DEFINE f == <<"MuxThread">>
           g == <<"Dispatch">>
           s(d) == <<"QueueCmd", d>>
           r(d) == <<"Release", d>>
           passes == {Section(MuxMutex, <<>>),
                      Section(MuxMutex, <<>>) \o Section(MuxMutex, <<Call(g)>>)}
           asked(d) == {GetDevice, GetDevice \o <<Call(s(d)), Call(r(d))>>}
           paths(d) == {<<>>} \cup {p \o <<Call(g)>> : p \in asked(d)}
<1>1. Cycles(t, f, passes) \/ \E d \in Devices : Goes(t, g, paths(d))
  BY DEF MuxThread, ProcessDbMsg
<1>2. Known(f, 1) /\ Known(g, 2) /\ \A d \in Devices : Known(s(d), 3) /\ Known(r(d), 3)
  BY Levels
<1> HIDE DEF f, g, s, r
<1>3. Sound(routine, t, 2, <<Call(g)>>)
  BY <1>2, SoundKnown
<1>4. Sound(routine, t, 1, Section(MuxMutex, <<>>)) /\ Sound(routine, t, 1, Section(MuxMutex, <<Call(g)>>))
  BY <1>3, SoundEmpty, SoundSection, Ranks
<1>5. \A p \in passes : Sound(routine, t, 1, p)
  BY <1>4, SoundConcat
<1>6. ASSUME NEW d \in Devices
      PROVE  \A p \in asked(d) : Sound(routine, t, 2, p)
  <2>1. Sound(routine, t, 2, GetDevice)
    BY CenterSound
  <2>2. Sound(routine, t, 2, <<Call(s(d)), Call(r(d))>>)
    BY <1>2, SoundPair
  <2> QED
    BY <2>1, <2>2, SoundConcat
<1> HIDE DEF passes, asked
<1>7. \A d \in Devices : \A p \in asked(d) : Sound(routine, t, 2, p \o <<Call(g)>>)
  BY <1>3, <1>6, SoundConcat
<1>8. \A d \in Devices : \A p \in paths(d) : Sound(routine, t, 2, p)
  BY <1>7, SoundEmpty
<1> HIDE DEF paths
<1> QED
  BY <1>1, <1>2, <1>5, <1>8, KnownGoes, CyclesSound DEF Known

\* What the threads of the server call.
LEMMA ClientSound ==
  ASSUME NEW t
  PROVE  /\ Sound(routine, t, 1, HandlerInit) /\ Sound(routine, t, 1, Start) /\ Sound(routine, t, 1, FreeClientRec)
         /\ Sound(routine, t, 1, Section(ClientMutex, <<>>))
<1>1. \A b \in Tabs : Sound(routine, t, 1, Section(ObserverMutex(b), <<>>))
  BY SoundEmpty, SoundSection, Ranks
<1>2. Sound(routine, t, 1, Section(ObserverMutex("dev"), <<>>) \o Section(ObserverMutex("app"), <<>>))
  BY <1>1, SoundConcat DEF Tabs
<1>3. Sound(routine, t, 1, HandlerInit)
  BY <1>1, <1>2, SoundConcat DEF HandlerInit, Tabs
<1>4. Sound(routine, t, 1, Section(MuxMutex, <<>>)) /\ Sound(routine, t, 1, Section(ClientMutex, <<>>))
  BY SoundEmpty, SoundSection, Ranks
<1>5. Sound(routine, t, 1, FreeClientRec)
  BY <1>3, <1>4, SoundConcat DEF FreeClientRec, HandlerFini
<1> QED
  BY <1>3, <1>4, <1>5 DEF Start

LEMMA AcceptThreadSound ==
  ASSUME LInv, NEW t \in Threads, AcceptThread(t)
  PROVE  LInv'
<1> DEFINE f == <<"AcceptThread">>
           paths == {Section(ClientMutex, <<>>) \o HandlerInit \o Start, FreeClientRec}
<1>1. Cycles(t, f, paths)
  BY DEF AcceptThread
<1>2. Known(f, 1)
  BY Levels
<1>3. Sound(routine, t, 1, Section(ClientMutex, <<>>) \o HandlerInit)
  BY ClientSound, SoundConcat
<1>4. \A p \in paths : Sound(routine, t, 1, p)
  BY <1>3, ClientSound, SoundConcat
<1> HIDE DEF f, paths
<1> QED
  BY <1>1, <1>2, <1>4, CyclesSound DEF Known

LEMMA CleanupThreadSound ==
  ASSUME LInv, NEW t \in Threads, CleanupThread(t)
  PROVE  LInv'
<1> DEFINE f == <<"CleanupThread">>
           g == <<"FreeEnded">>
           collected == {Section(ClientMutex, <<>>) \o <<Call(g)>>}
           paths == {<<>>, FreeClientRec \o <<Call(g)>>}
<1>1. Cycles(t, f, collected) \/ Goes(t, g, paths)
  BY DEF CleanupThread
<1>2. Known(f, 1) /\ Known(g, 1)
  BY Levels
<1> HIDE DEF f, g
<1>3. Sound(routine, t, 1, <<Call(g)>>)
  BY <1>2, SoundKnown
<1>4. \A p \in collected : Sound(routine, t, 1, p)
  BY <1>3, ClientSound, SoundConcat
<1>5. \A p \in paths : Sound(routine, t, 1, p)
  BY <1>3, ClientSound, SoundConcat, SoundEmpty
<1> HIDE DEF collected, paths
<1> QED
  BY <1>1, <1>2, <1>4, <1>5, KnownGoes, CyclesSound DEF Known

LEMMA DropDevicesSound ==
  ASSUME LInv, NEW t \in Threads, DropDevices(t)
  PROVE  LInv'
<1> DEFINE f == <<"DropDevices">>
           r(d) == <<"Release", d>>
           paths(d) == {<<>>} \cup {p \o <<Call(r(d)), Call(f)>> : p \in OnDeviceDetached(d)}
<1>1. PICK d \in Devices : Goes(t, f, paths(d))
  BY DEF DropDevices
<1>2. Known(f, 1) /\ Known(r(d), 3)
  BY Levels
<1> HIDE DEF f, r
<1>3. Sound(routine, t, 1, <<Call(r(d)), Call(f)>>)
  BY <1>2, SoundPair
<1>4. \A p \in OnDeviceDetached(d) : Sound(routine, t, 1, p \o <<Call(r(d)), Call(f)>>)
  BY <1>3, CenterSound, SoundConcat
<1>5. \A p \in paths(d) : Sound(routine, t, 1, p)
  BY <1>4, SoundEmpty
<1> HIDE DEF paths
<1> QED
  BY <1>1, <1>2, <1>5, KnownGoes

LEMMA UnloadCenterSound ==
  ASSUME LInv, NEW t \in Threads, UnloadCenter(t)
  PROVE  LInv'
<1> DEFINE f == <<"UnloadCenter">>
           r(d) == <<"Release", d>>
           paths(d) == {<<>>, <<Call(r(d)), Call(f)>>}
<1>1. PICK d \in Devices : Goes(t, f, paths(d))
  BY DEF UnloadCenter
<1>2. Known(f, 1) /\ Known(r(d), 3)
  BY Levels
<1> HIDE DEF f, r
<1>3. \A p \in paths(d) : Sound(routine, t, 1, p)
  BY <1>2, SoundPair, SoundEmpty
<1> HIDE DEF paths
<1> QED
  BY <1>1, <1>2, <1>3, KnownGoes

LEMMA DrainClientsSound ==
  ASSUME LInv, NEW t \in Threads, DrainClients(t)
  PROVE  LInv'
<1> DEFINE f == <<"DrainClients">>
           paths == {<<>>, FreeClientRec \o Section(ClientMutex, <<>>) \o <<Call(f)>>}
<1>1. Goes(t, f, paths)
  BY DEF DrainClients
<1>2. Known(f, 1)
  BY Levels
<1> HIDE DEF f
<1>3. Sound(routine, t, 1, <<Call(f)>>)
  BY <1>2, SoundKnown
<1>4. Sound(routine, t, 1, FreeClientRec \o Section(ClientMutex, <<>>))
  BY ClientSound, SoundConcat
<1>5. \A p \in paths : Sound(routine, t, 1, p)
  BY <1>3, <1>4, SoundConcat, SoundEmpty
<1> HIDE DEF paths
<1> QED
  BY <1>1, <1>2, <1>5, KnownGoes

\* What the main program calls.
LEMMA TablesSound ==
  ASSUME NEW t \in Mains(routine), NEW b \in Tabs
  PROVE  \A p \in LoadTable(b) \cup UnloadTable(b) : Sound(routine, t, 1, p)
<1> DEFINE report == <<Call(<<"ReportDevices">>)>>
           stop == Stop({<<"CmdMonThread">>})
<1>1. Sound(routine, t, 3, report)
  BY SoundKnown, Levels
<1>2. Sound(routine, t, 1, stop)
  <2>1. <<"Main">> \notin {<<"CmdMonThread">>}
    OBVIOUS
  <2> QED
    BY <2>1, SoundStop
<1> HIDE DEF report, stop
<1>3. Sound(routine, t, 1, Section(DeviceMutex, report)) /\ Sound(routine, t, 1, Section(DeviceMutex, <<>>))
  BY <1>1, SoundEmpty, SoundSection, Ranks
<1>4. Sound(routine, t, 1, Section(CenterMutex, <<>>)) /\ Sound(routine, t, 1, ExecSql)
  BY SoundEmpty, SoundSection, Ranks, RecordSound DEF Tabs
<1>5. \A p \in RegisterObserver(b) : Sound(routine, t, 1, p)
  <2>1. \A p \in RegisterObserver(b) :
          p \in {Section(CenterMutex, <<>>),
                 Section(CenterMutex, <<>>) \o Section(DeviceMutex, report),
                 Section(CenterMutex, <<>>) \o Section(DeviceMutex, <<>>)}
    BY DEF RegisterObserver, report
  <2> QED
    BY <2>1, <1>3, <1>4, SoundConcat
<1>6. \A p \in LoadTable(b) : Sound(routine, t, 1, p)
  <2>1. \A p \in RegisterObserver(b) : Sound(routine, t, 1, ExecSql \o p)
    BY <1>4, <1>5, SoundConcat
  <2> QED
    BY <2>1 DEF LoadTable
<1>7. \A p \in UnloadTable(b) : Sound(routine, t, 1, p)
  <2>1. \A p \in UnloadTable(b) :
          p \in {Section(CenterMutex, <<>>) \o stop, Section(CenterMutex, <<>>) \o <<>>}
    BY DEF UnloadTable, UnregisterObserver, stop
  <2> QED
    BY <2>1, <1>2, <1>4, SoundConcat, SoundEmpty
<1> QED
  BY <1>6, <1>7

LEMMA UnloadSound ==
  ASSUME NEW t \in Mains(routine)
  PROVE  /\ Sound(routine, t, 1, UnloadMonitor) /\ Sound(routine, t, 1, UnloadServer)
         /\ Sound(routine, t, 1, CleanupMux) /\ Sound(routine, t, 1, CleanupExec)
         /\ Sound(routine, t, 1, <<Call(<<"UnloadCenter">>)>>)
<1>1. \A rs : <<"Main">> \notin rs => Sound(routine, t, 1, Stop(rs))
  BY SoundStop
<1>2. /\ <<"Main">> \notin {<<"MonThread">>} /\ <<"Main">> \notin {<<"AcceptThread">>}
      /\ <<"Main">> \notin {<<"CleanupThread">>} /\ <<"Main">> \notin {<<"MuxThread">>}
      /\ <<"Main">> \notin {<<"WorkThread", q>> : q \in Queues}
  <2>1. \A q : <<"WorkThread", q>> # <<"Main">>
    OBVIOUS
  <2> QED
    BY <2>1
<1>3. /\ Sound(routine, t, 1, <<Call(<<"DropDevices">>)>>) /\ Sound(routine, t, 1, <<Call(<<"DrainClients">>)>>)
      /\ Sound(routine, t, 1, <<Call(<<"UnloadCenter">>)>>)
  BY SoundKnown, Levels
<1>4. /\ Sound(routine, t, 1, Stop({<<"MonThread">>})) /\ Sound(routine, t, 1, Stop({<<"AcceptThread">>}))
      /\ Sound(routine, t, 1, Stop({<<"CleanupThread">>})) /\ Sound(routine, t, 1, CleanupMux)
      /\ Sound(routine, t, 1, CleanupExec)
  BY <1>1, <1>2 DEF CleanupMux, CleanupExec
<1>5. Sound(routine, t, 1, UnloadMonitor)
  BY <1>3, <1>4, SoundConcat DEF UnloadMonitor
<1>6. Sound(routine, t, 1, Stop({<<"AcceptThread">>}) \o Stop({<<"CleanupThread">>}))
  BY <1>4, SoundConcat
<1>7. Sound(routine, t, 1, Stop({<<"AcceptThread">>}) \o Stop({<<"CleanupThread">>})
                    \o Section(ClientMutex, <<>>))
  BY <1>6, ClientSound, SoundConcat
<1>8. Sound(routine, t, 1, UnloadServer)
  BY <1>3, <1>7, SoundConcat DEF UnloadServer
<1> QED
  BY <1>3, <1>4, <1>5, <1>8

LEMMA MainSound ==
  ASSUME LInv, NEW t \in Threads, Main(t)
  PROVE  LInv'
<1> DEFINE f == <<"Main">>
           tables(b) == LoadTable(b) \cup UnloadTable(b)
           others == {<<Call(<<"UnloadCenter">>)>>, UnloadMonitor, UnloadServer,
                      CleanupMux, CleanupExec}
           all == (UNION {tables(b) : b \in Tabs})
                    \cup others
           paths == {p \o <<Call(f)>> : p \in all}
<1>1. Goes(t, f, paths)
  BY DEF Main
<1>2. t \in Mains(routine) /\ f \in Functions /\ Level(f) = 1
  BY <1>1, CallKnown DEF Goes, Level
<1>3. ASSUME NEW p \in all
      PROVE  Sound(routine, t, 1, p)
  <2>1. CASE \E b \in Tabs : p \in tables(b)
    BY <2>1, <1>2, TablesSound
  <2>2. CASE p \in others
    BY <2>2, <1>2, UnloadSound
  <2> HIDE DEF tables, others
  <2> QED
    BY <2>1, <2>2
<1> HIDE DEF all, f
<1>4. Sound(routine, t, 1, <<Call(f)>>)
  BY <1>2, SoundCall
<1>5. \A p \in all : Sound(routine, t, 1, p \o <<Call(f)>>)
  BY <1>3, <1>4, SoundConcat
<1>6. \A p \in paths : Sound(routine, t, 1, p)
  BY <1>5
<1> HIDE DEF paths
<1> QED
  BY <1>1, <1>2, <1>6, GoesSound

\* A step that does the first of what t has to do.
LEMMA StepSound ==
  ASSUME LInv, NEW t \in Threads, NEW a, Does(routine, t, held[t], Head(plan[t]), a),
         \A b : Does(routine, t, held[t], Head(plan[t]), b) => b = a,
         plan[t] # <<>>, plan' = [plan EXCEPT ![t] = Tail(@)],
         held' = [held EXCEPT ![t] = a], told' \subseteq Threads, routine' = routine
  PROVE  LInv'
<1>1. a \in SUBSET Mutexes /\ Path(routine, t, a, Tail(plan[t]), {})
  BY PathHead DEF LInv
<1>2. Tail(plan[t]) \in Seq(Steps)
  BY <1>1 DEF Path
<1>3. plan' \in [Threads -> Seq(Steps)] /\ held' \in [Threads -> SUBSET Mutexes]
  BY <1>1, <1>2 DEF LInv
<1>4. ASSUME NEW u \in Threads
      PROVE  Path(routine', u, held'[u], plan'[u], {})
  <2>1. /\ plan'[u] = IF u = t THEN Tail(plan[t]) ELSE plan[u]
        /\ held'[u] = IF u = t THEN a ELSE held[u]
    BY DEF LInv
  <2> QED
    BY <1>1, <2>1 DEF LInv
<1> QED
  BY <1>3, <1>4 DEF LInv

LEMMA LockSteps ==
  ASSUME LInv, NEW t \in Threads,
         LockMutex(t) \/ UnlockMutex(t) \/ SetQuit(t) \/ JoinThreads(t)
  PROVE  LInv'
<1> DEFINE e == Head(plan[t])
<1>1. PICK a \in SUBSET Mutexes : Does(routine, t, held[t], e, a)
  BY PathHead DEF LInv, LockMutex, UnlockMutex, SetQuit, JoinThreads
<1>2. plan[t] # <<>> /\ plan' = [plan EXCEPT ![t] = Tail(@)] /\ routine' = routine
  BY DEF LockMutex, UnlockMutex, SetQuit, JoinThreads
<1>3. held[t] \in SUBSET Mutexes /\ held = [held EXCEPT ![t] = held[t]] /\ told \subseteq Threads
  BY DEF LInv
<1> HIDE DEF e
<1>4. \A b : Does(routine, t, held[t], e, b) => b = a
  BY <1>1 DEF Does, Take, Give, Call
<1>5. CASE LockMutex(t)
  <2>1. PICK m \in Mutexes : e = Take(m) /\ held' = [held EXCEPT ![t] = held[t] \cup {m}]
    BY <1>5 DEF LockMutex, e
  <2>2. a = held[t] \cup {m}
    BY <1>1, <2>1 DEF Does, Take, Give, Call
  <2>3. told' = told
    BY <1>5 DEF LockMutex
  <2> QED
    BY <1>1, <1>2, <1>3, <1>4, <2>1, <2>2, <2>3, StepSound DEF e
<1>6. CASE UnlockMutex(t)
  <2>1. PICK m \in Mutexes : e = Give(m) /\ held' = [held EXCEPT ![t] = held[t] \ {m}]
    BY <1>6 DEF UnlockMutex, e
  <2>2. a = held[t] \ {m}
    BY <1>1, <2>1 DEF Does, Take, Give, Call
  <2>3. told' = told
    BY <1>6 DEF UnlockMutex
  <2> QED
    BY <1>1, <1>2, <1>3, <1>4, <2>1, <2>2, <2>3, StepSound DEF e
<1>7. CASE SetQuit(t)
  <2>1. e[1] = "quit" /\ held' = held /\ told' = told \cup e[2]
    BY <1>7 DEF SetQuit, e
  <2>2. a = held[t] /\ e[2] \subseteq Threads
    BY <1>1, <2>1 DEF Does, Take, Give, Call
  <2>3. told' \subseteq Threads
    BY <1>3, <2>1, <2>2
  <2>4. held' = [held EXCEPT ![t] = a]
    BY <1>3, <2>1, <2>2
  <2> QED
    BY <1>1, <1>2, <1>4, <2>3, <2>4, StepSound DEF e
<1>8. CASE JoinThreads(t)
  <2>1. e[1] = "join" /\ held' = held /\ told' = told
    BY <1>8 DEF JoinThreads, e
  <2>2. a = held[t]
    BY <1>1, <2>1 DEF Does, Take, Give, Call
  <2>3. held' = [held EXCEPT ![t] = a]
    BY <1>3, <2>1, <2>2
  <2> QED
    BY <1>1, <1>2, <1>3, <1>4, <2>1, <2>3, StepSound DEF e
<1> QED
  BY <1>5, <1>6, <1>7, <1>8

------------------------------------------------------------------------------
(* The theorems about the locks.                                           *)

\* The invariant holds initially and is preserved by every step.
LEMMA LInvInit == LockInit => LInv
<1> SUFFICES ASSUME LockInit
             PROVE  LInv
  OBVIOUS
<1>1. ASSUME NEW t \in Threads
      PROVE  /\ plan[t] \in Seq(Steps) /\ held[t] = {}
             /\ Path(routine, t, held[t], plan[t], {})
  <2>1. routine[t] \in Functions /\ (routine[t] = <<"Main">> => t \in Mains(routine))
    BY CrewsAssumption DEF Functions, Mains, LockInit
  <2>2. Does(routine, t, {}, Call(routine[t]), {}) /\ Call(routine[t]) \in Steps
    BY <2>1 DEF Does, Steps, Below
  <2>3. plan[t] = <<Call(routine[t])>> /\ held[t] = {}
    BY DEF LockInit, Call
  <2>4. Path(routine, t, {}, plan[t], {})
    BY <2>2, <2>3, PathStep
  <2> QED
    BY <2>3, <2>4 DEF Path
<1>2. plan \in [Threads -> Seq(Steps)] /\ held \in [Threads -> SUBSET Mutexes]
  <2>1. \A t \in Threads : plan[t] \in Seq(Steps) /\ held[t] \in SUBSET Mutexes
    BY <1>1
  <2>2. plan = [t \in Threads |-> plan[t]] /\ held = [t \in Threads |-> held[t]]
    BY DEF LockInit
  <2> HIDE DEF LockInit
  <2> QED
    BY <2>1, <2>2
<1>3. routine \in [Threads -> Routines] /\ told \subseteq Threads
  BY CrewsAssumption DEF LockInit
<1> QED
  BY <1>1, <1>2, <1>3 DEF LInv

LEMMA LInvNext == LInv /\ [LockNext]_lockVars => LInv'
<1>1. CASE UNCHANGED lockVars
  BY <1>1 DEF lockVars, LInv
<1>2. ASSUME LInv, NEW t \in Threads,
             \/ LockMutex(t) \/ UnlockMutex(t) \/ SetQuit(t) \/ JoinThreads(t)
             \/ QueueCmd(t) \/ Release(t) \/ InsertApps(t) \/ Execute(t) \/ WorkThread(t)
             \/ ReportDevices(t) \/ MonThread(t) \/ CmdMonThread(t) \/ MuxThread(t)
             \/ AcceptThread(t) \/ CleanupThread(t)
             \/ DropDevices(t) \/ UnloadCenter(t) \/ DrainClients(t) \/ Main(t)
      PROVE  LInv'
  BY <1>2, LockSteps, QueueCmdSound, ReleaseSound, InsertAppsSound, ExecuteSound,
     WorkThreadSound, ReportDevicesSound, MonThreadSound, CmdMonThreadSound, MuxThreadSound,
     AcceptThreadSound, CleanupThreadSound, DropDevicesSound, UnloadCenterSound, DrainClientsSound,
     MainSound
<1> QED
  BY <1>1, <1>2 DEF LockNext

\* Every thread has before it a path on which it takes mutexes in the order of
\* their ranks only, unlocks what it has locked only, joins others with nothing
\* held, and at whose end it holds nothing: for every number of threads, devices
\* and queues, and for every order of main's calls.
THEOREM LocksInOrder == LockSpec => []LInv
BY LInvInit, LInvNext, PTL DEF LockSpec

\* A path at whose end nothing is held, and that is over.
LEMMA LInvReleased == LInv => LocksReleased
<1> SUFFICES ASSUME LInv, NEW t \in Threads, plan[t] \in {<<>>, <<Call(routine[t])>>}
             PROVE  held[t] = {}
  BY DEF LocksReleased
<1>1. Path(routine, t, held[t], plan[t], {})
  BY DEF LInv
<1>2. CASE plan[t] = <<>>
  BY <1>1, <1>2, PathOver
<1>3. CASE plan[t] = <<Call(routine[t])>>
  <2>1. plan[t] # <<>> /\ Head(plan[t]) = Call(routine[t]) /\ Tail(plan[t]) = <<>>
    BY <1>3
  <2> QED
    BY <2>1, CallKnown, PathOver
<1> QED
  BY <1>2, <1>3

\* A thread that has ended, or begins its loop again, holds nothing: no path of
\* any function leaves a mutex locked.
THEOREM LocksGivenUp == LockSpec => []LocksReleased
BY LocksInOrder, LInvReleased, PTL

\* Thread t is about to take mutex m, or to join others.
Wants(t, m) == plan[t] # <<>> /\ Head(plan[t]) = Take(m)
Joins(t) == plan[t] # <<>> /\ Head(plan[t])[1] = "join"

LEMMA WaitingAt ==
  ASSUME LInv, NEW t \in Threads, NEW u \in Threads, WaitsFor(t, u)
  PROVE  \/ \E m \in Mutexes : Wants(t, m) /\ m \in held[u]
         \/ Joins(t) /\ u \notin Mains(routine)
<1>1. PICK a : Does(routine, t, held[t], Head(plan[t]), a)
  BY PathHead DEF LInv, WaitsFor
<1>2. CASE Head(plan[t])[1] = "take" /\ Head(plan[t])[2] \in held[u]
  <2>1. PICK m \in Mutexes : Head(plan[t]) = Take(m)
    BY <1>1, <1>2 DEF Does, Take, Give, Call
  <2> QED
    BY <1>2, <2>1 DEF Wants, WaitsFor, Take
<1>3. CASE Head(plan[t])[1] = "join" /\ u \in Head(plan[t])[2]
  <2>1. PICK T \in SUBSET Threads : Head(plan[t]) = <<"join", T>> /\ T \cap Mains(routine) = {}
    BY <1>1, <1>3 DEF Does, Take, Give, Call
  <2> QED
    BY <1>3, <2>1 DEF Joins, WaitsFor
<1> QED
  BY <1>2, <1>3 DEF WaitsFor

LEMMA WantsInOrder ==
  ASSUME LInv, NEW t \in Threads, NEW m \in Mutexes, Wants(t, m)
  PROVE  Below(held[t], Rank(m))
<1>1. PICK a : Does(routine, t, held[t], Take(m), a)
  BY PathHead DEF LInv, Wants
<1> QED
  BY <1>1 DEF Does, Take, Give, Call

LEMMA JoinsFree ==
  ASSUME LInv, NEW t \in Threads, Joins(t)
  PROVE  held[t] = {} /\ t \in Mains(routine)
<1>1. PICK a : Does(routine, t, held[t], Head(plan[t]), a)
  BY PathHead DEF LInv, Joins
<1> QED
  BY <1>1 DEF Does, Take, Give, Call, Joins

\* If every thread of a set waited for one of the set, one of them would want a
\* mutex, whose holder would want one of a higher rank, and so on without end.
LEMMA LInvNoCircle == LInv => NoCircularWait
<1> SUFFICES ASSUME LInv, NEW S \in SUBSET Threads, S # {},
                    \A t \in S : \E u \in S : WaitsFor(t, u)
             PROVE  FALSE
  BY DEF NoCircularWait
<1> DEFINE Wanted(k) == \E t \in S, m \in Mutexes : Wants(t, m) /\ Rank(m) >= k
<1>1. \E t \in S, m \in Mutexes : Wants(t, m)
  <2>1. PICK t \in S, u \in S : WaitsFor(t, u)
    OBVIOUS
  <2>2. CASE \E m \in Mutexes : Wants(t, m)
    BY <2>2
  <2>3. CASE u \notin Mains(routine)
    <3>1. ~Joins(u)
      BY <2>3, JoinsFree
    <3> QED
      BY <3>1, WaitingAt
  <2> QED
    BY <2>1, <2>2, <2>3, WaitingAt
<1>2. Wanted(1)
  BY <1>1, RankType
<1>3. ASSUME NEW k \in Int, Wanted(k)
      PROVE  Wanted(k + 1)
  <2>1. PICK t \in S, m \in Mutexes : Wants(t, m) /\ Rank(m) >= k
    BY <1>3
  <2>2. PICK u \in S : WaitsFor(t, u)
    OBVIOUS
  <2>3. m \in held[u]
    <3>1. ~Joins(t)
      BY <2>1 DEF Wants, Joins, Take
    <3>2. PICK n \in Mutexes : Wants(t, n) /\ n \in held[u]
      BY <2>2, <3>1, WaitingAt
    <3> QED
      BY <2>1, <3>2 DEF Wants, Take
  <2>4. ~Joins(u)
    BY <2>3, JoinsFree
  <2>5. PICK n \in Mutexes : Wants(u, n)
    BY <2>4, WaitingAt
  <2>6. Rank(m) < Rank(n)
    BY <2>3, <2>5, WantsInOrder DEF Below
  <2>7. Rank(n) \in Int /\ Rank(m) \in Int
    BY RankType
  <2> QED
    BY <2>1, <2>5, <2>6, <2>7
<1> HIDE DEF Wanted
<1>4. Wanted(2)
  BY <1>2, <1>3
<1>5. Wanted(3)
  BY <1>4, <1>3
<1>6. Wanted(4)
  BY <1>5, <1>3
<1>7. Wanted(5)
  BY <1>6, <1>3
<1> QED
  BY <1>7, RankType DEF Wanted

\* No threads wait for each other in a circle, whichever and however many there
\* are: neither for mutexes nor with pthread_join.
THEOREM NoDeadlock == LockSpec => []NoCircularWait
BY LocksInOrder, LInvNoCircle, PTL
==============================================================================
