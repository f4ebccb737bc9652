------------------------- MODULE HelloServerProofs -------------------------
(***************************************************************************)
(* Theorems about HelloServer, for every set of clients and every number   *)
(* of lives: the types, that nothing is used that is not there, and that   *)
(* no client outlives the main loop.                                       *)
(***************************************************************************)
EXTENDS HelloServer, TLAPS

------------------------------------------------------------------------------
(* The invariant.                                                          *)

CondsThere == {"up", "signal_snd", "signal_rcv", "conds"}
MutexesThere == CondsThere \cup {"join_snd", "join_rcv", "mutexes"}
LoopsStopping == {"send_main", "join_main", "send_bc", "join_bc", "release"}

\* w has been signalled, and will not wait again.
Signalled(w) ==
  uiPc \in {"conds", "join_snd", "join_rcv", "mutexes"} \cup LoopsStopping
           \cup (IF w = "snd" THEN {"signal_rcv"} ELSE {})

\* The workers have what they use, and are past their waits when it goes.
Workers ==
  /\ uiPc \notin {"down", "create", "up"} => quit
  /\ \A w \in Worker :
       /\ uiPc \in CondsThere => cond[w]
       /\ IF uiPc \in MutexesThere THEN mutex[w] ELSE wPc[w] \in {"none", "done"}
       /\ Signalled(w) => wPc[w] \notin {"sleep", "wait"}
  /\ uiPc \in {"join_rcv", "mutexes"} => wPc["snd"] = "done"
  /\ uiPc = "mutexes" => wPc["rcv"] = "done"

\* A loop thread polls between start-up and the join, and the service object
\* is there for as long.
Loops ==
  /\ \A l \in Loop :
       /\ lPc[l] \in {"run", "java"} => async[l]
       /\ pend[l] # {} \/ brk[l] => lPc[l] \in {"run", "java"}
       /\ uiPc = "down" => lPc[l] \in {"none", "done"}
  /\ uiPc \in {"send_bc", "join_bc", "release"} => lPc["main"] = "done"
  /\ uiPc = "release" => lPc["bc"] = "done"
  /\ gObject <=> uiPc # "down"

\* From ev_break on there is no client and no way to become one.
Closed ==
  brk["main"] \/ lPc["main"] = "done" =>
     ~sock["main"] /\ \A c \in Client : conn[c] \notin {"backlog", "open"}

HInv == TypeOK /\ Workers /\ Loops /\ Closed

------------------------------------------------------------------------------

\* The library starts in HInv.
LEMMA InitHInv == Init => HInv
<1> SUFFICES ASSUME Init
             PROVE  HInv
  OBVIOUS
<1>1. TypeOK
  <2>1. {c \in Client : conn[c] = "open"} = {}
    BY DEF Init
  <2>2. 0 \in 0 .. MaxLives
    BY HelloConstants
  <2> QED
    BY <2>1, <2>2 DEF Init, TypeOK
<1>2. Workers /\ Loops /\ Closed
  BY DEF Init, Workers, Loops, Closed, CondsThere, MutexesThere, LoopsStopping, Signalled,
         Worker, Loop
<1> QED
  BY <1>1, <1>2 DEF HInv

\* Every step of the library preserves HInv.
LEMMA NextHInv == HInv /\ [Next]_vars => HInv'
<1> SUFFICES ASSUME HInv, [Next]_vars
             PROVE  HInv'
  OBVIOUS
<1> USE HelloConstants DEF HInv, TypeOK, uiVars, workVars, loopVars, cliVars, Worker, Loop
<1>1. CASE ServerInit
  BY <1>1 DEF ServerInit, Workers, CondsThere, MutexesThere, LoopsStopping, Signalled,
     Loops, Closed
<1>2. CASE CreateWorkers
  BY <1>2 DEF CreateWorkers, Workers, CondsThere, MutexesThere, LoopsStopping,
     Signalled, Loops, Closed
<1>3. CASE ServerExit
  BY <1>3 DEF ServerExit, UiGoto, Workers, CondsThere, MutexesThere, LoopsStopping,
     Signalled, Loops, Closed
<1>4. CASE SignalWorkers
  <2>1. TypeOK'
    BY <1>4 DEF SignalWorkers, Signal, UiGoto, Loops, Event
  <2>2. Workers'
    BY <1>4 DEF SignalWorkers, Signal, UiGoto, Workers, CondsThere, MutexesThere,
       LoopsStopping, Signalled
  <2>3. Loops'
    BY <1>4 DEF SignalWorkers, Signal, UiGoto, Loops
  <2>4. Closed'
    BY <1>4 DEF SignalWorkers, Signal, UiGoto, Loops, Closed
  <2> QED
    BY <2>1, <2>2, <2>3, <2>4
<1>5. CASE DestroyConds
  BY <1>5 DEF DestroyConds, UiGoto, Workers, CondsThere, MutexesThere, LoopsStopping,
     Signalled, Loops, Closed
<1>6. CASE JoinWorkers
  <2>1. TypeOK'
    BY SMTT(30), <1>6 DEF JoinWorkers, JoinWorker, UiGoto, Loops, Event
  <2>2. Workers'
    BY <1>6 DEF JoinWorkers, JoinWorker, UiGoto, Workers, CondsThere, MutexesThere,
       LoopsStopping, Signalled
  <2>3. Loops'
    BY <1>6 DEF JoinWorkers, JoinWorker, UiGoto, Loops
  <2>4. Closed'
    BY <1>6 DEF JoinWorkers, JoinWorker, UiGoto, Loops, Closed
  <2> QED
    BY <2>1, <2>2, <2>3, <2>4
<1>7. CASE DestroyMutexes
  BY <1>7 DEF DestroyMutexes, UiGoto, Workers, CondsThere, MutexesThere,
     LoopsStopping, Signalled, Loops, Closed
<1>8. CASE StopLoops
  <2>1. TypeOK'
    <3>1. CASE Send("main", "send_main", "join_main")
      BY <3>1 DEF Send, UiGoto, Loops
    <3>2. CASE JoinLoop("main", "join_main", "send_bc")
      BY <3>2 DEF JoinLoop, UiGoto
    <3>3. CASE Send("bc", "send_bc", "join_bc")
      BY <3>3 DEF Send, UiGoto, Loops
    <3>4. CASE JoinLoop("bc", "join_bc", "release")
      BY <3>4 DEF JoinLoop, UiGoto
    <3> QED
      BY <1>8, <3>1, <3>2, <3>3, <3>4 DEF StopLoops
  <2>2. Workers'
    BY <1>8 DEF StopLoops, Send, JoinLoop, UiGoto, Workers, CondsThere, MutexesThere,
       LoopsStopping, Signalled
  <2>3. Loops'
    BY <1>8 DEF StopLoops, Send, JoinLoop, UiGoto, Loops
  <2>4. Closed'
    BY <1>8 DEF StopLoops, Send, JoinLoop, UiGoto, Loops, Closed
  <2> QED
    BY <2>1, <2>2, <2>3, <2>4
<1>9. CASE Release
  BY <1>9 DEF Release, UiGoto, Workers, CondsThere, MutexesThere, LoopsStopping,
     Signalled, Loops, Closed
<1>10. ASSUME NEW w \in Worker, WorkerLoop(w)
      PROVE  HInv'
  BY <1>10 DEF WorkerLoop, WorkerGoto, Workers, CondsThere, MutexesThere,
     LoopsStopping, Signalled, Loops, Closed
<1>11. ASSUME NEW w \in Worker, WorkerLock(w)
      PROVE  HInv'
  BY <1>11 DEF WorkerLock, WorkerGoto, Workers, CondsThere, MutexesThere,
     LoopsStopping, Signalled, Loops, Closed
<1>12. ASSUME NEW w \in Worker, WorkerTest(w)
      PROVE  HInv'
  BY <1>12 DEF WorkerTest, WorkerGoto, Workers, CondsThere, MutexesThere,
     LoopsStopping, Signalled, Loops, Closed
<1>13. ASSUME NEW w \in Worker, WorkerSleep(w)
      PROVE  HInv'
  BY <1>13 DEF WorkerSleep, WorkerGoto, Workers, CondsThere, MutexesThere,
     LoopsStopping, Signalled, Loops, Closed
<1>14. ASSUME NEW w \in Worker, WorkerSpurious(w)
      PROVE  HInv'
  BY <1>14 DEF WorkerSpurious, WorkerGoto, Workers, CondsThere, MutexesThere,
     LoopsStopping, Signalled, Loops, Closed
<1>15. ASSUME NEW l \in Loop, LoopCreate(l)
      PROVE  HInv'
  BY <1>15 DEF LoopCreate, Workers, CondsThere, MutexesThere, LoopsStopping,
     Signalled, Loops, Closed
<1>16. ASSUME NEW l \in Loop, LoopListen(l)
      PROVE  HInv'
  <2>1. TypeOK'
    <3>1. dead' \in BOOLEAN
      BY <1>16 DEF LoopListen
    <3>2. /\ lPc' \in [Loop -> {"none", "create", "listen", "run", "java", "done"}]
          /\ sock' \in [Loop -> BOOLEAN] /\ async' \in [Loop -> BOOLEAN]
      <4>1. CASE UNCHANGED <<lPc, sock, async>>
        BY <4>1
      <4>2. CASE /\ lPc' = [lPc EXCEPT ![l] = "run"]
                 /\ sock' = [sock EXCEPT ![l] = TRUE]
                 /\ async' = [async EXCEPT ![l] = TRUE]
        BY <4>2
      <4> QED
        BY <1>16, <4>1, <4>2 DEF LoopListen
    <3>3. \A m \in Loop : async[m] => async'[m]
      BY <1>16 DEF LoopListen
    <3> QED
      BY <1>16, <3>1, <3>2, <3>3 DEF LoopListen
  <2>2. Workers'
    BY <1>16 DEF LoopListen, Workers, CondsThere, MutexesThere, LoopsStopping,
       Signalled
  <2>3. Loops'
    BY <1>16 DEF LoopListen, Loops
  <2>4. Closed'
    BY <1>16 DEF LoopListen, Loops, Closed
  <2> QED
    BY <2>1, <2>2, <2>3, <2>4
<1>17. ASSUME NEW l \in Loop, Poll(l)
      PROVE  HInv'
  <2>1. TypeOK'
    <3>1. PICK due \in SUBSET ({"periodic"} \cap IF l = "main" THEN Event ELSE {}) :
                 pend' = [pend EXCEPT ![l] = Ready(l) \cup due]
      BY <1>17 DEF Poll
    <3>2. Ready(l) \cup due \in SUBSET Event
      BY DEF Ready, Event
    <3>3. pend' \in [Loop -> SUBSET Event]
      BY <3>1, <3>2
    <3>4. /\ sent' \in [Loop -> BOOLEAN]
          /\ \A m \in Loop : sent'[m] => sent[m]
      BY <1>17 DEF Poll
    <3> QED
      BY <1>17, <3>3, <3>4 DEF Poll
  <2>2. Workers'
    BY <1>17 DEF Poll, Ready, Workers, CondsThere, MutexesThere, LoopsStopping,
       Signalled
  <2>3. Loops'
    BY <1>17 DEF Poll, Ready, Loops
  <2>4. Closed'
    BY <1>17 DEF Poll, Ready, Loops, Closed
  <2> QED
    BY <2>1, <2>2, <2>3, <2>4
<1>18. CASE SocketCb
  <2>1. TypeOK'
    <3>1. pend' \in [Loop -> SUBSET Event]
      BY <1>18 DEF SocketCb
    <3>2. /\ conn' \in [Client -> {"new", "backlog", "open", "closed", "reset"}]
          /\ clients' = {b \in Client : conn'[b] = "open"} /\ watching' = clients'
      <4>1. ASSUME NEW c \in Client, conn' = [conn EXCEPT ![c] = "open"],
                   clients' = clients \cup {c}, watching' = watching \cup {c}
            PROVE  /\ conn' \in [Client -> {"new", "backlog", "open", "closed", "reset"}]
                   /\ clients' = {b \in Client : conn'[b] = "open"} /\ watching' = clients'
        <5>1. \A b \in Client : conn'[b] = IF b = c THEN "open" ELSE conn[b]
          BY <4>1
        <5> QED
          BY <4>1, <5>1
      <4>2. CASE UNCHANGED cliVars
        BY <4>2
      <4> QED
        BY <1>18, <4>1, <4>2 DEF SocketCb
    <3> QED
      BY <1>18, <3>1, <3>2 DEF SocketCb, Called
  <2>2. Workers'
    BY <1>18 DEF SocketCb, Called, Workers, CondsThere, MutexesThere, LoopsStopping,
       Signalled
  <2>3. Loops'
    BY <1>18 DEF SocketCb, Called, Loops
  <2>4. Closed'
    BY <1>18 DEF SocketCb, Called, Loops, Closed
  <2> QED
    BY <2>1, <2>2, <2>3, <2>4
<1>19. ASSUME NEW c \in Client, ClientCb(c)
      PROVE  HInv'
  <2>1. TypeOK'
    <3>1. /\ input' \in [Client -> {"none", "data", "eof"}]
          /\ pend' \in [Loop -> SUBSET Event]
      BY <1>19 DEF ClientCb
    <3>2. /\ conn' \in [Client -> {"new", "backlog", "open", "closed", "reset"}]
          /\ clients' = {b \in Client : conn'[b] = "open"} /\ watching' = clients'
      <4>1. CASE input[c] = "eof"
        <5>1. /\ conn' = [conn EXCEPT ![c] = "closed"]
              /\ clients' = clients \ {c} /\ watching' = watching \ {c}
          BY <1>19, <4>1 DEF ClientCb
        <5>2. \A b \in Client : conn'[b] = IF b = c THEN "closed" ELSE conn[b]
          BY <5>1
        <5> QED
          BY <5>1, <5>2
      <4>2. CASE input[c] # "eof"
        BY <1>19, <4>2 DEF ClientCb
      <4> QED
        BY <4>1, <4>2
    <3> QED
      BY <1>19, <3>1, <3>2 DEF ClientCb, Called
  <2>2. Workers'
    BY <1>19 DEF ClientCb, Called, Workers, CondsThere, MutexesThere, LoopsStopping,
       Signalled
  <2>3. Loops'
    BY <1>19 DEF ClientCb, Called, Loops
  <2>4. Closed'
    BY <1>19 DEF ClientCb, Called, Loops, Closed
  <2> QED
    BY <2>1, <2>2, <2>3, <2>4
<1>20. CASE MainAsyncCb
  BY <1>20 DEF MainAsyncCb, Called, Workers, CondsThere, MutexesThere, LoopsStopping,
     Signalled, Loops, Closed
<1>21. CASE PeriodicCall
  BY <1>21 DEF PeriodicCall, Called, Workers, CondsThere, MutexesThere, LoopsStopping,
     Signalled, Loops, Closed
<1>22. CASE PeriodicReturn
  BY <1>22 DEF PeriodicReturn, Workers, CondsThere, MutexesThere, LoopsStopping,
     Signalled, Loops, Closed
<1>23. ASSUME NEW l \in Loop, LoopDestroy(l)
      PROVE  HInv'
  BY <1>23 DEF LoopDestroy, Workers, CondsThere, MutexesThere, LoopsStopping,
     Signalled, Loops, Closed
<1>24. CASE BcSocketCb
  BY <1>24 DEF BcSocketCb, Called, Workers, CondsThere, MutexesThere, LoopsStopping,
     Signalled, Loops, Closed
<1>25. CASE BcAsyncCb
  <2>1. TypeOK'
    BY <1>25 DEF BcAsyncCb, Called, Loops, Event
  <2>2. Workers'
    BY <1>25 DEF BcAsyncCb, Called, Workers, CondsThere, MutexesThere, LoopsStopping,
       Signalled
  <2>3. Loops'
    BY <1>25 DEF BcAsyncCb, Called, Loops
  <2>4. Closed'
    BY <1>25 DEF BcAsyncCb, Called, Loops, Closed
  <2> QED
    BY <2>1, <2>2, <2>3, <2>4
<1>26. ASSUME NEW c \in Client, Connect(c)
      PROVE  HInv'
  BY <1>26 DEF Connect, PeerVars, Workers, CondsThere, MutexesThere, LoopsStopping,
     Signalled, Loops, Closed
<1>27. ASSUME NEW c \in Client, PeerSends(c)
      PROVE  HInv'
  BY <1>27 DEF PeerSends, PeerVars, Workers, CondsThere, MutexesThere, LoopsStopping,
     Signalled, Loops, Closed
<1>28. CASE Discover
  BY <1>28 DEF Discover, PeerVars, Workers, CondsThere, MutexesThere, LoopsStopping,
     Signalled, Loops, Closed
<1>29. CASE UNCHANGED vars
  BY <1>29 DEF vars, Workers, CondsThere, MutexesThere, LoopsStopping, Signalled, Loops, Closed
<1> QED
  BY <1>1, <1>2, <1>3, <1>4, <1>5, <1>6, <1>7, <1>8, <1>9, <1>10, <1>11, <1>12, <1>13,
     <1>14, <1>15, <1>16, <1>17, <1>18, <1>19, <1>20, <1>21, <1>22, <1>23, <1>24,
     <1>25, <1>26, <1>27, <1>28, <1>29
  DEF Next, UiStep, WorkerStep, Start, MainLoop, BcLoop, Peers

\* HInv holds in every state.
LEMMA HInvariant == Spec => []HInv
BY InitHInv, NextHInv, PTL DEF Spec

------------------------------------------------------------------------------
(* The theorems.                                                           *)

\* Every variable has its type; in particular the records on client_list are
\* the open clients, and an event is sent only to a watcher that is started.
THEOREM TypeCorrect == Spec => []TypeOK
<1>1. HInv => TypeOK
  BY DEF HInv
<1> QED
  BY <1>1, HInvariant, PTL

\* However often the service is started and stopped, no mutex, condition
\* variable or service object is used that is not there.
THEOREM NothingUsedDead == Spec => []UsesLive
<1>1. HInv => UsesLive
  BY DEF HInv, TypeOK, Workers, Loops, CondsThere, MutexesThere, LoopsStopping, Signalled,
         Worker, Loop, UsesLive
<1> QED
  BY <1>1, HInvariant, PTL

\* Whatever is pending when the loop is broken, no client is left open when
\* the thread has ended.
THEOREM NoClientLeft == Spec => []ClientsClosed
<1>1. HInv => ClientsClosed
  BY DEF HInv, TypeOK, Closed, ClientsClosed
<1> QED
  BY <1>1, HInvariant, PTL

\* In every life of the service what its threads use is there, and no client
\* outlives the main thread.
THEOREM ServiceLives == Spec => []LivesSound
BY NothingUsedDead, NoClientLeft, PTL DEF LivesSound
==============================================================================
