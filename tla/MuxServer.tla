------------------------------ MODULE MuxServer ------------------------------
(***************************************************************************)
(* The message server of libdevmgr: the socket multiplexer                 *)
(* (net/TransSockInst.cpp), the sessions it dispatches to                  *)
(* (net/TransHandler.cpp, net/TransStreamHandler.cpp) and the server that  *)
(* creates and frees them (net/CommonServer.cpp, net/TransCenter.cpp).     *)
(*                                                                         *)
(* Four threads work on one connection: the accept thread creates it, the  *)
(* mux thread receives for it and finds that its session is over, the      *)
(* cleanup thread frees it, and the main thread unloads everything.  A     *)
(* TransSockInst and its handler are one Inst, as they live and die        *)
(* together.  _MuxLock is held by the mux thread while it dispatches; all  *)
(* other critical sections are single steps.                               *)
(***************************************************************************)
EXTENDS Integers, FiniteSets

CONSTANTS
  Inst,      \* connections, numbered as they are created: a TransSockInst,
             \* its handler and its CLIENT_REC
  Fd,        \* socket descriptors the kernel hands out
  OthersUseFd,  \* other parts of the process open and close descriptors too
  NoInst, NoFd

ASSUME MuxConstants ==
  /\ Inst \cup Fd \subseteq Nat /\ OthersUseFd \in BOOLEAN
  /\ NoInst \notin Inst /\ NoFd \notin Fd

Thread == {"mux", "accept", "cleanup", "main"}
Freer == {"cleanup", "main"}   \* the threads that call FreeClientRec

VARIABLES
  pc, cur,   \* each thread: where it is, the connection it has in hand
  fdOpen,    \* descriptors of accepted connections that are not closed
  input,     \* what recv on a descriptor would return
  instFd,    \* _s
  alive,     \* _TransList: created and not yet deleted
  handler,   \* _pTransHandler is set
  ignore,    \* _bIgnore
  ended,     \* _bSessionEnd
  muxList,   \* _MuxList
  rdFds,     \* the descriptors MuxThread hands to select, then those it returns
  todo,      \* connections still to be dispatched to
  closing,   \* _SocketList: descriptors the mux thread is to close
  clients,   \* _ClientList
  endList,   \* EndList of CleanupThread
  muxSem, endSem,  \* _hMuxEvent, _hEndEvent
  quit, muxQuit    \* _bQuit, _bMuxQuit

vars == <<pc, cur, fdOpen, input, instFd, alive, handler, ignore, ended, muxList,
          rdFds, todo, closing, clients, endList, muxSem, endSem, quit, muxQuit>>

TypeOK ==
  /\ pc \in [Thread ->
       {"absent", "exited",
        "test", "build", "wait", "select", "lock", "dispatch", "signal",
        "accept", "create", "start", "register", "post", "drop",
        "collect", "free", "delete", "load", "loading", "run", "unload",
        "joinaccept", "joincleanup", "joinmux", "down"}]
  /\ cur \in [Thread -> Inst \cup {NoInst}]
  /\ fdOpen \subseteq Fd /\ rdFds \subseteq Fd /\ closing \subseteq Fd
  /\ input \in [Fd -> {"none", "data", "eof"}]
  /\ instFd \in [Inst -> Fd \cup {NoFd}]
  /\ alive \subseteq Inst /\ muxList \subseteq Inst /\ todo \subseteq Inst
  /\ clients \subseteq Inst /\ endList \subseteq Inst
  /\ handler \in [Inst -> BOOLEAN] /\ ignore \in [Inst -> BOOLEAN]
  /\ ended \in [Inst -> BOOLEAN]
  /\ muxSem \in Nat /\ endSem \in Nat
  /\ quit \in BOOLEAN /\ muxQuit \in BOOLEAN

Init ==
  /\ pc = [t \in Thread |->
             CASE t = "mux" -> "test" [] t = "main" -> "load" [] OTHER -> "absent"]
  /\ cur = [t \in Thread |-> NoInst]
  /\ fdOpen = {} /\ rdFds = {} /\ closing = {}
  /\ input = [f \in Fd |-> "none"]
  /\ instFd = [i \in Inst |-> NoFd]
  /\ alive = {} /\ muxList = {} /\ todo = {} /\ clients = {} /\ endList = {}
  /\ handler = [i \in Inst |-> FALSE]
  /\ ignore = [i \in Inst |-> FALSE]
  /\ ended = [i \in Inst |-> FALSE]
  /\ muxSem = 0 /\ endSem = 0
  /\ quit = FALSE /\ muxQuit = FALSE

At(t, from, to) == pc[t] = from /\ pc' = [pc EXCEPT ![t] = to]

\* The mux thread holds _MuxLock.
MuxLocked == pc["mux"] \in {"dispatch", "signal"}

\* Groups of variables for UNCHANGED.
kernel == <<fdOpen, input>>
instVars == <<instFd, alive, handler, ignore, ended>>
muxVars == <<muxList, rdFds, todo, closing, muxSem, muxQuit>>
serverVars == <<clients, endList, endSem, quit>>

------------------------------------------------------------------------------
(* The peers.                                                              *)

PeerSend(f) ==
  /\ f \in fdOpen /\ input[f] = "none"
  /\ input' = [input EXCEPT ![f] = "data"]
  /\ UNCHANGED <<pc, cur, fdOpen, instVars, muxVars, serverVars>>

PeerClose(f) ==
  /\ f \in fdOpen /\ input[f] = "none"
  /\ input' = [input EXCEPT ![f] = "eof"]
  /\ UNCHANGED <<pc, cur, fdOpen, instVars, muxVars, serverVars>>

------------------------------------------------------------------------------
(* The mux thread.                                                         *)

\* while ( !_bMuxQuit ), and CleanupSocketList.
CleanupSocketList ==
  /\ fdOpen' = fdOpen \ closing
  /\ input' = [f \in Fd |-> IF f \in closing THEN "none" ELSE input[f]]
  /\ closing' = {}

MuxTest ==
  /\ At("mux", "test", IF muxQuit THEN "exited" ELSE "build")
  /\ IF muxQuit THEN UNCHANGED <<kernel, closing>> ELSE CleanupSocketList
  /\ UNCHANGED <<cur, instVars, muxList, rdFds, todo, muxSem, muxQuit, serverVars>>

\* Collect the descriptors to select on; with none, wait for a post.
MuxBuild ==
  LET fds == {instFd[i] : i \in {j \in muxList : ~ignore[j]}}
  IN /\ At("mux", "build", IF fds = {} THEN "wait" ELSE "select")
     /\ rdFds' = fds
     /\ UNCHANGED <<cur, kernel, instVars, muxList, todo, closing, muxSem, muxQuit, serverVars>>

MuxWait ==
  /\ At("mux", "wait", "test")
  /\ muxSem > 0
  /\ muxSem' = muxSem - 1
  /\ UNCHANGED <<cur, kernel, instVars, muxList, rdFds, todo, closing, muxQuit, serverVars>>

\* select, without _MuxLock: it times out or fails ...
Readable == {f \in rdFds : input[f] # "none"}

MuxSelectNothing ==
  /\ At("mux", "select", "test")
  /\ Readable = {} \/ ~(rdFds \subseteq fdOpen)
  /\ rdFds' = {}
  /\ UNCHANGED <<cur, kernel, instVars, muxList, todo, closing, muxSem, muxQuit, serverVars>>

\* ... or returns the descriptors with input.
MuxSelect ==
  /\ At("mux", "select", "lock")
  /\ Readable # {} /\ rdFds \subseteq fdOpen
  /\ rdFds' = Readable
  /\ UNCHANGED <<cur, kernel, instVars, muxList, todo, closing, muxSem, muxQuit, serverVars>>

\* Mutant: every connection is taken to have input.
MuxLockAll ==
  /\ At("mux", "lock", "dispatch")
  /\ todo' = {i \in muxList : ~ignore[i]}
  /\ rdFds' = {}
  /\ UNCHANGED <<cur, kernel, instVars, muxList, closing, muxSem, muxQuit, serverVars>>

\* Lock again and walk the list, which may have changed since.
MuxLock ==
  /\ At("mux", "lock", "dispatch")
  /\ todo' = {i \in muxList : instFd[i] \in rdFds}
  /\ rdFds' = {}
  /\ UNCHANGED <<cur, kernel, instVars, muxList, closing, muxSem, muxQuit, serverVars>>

\* OnRecvReady receives a well-formed piece of the stream.
MuxReceive(i) ==
  /\ pc["mux"] = "dispatch" /\ i \in todo
  /\ input[instFd[i]] = "data"
  /\ input' = [input EXCEPT ![instFd[i]] = "none"]
  /\ todo' = todo \ {i}
  /\ UNCHANGED <<pc, cur, fdOpen, instVars, muxList, rdFds, closing, muxSem, muxQuit, serverVars>>

\* OnRecvReady fails to receive, or finds a bad header, and calls EndSession:
\* the session is over, the connection suspended ...
MuxEndSession(i) ==
  /\ pc["mux"] = "dispatch" /\ i \in todo
  /\ pc' = [pc EXCEPT !["mux"] = "signal"]
  /\ \/ input[instFd[i]] = "eof" /\ UNCHANGED input
     \/ input[instFd[i]] = "data" /\ input' = [input EXCEPT ![instFd[i]] = "none"]
  /\ ended' = [ended EXCEPT ![i] = TRUE]
  /\ ignore' = [ignore EXCEPT ![i] = TRUE]
  /\ todo' = todo \ {i}
  /\ UNCHANGED <<cur, fdOpen, instFd, alive, handler, muxList, rdFds, closing, muxSem,
                 muxQuit, serverVars>>

\* ... and the cleanup thread is told.
MuxSignal ==
  /\ At("mux", "signal", "dispatch")
  /\ endSem' = endSem + 1
  /\ UNCHANGED <<cur, kernel, instVars, muxVars, clients, endList, quit>>

MuxUnlock ==
  /\ At("mux", "dispatch", "test")
  /\ todo = {}
  /\ UNCHANGED <<cur, kernel, instVars, muxList, rdFds, todo, closing, muxSem, muxQuit, serverVars>>

------------------------------------------------------------------------------
(* The accept thread.                                                      *)

AcceptTest ==
  /\ At("accept", "test", IF quit THEN "exited" ELSE "accept")
  /\ UNCHANGED <<cur, kernel, instVars, muxVars, serverVars>>

\* WaitConnectIn times out and the loop ends; a timeout that leads to
\* another round changes nothing.
AcceptTimeout ==
  /\ At("accept", "accept", "exited")
  /\ quit
  /\ UNCHANGED <<cur, kernel, instVars, muxVars, serverVars>>

\* A connection comes in: accept returns the lowest descriptor that is not
\* open, and BindTransHandler wraps it in a new TransSockInst.
AcceptConn(i, f) ==
  /\ At("accept", "accept", "create")
  /\ instFd[i] = NoFd /\ \A j \in Inst : instFd[j] = NoFd => i <= j
  /\ f \in Fd \ fdOpen /\ (OthersUseFd \/ \A g \in Fd \ fdOpen : f <= g)
  /\ cur' = [cur EXCEPT !["accept"] = i]
  /\ fdOpen' = fdOpen \cup {f}
  /\ instFd' = [instFd EXCEPT ![i] = f]
  /\ alive' = alive \cup {i}
  /\ UNCHANGED <<input, handler, ignore, ended, muxVars, serverVars>>

\* CreateClientRec fails to allocate the record and stops a connection that
\* was never started.  What follows in Stop (assertion, then a call through
\* the missing handler) is the end of the process.
AcceptNoMemory ==
  /\ At("accept", "create", "drop")
  /\ UNCHANGED <<cur, kernel, instVars, muxVars, serverVars>>

AcceptList ==
  /\ At("accept", "create", "start")
  /\ clients' = clients \cup {cur["accept"]}
  /\ UNCHANGED <<cur, kernel, instVars, muxVars, endList, endSem, quit>>

\* The handler's Init, and Start up to the call of Register.
AcceptStart ==
  /\ At("accept", "start", "register")
  /\ handler' = [handler EXCEPT ![cur["accept"]] = TRUE]
  /\ ignore' = [ignore EXCEPT ![cur["accept"]] = FALSE]
  /\ UNCHANGED <<cur, kernel, instFd, alive, ended, muxVars, serverVars>>

\* Mutant: Register never posts.
AcceptRegisterSilently ==
  /\ ~MuxLocked
  /\ At("accept", "register", "test")
  /\ muxList' = muxList \cup {cur["accept"]}
  /\ UNCHANGED <<cur, kernel, instVars, rdFds, todo, closing, muxSem, muxQuit, serverVars>>

\* Register, and its post for the first connection of the list.
AcceptRegister ==
  /\ ~MuxLocked
  /\ At("accept", "register", IF muxList = {} THEN "post" ELSE "test")
  /\ muxList' = muxList \cup {cur["accept"]}
  /\ UNCHANGED <<cur, kernel, instVars, rdFds, todo, closing, muxSem, muxQuit, serverVars>>

AcceptPost ==
  /\ At("accept", "post", "test")
  /\ muxSem' = muxSem + 1
  /\ UNCHANGED <<cur, kernel, instVars, muxList, rdFds, todo, closing, muxQuit, serverVars>>

------------------------------------------------------------------------------
(* The cleanup thread, and FreeClientRec as both it and Unload call it.    *)

CleanupWait ==
  /\ At("cleanup", "wait", IF quit THEN "exited" ELSE "collect")
  /\ endSem > 0
  /\ endSem' = endSem - 1
  /\ UNCHANGED <<cur, kernel, instVars, muxVars, clients, endList, quit>>

\* Mutant: the records stay on _ClientList.
CleanupCollectNoErase ==
  /\ At("cleanup", "collect", "free")
  /\ endList' = {i \in clients : ended[i]}
  /\ UNCHANGED <<cur, kernel, instVars, muxVars, clients, endSem, quit>>

\* Under _ClientLock, move the records whose session is over to EndList.
CleanupCollect ==
  /\ At("cleanup", "collect", "free")
  /\ endList' = {i \in clients : ended[i]}
  /\ clients' = {i \in clients : ~ended[i]}
  /\ UNCHANGED <<cur, kernel, instVars, muxVars, endSem, quit>>

CleanupDone ==
  /\ At("cleanup", "free", "wait")
  /\ endList = {}
  /\ UNCHANGED <<cur, kernel, instVars, muxVars, serverVars>>

\* The records thread t has still to free.
Pending(t) == IF t = "cleanup" THEN endList ELSE clients

\* Take a record off the list; Stop: Unregister, OnStopped, no handler.
FreeStop(t, i) ==
  /\ ~MuxLocked
  /\ At(t, "free", "delete")
  /\ i \in Pending(t)
  /\ cur' = [cur EXCEPT ![t] = i]
  /\ endList' = IF t = "cleanup" THEN endList \ {i} ELSE endList
  /\ clients' = IF t = "main" THEN clients \ {i} ELSE clients
  /\ muxList' = muxList \ {i}
  /\ handler' = [handler EXCEPT ![i] = FALSE]
  /\ UNCHANGED <<kernel, instFd, alive, ignore, ended, rdFds, todo, closing, muxSem,
                 muxQuit, endSem, quit>>

\* Fini, FinishTransInst and the destructor: CloseSocket leaves the closing
\* to the mux thread ...
FreeDelete(t) ==
  /\ At(t, "delete", "post")
  /\ alive' = alive \ {cur[t]}
  /\ closing' = closing \cup {instFd[cur[t]]}
  /\ UNCHANGED <<cur, kernel, instFd, handler, ignore, ended, muxList, rdFds, todo,
                 muxSem, muxQuit, serverVars>>

\* Mutant: CloseSocket without the post.
FreePostMissing(t) ==
  /\ At(t, "post", "free")
  /\ cur' = [cur EXCEPT ![t] = NoInst]
  /\ UNCHANGED <<kernel, instVars, muxVars, serverVars>>

\* ... and wakes it.
FreePost(t) ==
  /\ At(t, "post", "free")
  /\ cur' = [cur EXCEPT ![t] = NoInst]
  /\ muxSem' = muxSem + 1
  /\ UNCHANGED <<kernel, instVars, muxList, rdFds, todo, closing, muxQuit, serverVars>>

------------------------------------------------------------------------------
(* The main thread: Load, Unload, TransSockInst::Cleanup.                  *)

\* Load creates the cleanup thread, then the accept thread; when either
\* fails it goes on with Unload.
LoadCleanup ==
  /\ pc["main"] = "load"
  /\ \/ pc' = [pc EXCEPT !["main"] = "loading", !["cleanup"] = "wait"]
     \/ pc' = [pc EXCEPT !["main"] = "unload"]
  /\ UNCHANGED <<cur, kernel, instVars, muxVars, serverVars>>

LoadAccept ==
  /\ pc["main"] = "loading"
  /\ \/ pc' = [pc EXCEPT !["main"] = "run", !["accept"] = "test"]
     \/ pc' = [pc EXCEPT !["main"] = "unload"]
  /\ UNCHANGED <<cur, kernel, instVars, muxVars, serverVars>>

\* The application unloads the server.
Unload ==
  /\ At("main", "run", "unload")
  /\ UNCHANGED <<cur, kernel, instVars, muxVars, serverVars>>

UnloadQuit ==
  /\ At("main", "unload", "joinaccept")
  /\ quit' = TRUE
  /\ UNCHANGED <<cur, kernel, instVars, muxVars, clients, endList, endSem>>

\* A mutant: the cleanup thread gets no post.
UnloadJoinAcceptSilently ==
  /\ At("main", "joinaccept", "joincleanup")
  /\ pc["accept"] \in {"absent", "exited"}
  /\ UNCHANGED <<cur, kernel, instVars, muxVars, serverVars>>

UnloadJoinAccept ==
  /\ At("main", "joinaccept", "joincleanup")
  /\ pc["accept"] \in {"absent", "exited"}
  /\ endSem' = IF pc["cleanup"] = "absent" THEN endSem ELSE endSem + 1
  /\ UNCHANGED <<cur, kernel, instVars, muxVars, clients, endList, quit>>

UnloadJoinCleanup ==
  /\ At("main", "joincleanup", "free")
  /\ pc["cleanup"] \in {"absent", "exited"}
  /\ UNCHANGED <<cur, kernel, instVars, muxVars, serverVars>>

\* _ClientList is empty; TransSockInst::Cleanup stops the mux thread ...
MuxStop ==
  /\ At("main", "free", "joinmux")
  /\ clients = {}
  /\ muxQuit' = TRUE
  /\ muxSem' = muxSem + 1
  /\ UNCHANGED <<cur, kernel, instVars, muxList, rdFds, todo, closing, serverVars>>

\* ... joins it and closes what it has not closed.
MuxJoin ==
  /\ At("main", "joinmux", "down")
  /\ pc["mux"] = "exited"
  /\ CleanupSocketList
  /\ UNCHANGED <<cur, instVars, muxList, rdFds, todo, muxSem, muxQuit, serverVars>>

------------------------------------------------------------------------------

Crashed == pc["accept"] = "drop"

MuxStep ==
  \/ MuxTest \/ MuxBuild \/ MuxWait \/ MuxSelectNothing \/ MuxSelect \/ MuxLock
  \/ \E i \in Inst : MuxReceive(i) \/ MuxEndSession(i)
  \/ MuxSignal \/ MuxUnlock

AcceptStep ==
  \/ AcceptTest \/ AcceptTimeout \/ AcceptNoMemory \/ AcceptList \/ AcceptStart
  \/ AcceptRegister \/ AcceptPost

FreeStep(t) == (\E i \in Inst : FreeStop(t, i)) \/ FreeDelete(t) \/ FreePost(t)

CleanupStep == CleanupWait \/ CleanupCollect \/ CleanupDone \/ FreeStep("cleanup")

MainStep ==
  \/ LoadCleanup \/ LoadAccept \/ UnloadQuit \/ UnloadJoinAccept
  \/ UnloadJoinCleanup \/ FreeStep("main") \/ MuxStop \/ MuxJoin

Next ==
  \/ /\ ~Crashed
     /\ \/ MuxStep \/ AcceptStep \/ CleanupStep \/ MainStep \/ Unload
        \/ \E f \in Fd : PeerSend(f) \/ PeerClose(f) \/ \E i \in Inst : AcceptConn(i, f)
  \/ /\ Crashed \/ pc["main"] = "down"
     /\ UNCHANGED vars

Spec == Init /\ [][Next]_vars

\* Every thread that can run does run; peers need not connect or send.  The
\* mux thread never waits for _MuxLock here; for the others the lock is free
\* only now and then while peers keep sending, so they need strong fairness:
\* a mutex that is released again and again is at last obtained.
Running(A) == ~Crashed /\ A

Fairness ==
  /\ WF_vars(Running(MuxStep))
  /\ SF_vars(Running(AcceptStep)) /\ SF_vars(Running(CleanupStep))
  /\ SF_vars(Running(MainStep))

FairSpec == Spec /\ Fairness

------------------------------------------------------------------------------
(* Properties.                                                             *)

\* When the mux thread calls OnRecvReady, recv has something to return: the
\* descriptor was not closed and reopened since select reported it, which the
\* comment in ~TransSockInst (TransSockInst.cpp:213-216) says would block it.
NeverBlocksInRecv == \A i \in todo : input[instFd[i]] # "none"

\* The mux thread dispatches only to connections that exist, still have their
\* handler (the assertion at TransSockInst.cpp:189) and whose session has not
\* ended, although they may be stopped and deleted while it is in select: so a
\* session ends only once, and nothing is received for it afterwards.
DispatchSafe == \A i \in todo : i \in alive /\ handler[i] /\ ~ended[i]

\* FreeClientRec stops only connections that are registered (the assertion
\* of Unregister, TransSockInst.cpp:95).
FreesRegistered == \A t \in Freer : pc[t] = "free" => Pending(t) \subseteq muxList

\* Nobody holds a connection that is deleted: the lists, the accept thread
\* until Register has it listed, and the threads that free (the comment at
\* CommonServer.cpp:283-284).  No connection has two owners that will free it,
\* and what is freed was registered.
OwnersLive ==
  /\ clients \cup endList \cup muxList \subseteq alive
  /\ clients \cap endList = {}
  /\ pc["accept"] \in {"create", "start", "register"} => cur["accept"] \in alive
  /\ \A t \in Freer : pc[t] = "delete" => /\ cur[t] \in alive
                                          /\ cur[t] \notin clients \cup endList
  /\ FreesRegistered

\* When everything is unloaded no connection, record or socket is left; the
\* destructor of TransCenter asserts it of _TransList (TransCenter.cpp:39).
CleanShutdown ==
  pc["main"] = "down" => alive = {} /\ muxList = {} /\ clients = {} /\ fdOpen = {}

\* The life of a connection across the four threads: it is dispatched to only
\* while it lives, freed by one owner, and gone when everything is unloaded.
ConnectionsSound == DispatchSafe /\ OwnersLive /\ CleanShutdown

\* A connection whose session is over is deleted and its socket closed, even
\* when no other connection keeps the mux thread awake (the comment at
\* TransSockInst.cpp:109-110).
EndedIsClosed ==
  \A i \in Inst : ended[i] ~> (Crashed \/ (i \notin alive /\ instFd[i] \notin closing))

\* Input on a registered connection is received, also when the connection was
\* registered while the mux thread slept over a list of ended sessions.
InputReceived ==
  \A i \in Inst :
     (i \in muxList /\ input[instFd[i]] # "none") ~>
        (Crashed \/ i \notin muxList \/ ended[i] \/ input[instFd[i]] = "none")

\* Unload and Cleanup return: no thread they join sleeps for ever.
ShutdownReturns == quit ~> (Crashed \/ pc["main"] = "down")
==============================================================================
