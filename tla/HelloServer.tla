----------------------------- MODULE HelloServer -----------------------------
(***************************************************************************)
(* The message server of the "hello" library (jni/hello-jni.c, jni/src),   *)
(* which NetService starts in onCreate and stops in onDestroy.             *)
(*                                                                         *)
(* server_init starts four threads: the TCP server and the broadcast       *)
(* responder, each running a libev loop, and two packet workers that sleep *)
(* on condition variables.  server_exit stops and joins them: the workers  *)
(* by a flag and a signal, the loops by an async event whose callback      *)
(* closes the sockets and breaks the loop.                                 *)
(*                                                                         *)
(* A client stands for its record, its descriptor and its watcher.  Only   *)
(* the thread of the main loop touches client_list, so a callback is one   *)
(* step.  Nothing in the code adds to rcv_list or snd_list: they are empty *)
(* here.  libev is external: only its calls by this code are modelled.     *)
(***************************************************************************)
EXTENDS Naturals, FiniteSets

CONSTANTS
  Client,    \* the connections peers make
  MaxLives   \* bound on the calls of server_init in one process

ASSUME HelloConstants == MaxLives \in Nat

Worker == {"snd", "rcv"}
Loop == {"main", "bc"}
Event == {"async", "listen", "periodic"} \cup Client

VARIABLES
  uiPc,      \* the Java thread: "down", "up", or a place in init or exit
  life,      \* calls of server_init so far
  dead,      \* the process has ended: exit(0), or a call on no event loop
  gObject,   \* the global reference to the service is valid
  quit,      \* the flag of server.c:24
  wPc,       \* wPc[w]: where a packet worker is
  mutex,     \* mutex[w]: w's list mutex is initialised
  cond,      \* cond[w]: w's condition variable is initialised
  lPc,       \* lPc[l]: where a loop thread is
  loop,      \* loop[l]: "none", "live" or "freed"
  sock,      \* sock[l]: the socket it listens on is open
  async,     \* async[l]: its async watcher is started
  sent,      \* sent[l]: ev_async_send was called, and not yet seen
  brk,       \* brk[l]: ev_break was called
  pend,      \* pend[l]: the callbacks this iteration has still to call
  probe,     \* a broadcast request is waiting in the socket of "bc"
  conn,      \* conn[c]: "new", "backlog", "open", "closed" or "reset"
  clients,   \* the records on client_list
  watching,  \* the clients whose watcher is started
  input      \* input[c]: "none", "data" or "eof" waiting in c's socket

uiVars == <<uiPc, life, gObject>>
workVars == <<quit, wPc, mutex, cond>>
loopVars == <<lPc, loop, async, sent, brk>>
cliVars == <<conn, clients, watching>>
vars == <<uiVars, dead, workVars, loopVars, sock, pend, probe, cliVars, input>>

TypeOK ==
  /\ uiPc \in {"down", "create", "up", "signal_snd", "signal_rcv",
               "conds", "join_snd", "join_rcv", "mutexes", "send_main", "join_main",
               "send_bc", "join_bc", "release"}
  /\ life \in 0 .. MaxLives
  /\ dead \in BOOLEAN /\ gObject \in BOOLEAN /\ quit \in BOOLEAN /\ probe \in BOOLEAN
  /\ wPc \in [Worker -> {"none", "loop", "lock", "test", "sleep", "wait", "done"}]
  /\ mutex \in [Worker -> BOOLEAN] /\ cond \in [Worker -> BOOLEAN]
  /\ lPc \in [Loop -> {"none", "create", "listen", "run", "java", "done"}]
  /\ loop \in [Loop -> {"none", "live", "freed"}]
  /\ sock \in [Loop -> BOOLEAN] /\ async \in [Loop -> BOOLEAN]
  /\ sent \in [Loop -> BOOLEAN] /\ brk \in [Loop -> BOOLEAN]
  /\ pend \in [Loop -> SUBSET Event]
  /\ \A l \in Loop : sent[l] \/ brk[l] => async[l]
  /\ conn \in [Client -> {"new", "backlog", "open", "closed", "reset"}]
  /\ clients = {c \in Client : conn[c] = "open"} /\ watching = clients
  /\ input \in [Client -> {"none", "data", "eof"}]

Init ==
  /\ uiPc = "down" /\ life = 0 /\ gObject = FALSE /\ dead = FALSE /\ quit = FALSE
  /\ wPc = [w \in Worker |-> "none"]
  /\ mutex = [w \in Worker |-> FALSE] /\ cond = [w \in Worker |-> FALSE]
  /\ lPc = [l \in Loop |-> "none"] /\ loop = [l \in Loop |-> "none"]
  /\ sock = [l \in Loop |-> FALSE] /\ async = [l \in Loop |-> FALSE]
  /\ sent = [l \in Loop |-> FALSE] /\ brk = [l \in Loop |-> FALSE]
  /\ pend = [l \in Loop |-> {}] /\ probe = FALSE
  /\ conn = [c \in Client |-> "new"] /\ clients = {} /\ watching = {}
  /\ input = [c \in Client |-> "none"]

------------------------------------------------------------------------------
(* server_init: NewGlobalRef and the four threads; the loop threads run    *)
(* while the lists of the workers are still being made.                    *)

ServerInit ==
  /\ uiPc = "down" /\ life < MaxLives
  /\ uiPc' = "create" /\ life' = life + 1 /\ gObject' = TRUE
  /\ lPc' = [l \in Loop |-> "create"]
  /\ UNCHANGED <<dead, workVars, loop, async, sent, brk, sock, pend, probe, cliVars, input>>

CreateWorkers ==
  /\ uiPc = "create" /\ uiPc' = "up"
  /\ mutex' = [w \in Worker |-> TRUE] /\ cond' = [w \in Worker |-> TRUE]
  /\ wPc' = [w \in Worker |-> "loop"]
  /\ UNCHANGED <<life, gObject, dead, quit, loopVars, sock, pend, probe, cliVars, input>>

------------------------------------------------------------------------------
(* server_exit.                                                            *)

UiGoto(from, to) == uiPc = from /\ uiPc' = to /\ UNCHANGED life

\* NetService.onDestroy, at any time after onCreate; exit_all_thread sets quit
\* with no mutex held.
ServerExit ==
  /\ UiGoto("up", "signal_snd") /\ quit' = TRUE
  /\ UNCHANGED <<gObject, dead, wPc, mutex, cond, loopVars, sock, pend, probe, cliVars, input>>

\* The signal is sent with the mutex held: not while w is testing
\* or about to sleep.
Signal(w, from, to) ==
  /\ UiGoto(from, to)
  /\ wPc[w] \notin {"test", "sleep"}
  /\ wPc' = IF wPc[w] = "wait" THEN [wPc EXCEPT ![w] = "lock"] ELSE wPc
  /\ UNCHANGED <<gObject, dead, quit, mutex, cond, loopVars, sock, pend, probe, cliVars, input>>

\* A signal sent without the mutex.
SignalUnlocked(w, from, to) ==
  /\ UiGoto(from, to)
  /\ wPc' = IF wPc[w] = "wait" THEN [wPc EXCEPT ![w] = "lock"] ELSE wPc
  /\ UNCHANGED <<gObject, dead, quit, mutex, cond, loopVars, sock, pend, probe, cliVars, input>>

\* Both signals go to the sender's condition variable.
SignalSndTwice ==
  \/ Signal("snd", "signal_snd", "signal_rcv")
  \/ Signal("snd", "signal_rcv", "conds")

\* The signals are sent without the mutexes.
SignalWorkersUnlocked ==
  \/ SignalUnlocked("snd", "signal_snd", "signal_rcv")
  \/ SignalUnlocked("rcv", "signal_rcv", "conds")

SignalWorkers ==
  \/ Signal("snd", "signal_snd", "signal_rcv")
  \/ Signal("rcv", "signal_rcv", "conds")

DestroyConds ==
  /\ UiGoto("conds", "join_snd") /\ cond' = [w \in Worker |-> FALSE]
  /\ UNCHANGED <<gObject, dead, quit, wPc, mutex, loopVars, sock, pend, probe, cliVars, input>>

JoinWorker(w, from, to) ==
  /\ UiGoto(from, to) /\ wPc[w] = "done"
  /\ UNCHANGED <<gObject, dead, workVars, loopVars, sock, pend, probe, cliVars, input>>

JoinWorkers ==
  \/ JoinWorker("snd", "join_snd", "join_rcv")
  \/ JoinWorker("rcv", "join_rcv", "mutexes")

DestroyMutexes ==
  /\ UiGoto("mutexes", "send_main") /\ mutex' = [w \in Worker |-> FALSE]
  /\ UNCHANGED <<gObject, dead, quit, wPc, cond, loopVars, sock, pend, probe, cliVars, input>>

\* ev_async_send.  Before the thread has made its loop the pointer is null or
\* that of the last life; before the watcher is started the event is lost.
Send(l, from, to) ==
  /\ UiGoto(from, to)
  /\ dead' = (loop[l] # "live")
  /\ sent' = [sent EXCEPT ![l] = async[l]]
  /\ UNCHANGED <<gObject, workVars, lPc, loop, async, brk, sock, pend, probe, cliVars, input>>

JoinLoop(l, from, to) ==
  /\ UiGoto(from, to) /\ lPc[l] = "done"
  /\ UNCHANGED <<gObject, dead, workVars, loopVars, sock, pend, probe, cliVars, input>>

StopLoops ==
  \/ Send("main", "send_main", "join_main")
  \/ JoinLoop("main", "join_main", "send_bc")
  \/ Send("bc", "send_bc", "join_bc")
  \/ JoinLoop("bc", "join_bc", "release")

Release ==
  /\ UiGoto("release", "down") /\ gObject' = FALSE
  /\ UNCHANGED <<dead, workVars, loopVars, sock, pend, probe, cliVars, input>>

UiStep ==
  \/ CreateWorkers \/ SignalWorkers \/ DestroyConds
  \/ JoinWorkers \/ DestroyMutexes \/ StopLoops \/ Release

------------------------------------------------------------------------------
(* The packet workers: handle_snd_pkt and handle_rcv_pkt.                  *)

WorkerGoto(w, from, to) ==
  /\ wPc[w] = from /\ wPc' = [wPc EXCEPT ![w] = to]
  /\ UNCHANGED <<uiVars, dead, quit, mutex, cond, loopVars, sock, pend, probe, cliVars, input>>

WorkerLoop(w) == WorkerGoto(w, "loop", IF quit THEN "done" ELSE "lock")

WorkerLock(w) == WorkerGoto(w, "lock", "test")

\* With the mutex held; the list is empty.  quit may be set after it was read
\* and before w sleeps.
WorkerTest(w) == WorkerGoto(w, "test", IF quit THEN "done" ELSE "sleep")

\* pthread_cond_wait.
WorkerSleep(w) == WorkerGoto(w, "sleep", "wait")

\* pthread_cond_wait may return without a signal.
WorkerSpurious(w) == WorkerGoto(w, "wait", "lock")

WorkerStep(w) == WorkerLoop(w) \/ WorkerLock(w) \/ WorkerTest(w) \/ WorkerSleep(w)

------------------------------------------------------------------------------
(* The loop threads: main of server.c and bc_main of bcast_server.c.       *)

LoopCreate(l) ==
  /\ lPc[l] = "create"
  /\ lPc' = [lPc EXCEPT ![l] = "listen"]
  /\ loop' = [loop EXCEPT ![l] = "live"]
  /\ UNCHANGED <<uiVars, dead, workVars, async, sent, brk, sock, pend, probe, cliVars, input>>

\* The socket, which if it cannot be made or bound ends the process with
\* exit(0), and the watchers.
LoopListen(l) ==
  /\ lPc[l] = "listen"
  /\ \/ /\ lPc' = [lPc EXCEPT ![l] = "run"]
        /\ sock' = [sock EXCEPT ![l] = TRUE]
        /\ async' = [async EXCEPT ![l] = TRUE]
        /\ UNCHANGED dead
     \/ dead' = TRUE /\ UNCHANGED <<lPc, sock, async>>
  /\ UNCHANGED <<uiVars, workVars, loop, sent, brk, pend, probe, cliVars, input>>

Ready(l) ==
  {e \in Event : \/ e = "async" /\ sent[l]
                 \/ e = "listen" /\ l = "main" /\ \E c \in Client : conn[c] = "backlog"
                 \/ e = "listen" /\ l = "bc" /\ probe
                 \/ l = "main" /\ e \in watching /\ input[e] # "none"}

\* An iteration of ev_run: everything that is ready is to be called, and the
\* periodic watcher if its time has come; that of "bc" only logs, and is left
\* out.
Poll(l) ==
  /\ lPc[l] = "run" /\ pend[l] = {} /\ ~brk[l]
  /\ \E due \in SUBSET ({"periodic"} \cap IF l = "main" THEN Event ELSE {}) :
        /\ Ready(l) \cup due # {}
        /\ pend' = [pend EXCEPT ![l] = Ready(l) \cup due]
  /\ sent' = [sent EXCEPT ![l] = FALSE]
  /\ UNCHANGED <<uiVars, dead, workVars, lPc, loop, async, brk, sock, probe, cliVars, input>>

\* libev calls e; it calls pending watchers in an order of its own.
Called(l, e) ==
  /\ lPc[l] = "run" /\ e \in pend[l]
  /\ UNCHANGED <<uiVars, dead, workVars, loop, async, sent>>

\* socket_cb: accept fails once exit_main_thread has closed the socket.
SocketCb ==
  /\ Called("main", "listen")
  /\ pend' = [pend EXCEPT !["main"] = @ \ {"listen"}]
  /\ IF sock["main"]
     THEN \E c \in Client :
            /\ conn[c] = "backlog"
            /\ conn' = [conn EXCEPT ![c] = "open"]
            /\ clients' = clients \cup {c}
            /\ watching' = watching \cup {c}
     ELSE UNCHANGED cliVars
  /\ UNCHANGED <<lPc, brk, sock, probe, input>>

\* bc_socket_cb: the answer changes nothing here.
BcSocketCb ==
  /\ Called("bc", "listen")
  /\ pend' = [pend EXCEPT !["bc"] = @ \ {"listen"}]
  /\ probe' = (probe /\ ~sock["bc"])
  /\ UNCHANGED <<lPc, brk, sock, cliVars, input>>

\* client_cb: what was read is only logged; at the end of the input, or on an
\* error, the client is taken off the list, stopped, closed and freed.
ClientCb(c) ==
  /\ Called("main", c)
  /\ pend' = [pend EXCEPT !["main"] = @ \ {c}]
  /\ input' = [input EXCEPT ![c] = "none"]
  /\ IF input[c] = "eof"
     THEN /\ clients' = clients \ {c}
          /\ watching' = watching \ {c}
          /\ conn' = [conn EXCEPT ![c] = "closed"]
     ELSE UNCHANGED cliVars
  /\ UNCHANGED <<lPc, brk, sock, probe>>

\* exit_main_thread: every client on the list is stopped, closed and freed,
\* the socket is closed (the kernel resets what waits in its backlog) and the
\* loop broken.  ev_io_stop clears the pending call of the watcher.
MainAsyncCb ==
  /\ Called("main", "async")
  /\ pend' = [pend EXCEPT !["main"] = @ \ (clients \cup {"async"})]
  /\ conn' = [c \in Client |-> IF c \in clients THEN "closed"
                               ELSE IF conn[c] = "backlog" THEN "reset" ELSE conn[c]]
  /\ clients' = {}
  /\ watching' = watching \ clients
  /\ sock' = [sock EXCEPT !["main"] = FALSE]
  /\ brk' = [brk EXCEPT !["main"] = TRUE]
  /\ UNCHANGED <<lPc, probe, input>>

\* exit_bc_thread.
BcAsyncCb ==
  /\ Called("bc", "async")
  /\ pend' = [pend EXCEPT !["bc"] = @ \ {"async"}]
  /\ sock' = [sock EXCEPT !["bc"] = FALSE]
  /\ brk' = [brk EXCEPT !["bc"] = TRUE]
  /\ probe' = FALSE
  /\ UNCHANGED <<lPc, cliVars, input>>

\* periodic_cb calls into Java through gObject, and then greets the clients.
PeriodicCall ==
  /\ Called("main", "periodic")
  /\ lPc' = [lPc EXCEPT !["main"] = "java"]
  /\ UNCHANGED <<pend, brk, sock, probe, cliVars, input>>

PeriodicReturn ==
  /\ lPc["main"] = "java"
  /\ lPc' = [lPc EXCEPT !["main"] = "run"]
  /\ pend' = [pend EXCEPT !["main"] = @ \ {"periodic"}]
  /\ UNCHANGED <<uiVars, dead, workVars, loop, async, sent, brk, sock, probe, cliVars, input>>

\* ev_run returns after the iteration in which the loop was broken.
LoopDestroy(l) ==
  /\ lPc[l] = "run" /\ brk[l] /\ pend[l] = {}
  /\ lPc' = [lPc EXCEPT ![l] = "done"]
  /\ loop' = [loop EXCEPT ![l] = "freed"]
  /\ async' = [async EXCEPT ![l] = FALSE]
  /\ sent' = [sent EXCEPT ![l] = FALSE]
  /\ brk' = [brk EXCEPT ![l] = FALSE]
  /\ UNCHANGED <<uiVars, dead, workVars, sock, pend, probe, cliVars, input>>

Start(l) == LoopCreate(l) \/ LoopListen(l)

MainLoop ==
  \/ Start("main") \/ Poll("main") \/ SocketCb \/ (\E c \in Client : ClientCb(c))
  \/ MainAsyncCb \/ PeriodicCall \/ PeriodicReturn \/ LoopDestroy("main")

BcLoop ==
  \/ Start("bc") \/ Poll("bc") \/ BcSocketCb \/ BcAsyncCb \/ LoopDestroy("bc")

------------------------------------------------------------------------------
(* The peers.                                                              *)

PeerVars == <<uiVars, dead, workVars, loopVars, sock, pend, clients, watching>>

Connect(c) ==
  /\ conn[c] = "new" /\ sock["main"]
  /\ conn' = [conn EXCEPT ![c] = "backlog"]
  /\ UNCHANGED <<PeerVars, probe, input>>

PeerSends(c) ==
  /\ conn[c] \in {"backlog", "open"} /\ input[c] = "none"
  /\ \E s \in {"data", "eof"} : input' = [input EXCEPT ![c] = s]
  /\ UNCHANGED <<PeerVars, probe, conn>>

Discover ==
  /\ sock["bc"] /\ ~probe /\ probe' = TRUE
  /\ UNCHANGED <<PeerVars, conn, input>>

Peers == Discover \/ \E c \in Client : Connect(c) \/ PeerSends(c)

Next ==
  /\ ~dead
  /\ \/ ServerInit \/ ServerExit \/ UiStep
     \/ \E w \in Worker : WorkerStep(w) \/ WorkerSpurious(w)
     \/ MainLoop \/ BcLoop \/ Peers

Spec == Init /\ [][Next]_vars

\* Every thread that can run does run; nobody need start or stop the service,
\* wake a worker for nothing, or connect.
Fairness ==
  /\ WF_vars(~dead /\ UiStep)
  /\ \A w \in Worker : WF_vars(~dead /\ WorkerStep(w))
  /\ WF_vars(~dead /\ MainLoop) /\ WF_vars(~dead /\ BcLoop)

FairSpec == Spec /\ Fairness

------------------------------------------------------------------------------
(* Properties.                                                             *)

\* Nothing is used before it is made or after it is destroyed, whoever is
\* still on the way to it: the mutexes that exit_server_thread destroys after
\* the joins, the condition variables that exit_all_thread destroys before
\* them, and the service object that server_exit releases at the end.
UsesLive ==
  /\ \A w \in Worker : /\ wPc[w] \in {"lock", "test", "sleep"} => mutex[w]
                       /\ wPc[w] \in {"sleep", "wait"} => cond[w]
  /\ lPc["main"] = "java" => gObject

\* When the main thread is gone no client is left with an open descriptor,
\* whichever callbacks were still to be called when the loop was broken.
ClientsClosed ==
  lPc["main"] = "done" => /\ clients = {}
                          /\ \A c \in Client : conn[c] \notin {"backlog", "open"}

\* Through all lives of the service its threads use what is there, and take
\* with them what they have made.
LivesSound == UsesLive /\ ClientsClosed

\* server_exit joins all four threads and returns, in the first life of the
\* library and in later ones, if both loops were listening when it was called.
ExitReturns == (uiPc = "signal_snd" /\ \A l \in Loop : async[l]) ~> uiPc = "down"
==============================================================================
