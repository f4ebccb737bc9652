------------------------------- MODULE MsgRing -------------------------------
(***************************************************************************)
(* The path of an event from a network thread to the Java service          *)
(* (main-jni.cpp): ProcessDbMsg pushes it on a ring buffer without a lock  *)
(* (comm/RingBuffer.cpp) and posts a semaphore when the ring was empty;    *)
(* WorkThreadProc waits, drains the ring and calls OnEvent.                *)
(*                                                                         *)
(* There is one producer at a time: the mux thread while the session is    *)
(* registered, MsgClient's thread before that and after it (OnStarted,     *)
(* OnStopped); _MuxLock orders them.  Loads and stores take effect in      *)
(* program order, as on the x86 this library is built for                  *)
(* (Application.mk).                                                       *)
(*                                                                         *)
(* nativeInit and nativeQuit start and stop the worker.  The ring is a     *)
(* static object: what is left in it stays for the next nativeInit.        *)
(***************************************************************************)
EXTENDS Integers, Sequences

CONSTANTS
  nSize,     \* 100: events the ring can hold
  MaxMsg,    \* bound: events produced
  MaxLives   \* bound: calls of nativeInit

ASSUME RingConstants == nSize \in Nat \ {0} /\ MaxMsg \in Nat /\ MaxLives \in Nat

Slots == 0 .. nSize    \* _nSize is nSize + 1
Size == nSize + 1
NULL == 0              \* events are numbered from 1

VARIABLES
  push, pop, slot,   \* _nPushPos, _nPopPos, _pRingBuf
  ppc, signal,       \* the producer in ProcessDbMsg, its bSignal
  next,              \* the number of the next event
  cpc, item, event,  \* the worker, pItem of PopAtFront, the last event delivered
  sem, quit,         \* ghEvent, gbQuit
  phase, lives,      \* the life cycle; how often nativeInit was called
  missed             \* history: no post is coming for events in the ring

ring     == <<push, pop, slot>>
producer == <<ppc, signal, next>>
worker   == <<cpc, item, event>>
life     == <<quit, phase, lives>>
vars == <<ring, producer, worker, sem, life, missed>>

TypeOK ==
  /\ push \in Slots /\ pop \in Slots /\ slot \in [Slots -> 0 .. MaxMsg]
  /\ ppc \in {"idle", "full", "write", "advance", "post"} /\ signal \in BOOLEAN
  /\ next \in 1 .. MaxMsg + 1
  /\ cpc \in {"absent", "test", "wait", "drain", "read", "clear", "advance", "exited"}
  /\ item \in 0 .. MaxMsg /\ event \in 0 .. MaxMsg
  /\ sem \in Nat /\ quit \in BOOLEAN /\ missed \in BOOLEAN
  /\ phase \in {"off", "on", "joining", "unloading"} /\ lives \in 0 .. MaxLives

Init ==
  /\ push = 0 /\ pop = 0 /\ slot = [s \in Slots |-> NULL]
  /\ ppc = "idle" /\ signal = FALSE /\ next = 1
  /\ cpc = "absent" /\ item = 0 /\ event = 0
  /\ sem = 0 /\ quit = FALSE /\ phase = "off" /\ lives = 0
  /\ missed = FALSE

IsEmpty == push = pop
IsFull == (push + 1) % Size = pop

\* ghEvent is initialised: nativeQuit destroys it before MsgClient is unloaded.
SemLive == phase \in {"on", "joining"}

------------------------------------------------------------------------------
(* ProcessDbMsg.                                                           *)

\* bSignal = IsEmpty(); a session may call as long as MsgClient is loaded.
PushTest ==
  /\ ppc = "idle" /\ phase # "off" /\ next <= MaxMsg
  /\ ppc' = "full"
  /\ signal' = IsEmpty
  /\ UNCHANGED <<ring, next, worker, sem, life, missed>>

\* Mutant: IsFull compares without the spare slot.
PushFullNever ==
  /\ ppc = "full"
  /\ ppc' = "write"
  /\ UNCHANGED <<ring, signal, next, worker, sem, life, missed>>

\* if ( !IsFull() ): otherwise the event is dropped.
PushFull ==
  /\ ppc = "full"
  /\ \/ IsFull /\ ppc' = "post" /\ next' = next + 1
     \/ ~IsFull /\ ppc' = "write" /\ UNCHANGED next
  /\ UNCHANGED <<ring, signal, worker, sem, life, missed>>

PushWrite ==
  /\ ppc = "write" /\ ppc' = "advance"
  /\ slot' = [slot EXCEPT ![push] = next]
  /\ UNCHANGED <<push, pop, signal, next, worker, sem, life, missed>>

\* Mutant: the position runs past the end of the array's last slot.
PushAdvanceShort ==
  /\ ppc = "advance" /\ ppc' = "post"
  /\ push' = (push + 1) % nSize
  /\ next' = next + 1
  /\ UNCHANGED <<pop, slot, signal, worker, sem, life, missed>>

\* The event is in the ring.  If the worker has emptied the ring since
\* IsEmpty was evaluated and has left its loop, nothing will wake it.
PushAdvance ==
  /\ ppc = "advance" /\ ppc' = "post"
  /\ push' = (push + 1) % Size
  /\ next' = next + 1
  /\ missed' = (missed \/ (~signal /\ IsEmpty /\ cpc # "drain"))
  /\ UNCHANGED <<pop, slot, signal, worker, sem, life>>

\* if ( bSignal ) sem_post; a post to the destroyed semaphore is lost.
PushPost ==
  /\ ppc = "post" /\ ppc' = "idle"
  /\ sem' = IF signal /\ SemLive THEN sem + 1 ELSE sem
  /\ UNCHANGED <<ring, signal, next, worker, life, missed>>

------------------------------------------------------------------------------
(* WorkThreadProc.                                                         *)

WorkTest ==
  /\ cpc = "test"
  /\ cpc' = IF quit THEN "exited" ELSE "wait"
  /\ UNCHANGED <<ring, producer, item, event, sem, life, missed>>

WorkWait ==
  /\ cpc = "wait" /\ sem > 0
  /\ cpc' = "drain"
  /\ sem' = sem - 1
  /\ UNCHANGED <<ring, producer, item, event, life, missed>>

WorkDrain ==
  /\ cpc = "drain"
  /\ cpc' = IF IsEmpty THEN "test" ELSE "read"
  /\ UNCHANGED <<ring, producer, item, event, sem, life, missed>>

\* PopAtFront: read the slot, clear it, advance.
PopRead ==
  /\ cpc = "read" /\ cpc' = "clear"
  /\ item' = slot[pop]
  /\ UNCHANGED <<ring, producer, event, sem, life, missed>>

PopClear ==
  /\ cpc = "clear" /\ cpc' = "advance"
  /\ slot' = [slot EXCEPT ![pop] = NULL]
  /\ UNCHANGED <<push, pop, producer, item, event, sem, life, missed>>

\* Mutant: one event for each post.
PopAdvanceOnce ==
  /\ cpc = "advance" /\ cpc' = "test"
  /\ pop' = (pop + 1) % Size
  /\ event' = item
  /\ UNCHANGED <<push, slot, producer, item, sem, life, missed>>

\* ... and OnEvent is called.
PopAdvance ==
  /\ cpc = "advance" /\ cpc' = "drain"
  /\ pop' = (pop + 1) % Size
  /\ event' = item
  /\ UNCHANGED <<push, slot, producer, item, sem, life, missed>>

------------------------------------------------------------------------------
(* nativeInit, nativeQuit.                                                 *)

\* A ring that is not empty is never found empty by ProcessDbMsg, and the
\* new semaphore has no post for it.
nativeInit ==
  /\ phase = "off" /\ lives < MaxLives
  /\ phase' = "on" /\ lives' = lives + 1
  /\ sem' = 0 /\ quit' = FALSE
  /\ cpc' = "test"
  /\ missed' = ~IsEmpty
  /\ UNCHANGED <<ring, producer, item, event>>

nativeQuit ==
  /\ phase = "on" /\ phase' = "joining"
  /\ quit' = TRUE
  /\ sem' = sem + 1
  /\ UNCHANGED <<ring, producer, worker, lives, missed>>

\* pthread_join, then sem_destroy.
QuitJoin ==
  /\ phase = "joining" /\ cpc = "exited"
  /\ phase' = "unloading"
  /\ UNCHANGED <<ring, producer, worker, sem, quit, lives, missed>>

\* MyMsgClient::Unload returns; its threads make no more calls.
QuitUnload ==
  /\ phase = "unloading" /\ ppc = "idle"
  /\ phase' = "off"
  /\ UNCHANGED <<ring, producer, worker, sem, quit, lives, missed>>

------------------------------------------------------------------------------

ProducerStep == PushFull \/ PushWrite \/ PushAdvance \/ PushPost
WorkerStep == WorkTest \/ WorkWait \/ WorkDrain \/ PopRead \/ PopClear \/ PopAdvance
QuitStep == QuitJoin \/ QuitUnload

Next == PushTest \/ ProducerStep \/ WorkerStep \/ nativeInit \/ nativeQuit \/ QuitStep

Spec == Init /\ [][Next]_vars

\* A call once begun and the worker go on (OnEvent returns); no one has to
\* send, to call nativeInit or nativeQuit.
Fairness == WF_vars(ProducerStep) /\ WF_vars(WorkerStep) /\ WF_vars(QuitStep)

FairSpec == Spec /\ Fairness

------------------------------------------------------------------------------
(* Properties.                                                             *)

\* The assertions of PushAtBack and PopAtFront (RingBuffer.cpp:58, 62, 74 and
\* 78): the pusher finds room and an empty slot, the popper finds an item,
\* although each looks at the other's position while it moves.
RingAsserts ==
  /\ ppc = "write" => ~IsFull /\ slot[push] = NULL
  /\ cpc = "read" => ~IsEmpty /\ slot[pop] # NULL

\* The events in the ring, oldest first; one that is being popped is there
\* until _nPopPos has advanced.
Contents ==
  [i \in 1 .. (push - pop) % Size |->
     IF i = 1 /\ cpc \in {"clear", "advance"} THEN item ELSE slot[(pop + i - 1) % Size]]

\* Producer and worker, without a lock, implement a bounded FIFO.
Queue == INSTANCE EventQueue WITH Capacity <- nSize, queue <- Contents, last <- event
ImplementsQueue == Queue!QueueSpec

\* The worker sleeps over a ring that is not empty only in the two ways the
\* code allows: the ring was emptied between IsEmpty and PushAtBack, or it
\* was not empty when nativeInit made a new semaphore.
SleepsOnEmpty ==
  cpc = "wait" /\ ~IsEmpty => missed \/ sem > 0 \/ (ppc # "idle" /\ signal)

\* The ring between its two threads: no position overtakes the other, and
\* nobody sleeps over an event but in those two ways.
RingSafe == RingAsserts /\ SleepsOnEmpty

\* Otherwise an event in the ring is delivered, unless nativeQuit comes first.
EventDelivered ==
  \A n \in 1 .. MaxMsg :
     (\E s \in Slots : slot[s] = n) ~> (event >= n \/ missed \/ phase # "on")
==============================================================================
