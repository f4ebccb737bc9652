---------------------------- MODULE MsgRingProofs ----------------------------
(***************************************************************************)
(* Theorems about MsgRing, for every size of the ring, every number of     *)
(* events and of lives: the types, the assertions of RingBuffer.cpp, when  *)
(* the worker may sleep over events, and that the ring implements the      *)
(* lossy queue of EventQueue.                                              *)
(***************************************************************************)
EXTENDS MsgRing, TLAPS

\* A position of the ring and the next one.
LEMMA Advance ==
  ASSUME NEW p \in Slots
  PROVE  /\ (p + 1) % Size = IF p = nSize THEN 0 ELSE p + 1
         /\ (p + 1) % Size \in Slots
<1>1. nSize \in Nat \ {0}
  BY RingConstants
<1>2. CASE p = nSize
  BY <1>1, <1>2 DEF Slots, Size
<1>3. CASE p # nSize
  BY <1>1, <1>3 DEF Slots, Size
<1> QED
  BY <1>2, <1>3

------------------------------------------------------------------------------
(* The invariant.                                                          *)

\* Position s is one of those from _nPopPos up to _nPushPos.
Filled(s) == IF pop <= push THEN pop <= s /\ s < push ELSE pop <= s \/ s < push

\* A slot holds an event exactly when it is filled, but for the one the
\* pusher has written and the one the popper has cleared.
SlotsFilled ==
  \A s \in Slots :
     slot[s] # NULL <=> \/ Filled(s) /\ ~(cpc = "advance" /\ s = pop)
                        \/ ppc = "advance" /\ s = push

\* What each has found of the other's position still holds when it moves.
Room ==
  /\ ppc \in {"write", "advance"} => ~IsFull
  /\ cpc \in {"read", "clear", "advance"} => ~IsEmpty

\* There is a worker exactly while the semaphore is initialised.
WorkerLives ==
  /\ phase \in {"off", "unloading"} => cpc \in {"absent", "exited"}
  /\ ppc \in {"full", "write", "advance"} => next <= MaxMsg

\* Somebody will wake a worker that goes to sleep over events.
Awaited ==
  cpc \in {"test", "wait"} /\ ~IsEmpty => missed \/ sem > 0 \/ (ppc # "idle" /\ signal)

RInv == TypeOK /\ SlotsFilled /\ Room /\ WorkerLives /\ Awaited

------------------------------------------------------------------------------

\* The ring starts empty, with both threads away from it.
LEMMA InitRInv == Init => RInv
<1> SUFFICES ASSUME Init
             PROVE  RInv
  OBVIOUS
<1>1. nSize \in Nat \ {0} /\ MaxMsg \in Nat /\ MaxLives \in Nat
  BY RingConstants
<1>2. TypeOK
  <2>1. 0 \in Slots /\ 0 \in 0 .. MaxMsg /\ 1 \in 1 .. MaxMsg + 1 /\ 0 \in 0 .. MaxLives
    BY <1>1 DEF Slots
  <2>2. slot \in [Slots -> 0 .. MaxMsg]
    BY <2>1 DEF Init, NULL
  <2> QED
    BY <2>1, <2>2 DEF Init, TypeOK
<1>3. SlotsFilled
  BY <1>1 DEF Init, SlotsFilled, Filled, Slots, NULL
<1>4. Room /\ WorkerLives /\ Awaited
  BY DEF Init, Room, WorkerLives, Awaited
<1> QED
  BY <1>2, <1>3, <1>4 DEF RInv

\* Every step of the two threads and of their owner keeps the invariant.
LEMMA NextRInv == RInv /\ [Next]_vars => RInv'
<1> SUFFICES ASSUME RInv, [Next]_vars
             PROVE  RInv'
  OBVIOUS
<1>c. nSize \in Nat \ {0} /\ MaxMsg \in Nat /\ MaxLives \in Nat
  BY RingConstants
<1>p. /\ push \in Slots /\ (push + 1) % Size = (IF push = nSize THEN 0 ELSE push + 1)
      /\ (push + 1) % Size \in Slots
  BY Advance DEF RInv, TypeOK
<1>q. /\ pop \in Slots /\ (pop + 1) % Size = (IF pop = nSize THEN 0 ELSE pop + 1)
      /\ (pop + 1) % Size \in Slots
  BY Advance DEF RInv, TypeOK
<1>r. IsFull <=> (IF push = nSize THEN 0 ELSE push + 1) = pop
  BY <1>p DEF IsFull
<1> USE DEF RInv, TypeOK, WorkerLives, ring, producer, worker, life
<1>1. CASE PushTest
  <2>1. TypeOK'
    BY <1>1, <1>c, <1>p, <1>q DEF PushTest, SemLive, NULL, Slots, IsEmpty
  <2>2. SlotsFilled'
    BY <1>1, <1>c, <1>p, <1>q, <1>r DEF PushTest, SlotsFilled, Filled, Room, IsEmpty,
       Slots, NULL
  <2>3. Room'
    BY <1>1, <1>c, <1>p, <1>q, <1>r, <2>1, Advance DEF PushTest, Room, IsEmpty, IsFull
  <2>4. WorkerLives'
    BY <1>1, <1>c DEF PushTest
  <2>5. Awaited'
    BY <1>1, <1>c DEF PushTest, Awaited, IsEmpty, SemLive
  <2> QED
    BY <2>1, <2>2, <2>3, <2>4, <2>5
<1>2. CASE PushFull
  <2>1. TypeOK'
    BY SMTT(30), <1>2, <1>c, <1>p, <1>q DEF PushFull, SemLive, NULL, Slots, IsEmpty
  <2>2. SlotsFilled'
    BY <1>2, <1>c, <1>p, <1>q, <1>r DEF PushFull, SlotsFilled, Filled, Room, IsEmpty,
       Slots, NULL
  <2>3. Room'
    BY <1>2, <1>c, <1>p, <1>q, <1>r, <2>1, Advance DEF PushFull, Room, IsEmpty, IsFull
  <2>4. WorkerLives'
    BY <1>2, <1>c DEF PushFull
  <2>5. Awaited'
    BY <1>2, <1>c DEF PushFull, Awaited, IsEmpty, SemLive
  <2> QED
    BY <2>1, <2>2, <2>3, <2>4, <2>5
<1>3. CASE PushWrite
  <2>1. TypeOK'
    BY <1>3, <1>c, <1>p, <1>q DEF PushWrite, SemLive, NULL, Slots, IsEmpty
  <2>2. SlotsFilled'
    BY <1>3, <1>c, <1>p, <1>q, <1>r DEF PushWrite, SlotsFilled, Filled, Room, IsEmpty,
       Slots, NULL
  <2>3. Room'
    BY <1>3, <1>c, <1>p, <1>q, <1>r, <2>1, Advance DEF PushWrite, Room, IsEmpty, IsFull
  <2>4. WorkerLives'
    BY <1>3, <1>c DEF PushWrite
  <2>5. Awaited'
    BY <1>3, <1>c DEF PushWrite, Awaited, IsEmpty, SemLive
  <2> QED
    BY <2>1, <2>2, <2>3, <2>4, <2>5
<1>4. CASE PushAdvance
  <2>1. TypeOK'
    BY <1>4, <1>c, <1>p, <1>q DEF PushAdvance, SemLive, NULL, Slots, IsEmpty
  <2>2. SlotsFilled'
    BY <1>4, <1>c, <1>p, <1>q, <1>r DEF PushAdvance, SlotsFilled, Filled, Room, IsEmpty,
       Slots, NULL
  <2>3. Room'
    BY <1>4, <1>c, <1>p, <1>q, <1>r, <2>1, Advance DEF PushAdvance, Room, IsEmpty, IsFull
  <2>4. WorkerLives'
    BY <1>4, <1>c DEF PushAdvance
  <2>5. Awaited'
    BY <1>4, <1>c DEF PushAdvance, Awaited, IsEmpty, SemLive
  <2> QED
    BY <2>1, <2>2, <2>3, <2>4, <2>5
<1>5. CASE PushPost
  <2>1. TypeOK'
    BY <1>5, <1>c, <1>p, <1>q DEF PushPost, SemLive, NULL, Slots, IsEmpty
  <2>2. SlotsFilled'
    BY <1>5, <1>c, <1>p, <1>q, <1>r DEF PushPost, SlotsFilled, Filled, Room, IsEmpty,
       Slots, NULL
  <2>3. Room'
    BY <1>5, <1>c, <1>p, <1>q, <1>r, <2>1, Advance DEF PushPost, Room, IsEmpty, IsFull
  <2>4. WorkerLives'
    BY <1>5, <1>c DEF PushPost
  <2>5. Awaited'
    BY <1>5, <1>c DEF PushPost, Awaited, IsEmpty, SemLive
  <2> QED
    BY <2>1, <2>2, <2>3, <2>4, <2>5
<1>6. CASE WorkTest
  <2>1. TypeOK'
    BY <1>6, <1>c, <1>p, <1>q DEF WorkTest, SemLive, NULL, Slots, IsEmpty
  <2>2. SlotsFilled'
    BY <1>6, <1>c, <1>p, <1>q, <1>r DEF WorkTest, SlotsFilled, Filled, Room, IsEmpty,
       Slots, NULL
  <2>3. Room'
    BY <1>6, <1>c, <1>p, <1>q, <1>r, <2>1, Advance DEF WorkTest, Room, IsEmpty, IsFull
  <2>4. WorkerLives'
    BY <1>6, <1>c DEF WorkTest
  <2>5. Awaited'
    BY <1>6, <1>c DEF WorkTest, Awaited, IsEmpty, SemLive
  <2> QED
    BY <2>1, <2>2, <2>3, <2>4, <2>5
<1>7. CASE WorkWait
  <2>1. TypeOK'
    BY <1>7, <1>c, <1>p, <1>q DEF WorkWait, SemLive, NULL, Slots, IsEmpty
  <2>2. SlotsFilled'
    BY <1>7, <1>c, <1>p, <1>q, <1>r DEF WorkWait, SlotsFilled, Filled, Room, IsEmpty,
       Slots, NULL
  <2>3. Room'
    BY <1>7, <1>c, <1>p, <1>q, <1>r, <2>1, Advance DEF WorkWait, Room, IsEmpty, IsFull
  <2>4. WorkerLives'
    BY <1>7, <1>c DEF WorkWait
  <2>5. Awaited'
    BY <1>7, <1>c DEF WorkWait, Awaited, IsEmpty, SemLive
  <2> QED
    BY <2>1, <2>2, <2>3, <2>4, <2>5
<1>8. CASE WorkDrain
  <2>1. TypeOK'
    BY <1>8, <1>c, <1>p, <1>q DEF WorkDrain, SemLive, NULL, Slots, IsEmpty
  <2>2. SlotsFilled'
    BY <1>8, <1>c, <1>p, <1>q, <1>r DEF WorkDrain, SlotsFilled, Filled, Room, IsEmpty,
       Slots, NULL
  <2>3. Room'
    BY <1>8, <1>c, <1>p, <1>q, <1>r, <2>1, Advance DEF WorkDrain, Room, IsEmpty, IsFull
  <2>4. WorkerLives'
    BY <1>8, <1>c DEF WorkDrain
  <2>5. Awaited'
    BY <1>8, <1>c DEF WorkDrain, Awaited, IsEmpty, SemLive
  <2> QED
    BY <2>1, <2>2, <2>3, <2>4, <2>5
<1>9. CASE PopRead
  <2>1. TypeOK'
    BY <1>9, <1>c, <1>p, <1>q DEF PopRead, SemLive, NULL, Slots, IsEmpty
  <2>2. SlotsFilled'
    BY <1>9, <1>c, <1>p, <1>q, <1>r DEF PopRead, SlotsFilled, Filled, Room, IsEmpty,
       Slots, NULL
  <2>3. Room'
    BY <1>9, <1>c, <1>p, <1>q, <1>r, <2>1, Advance DEF PopRead, Room, IsEmpty, IsFull
  <2>4. WorkerLives'
    BY <1>9, <1>c DEF PopRead
  <2>5. Awaited'
    BY <1>9, <1>c DEF PopRead, Awaited, IsEmpty, SemLive
  <2> QED
    BY <2>1, <2>2, <2>3, <2>4, <2>5
<1>10. CASE PopClear
  <2>1. TypeOK'
    BY <1>10, <1>c, <1>p, <1>q DEF PopClear, SemLive, NULL, Slots, IsEmpty
  <2>2. SlotsFilled'
    BY <1>10, <1>c, <1>p, <1>q, <1>r DEF PopClear, SlotsFilled, Filled, Room, IsEmpty,
       Slots, NULL
  <2>3. Room'
    BY <1>10, <1>c, <1>p, <1>q, <1>r, <2>1, Advance DEF PopClear, Room, IsEmpty, IsFull
  <2>4. WorkerLives'
    BY <1>10, <1>c DEF PopClear
  <2>5. Awaited'
    BY <1>10, <1>c DEF PopClear, Awaited, IsEmpty, SemLive
  <2> QED
    BY <2>1, <2>2, <2>3, <2>4, <2>5
<1>11. CASE PopAdvance
  <2>1. TypeOK'
    BY <1>11, <1>c, <1>p, <1>q DEF PopAdvance, SemLive, NULL, Slots, IsEmpty
  <2>2. SlotsFilled'
    BY <1>11, <1>c, <1>p, <1>q, <1>r DEF PopAdvance, SlotsFilled, Filled, Room, IsEmpty,
       Slots, NULL
  <2>3. Room'
    <3>1. push # pop /\ push' = push /\ pop' = (IF pop = nSize THEN 0 ELSE pop + 1)
      BY <1>11, <1>q DEF PopAdvance, Room, IsEmpty
    <3>2. pop' # (IF push = nSize THEN 0 ELSE push + 1)
      BY <3>1, <1>c, <1>p, <1>q DEF Slots
    <3>3. ~IsFull'
      BY <3>1, <3>2, <1>p DEF IsFull
    <3> QED
      BY <1>11, <3>3 DEF PopAdvance, Room
  <2>4. WorkerLives'
    BY <1>11, <1>c DEF PopAdvance
  <2>5. Awaited'
    BY <1>11, <1>c DEF PopAdvance, Awaited, IsEmpty, SemLive
  <2> QED
    BY <2>1, <2>2, <2>3, <2>4, <2>5
<1>12. CASE nativeInit
  <2>1. TypeOK'
    <3>1. missed' \in BOOLEAN
      BY <1>12, Zenon DEF nativeInit
    <3>2. lives' \in 0 .. MaxLives
      BY <1>12, <1>c DEF nativeInit
    <3> QED
      BY <1>12, <3>1, <3>2, Zenon DEF nativeInit
  <2>2. SlotsFilled'
    BY <1>12, <1>c, <1>p, <1>q, <1>r DEF nativeInit, SlotsFilled, Filled, Room, IsEmpty,
       Slots, NULL
  <2>3. Room'
    BY <1>12, <1>c, <1>p, <1>q, <1>r, <2>1, Advance DEF nativeInit, Room, IsEmpty, IsFull
  <2>4. WorkerLives'
    BY <1>12, <1>c DEF nativeInit
  <2>5. Awaited'
    BY <1>12, <1>c DEF nativeInit, Awaited, IsEmpty, SemLive
  <2> QED
    BY <2>1, <2>2, <2>3, <2>4, <2>5
<1>13. CASE nativeQuit
  <2>1. TypeOK'
    BY <1>13, <1>c, <1>p, <1>q DEF nativeQuit, SemLive, NULL, Slots, IsEmpty
  <2>2. SlotsFilled'
    BY <1>13, <1>c, <1>p, <1>q, <1>r DEF nativeQuit, SlotsFilled, Filled, Room, IsEmpty,
       Slots, NULL
  <2>3. Room'
    BY <1>13, <1>c, <1>p, <1>q, <1>r, <2>1, Advance DEF nativeQuit, Room, IsEmpty, IsFull
  <2>4. WorkerLives'
    BY <1>13, <1>c DEF nativeQuit
  <2>5. Awaited'
    BY <1>13, <1>c DEF nativeQuit, Awaited, IsEmpty, SemLive
  <2> QED
    BY <2>1, <2>2, <2>3, <2>4, <2>5
<1>14. CASE QuitJoin
  <2>1. TypeOK'
    BY <1>14, <1>c, <1>p, <1>q DEF QuitJoin, SemLive, NULL, Slots, IsEmpty
  <2>2. SlotsFilled'
    BY <1>14, <1>c, <1>p, <1>q, <1>r DEF QuitJoin, SlotsFilled, Filled, Room, IsEmpty,
       Slots, NULL
  <2>3. Room'
    BY <1>14, <1>c, <1>p, <1>q, <1>r, <2>1, Advance DEF QuitJoin, Room, IsEmpty, IsFull
  <2>4. WorkerLives'
    BY <1>14, <1>c DEF QuitJoin
  <2>5. Awaited'
    BY <1>14, <1>c DEF QuitJoin, Awaited, IsEmpty, SemLive
  <2> QED
    BY <2>1, <2>2, <2>3, <2>4, <2>5
<1>15. CASE QuitUnload
  <2>1. TypeOK'
    BY <1>15, <1>c, <1>p, <1>q DEF QuitUnload, SemLive, NULL, Slots, IsEmpty
  <2>2. SlotsFilled'
    BY <1>15, <1>c, <1>p, <1>q, <1>r DEF QuitUnload, SlotsFilled, Filled, Room, IsEmpty,
       Slots, NULL
  <2>3. Room'
    BY <1>15, <1>c, <1>p, <1>q, <1>r, <2>1, Advance DEF QuitUnload, Room, IsEmpty, IsFull
  <2>4. WorkerLives'
    BY <1>15, <1>c DEF QuitUnload
  <2>5. Awaited'
    BY <1>15, <1>c DEF QuitUnload, Awaited, IsEmpty, SemLive
  <2> QED
    BY <2>1, <2>2, <2>3, <2>4, <2>5
<1>16. CASE UNCHANGED vars
  BY <1>16 DEF vars, SlotsFilled, Filled, Room, Awaited, IsEmpty, IsFull, Slots, Size
<1> QED
  BY <1>1, <1>2, <1>3, <1>4, <1>5, <1>6, <1>7, <1>8, <1>9, <1>10, <1>11, <1>12, <1>13,
     <1>14, <1>15, <1>16
  DEF Next, ProducerStep, WorkerStep, QuitStep

\* So the invariant holds of every reachable state.
LEMMA RInvariant == Spec => []RInv
BY InitRInv, NextRInv, PTL DEF Spec

------------------------------------------------------------------------------
(* The theorems.                                                           *)

\* Every variable has its type; in particular the positions stay in the ring.
THEOREM TypeCorrect == Spec => []TypeOK
<1>1. RInv => TypeOK
  BY DEF RInv
<1> QED
  BY <1>1, RInvariant, PTL

\* For every size of the ring, pusher and popper never trip over each other
\* although neither takes a lock (the assertions of RingBuffer.cpp).
THEOREM AssertionsHold == Spec => []RingAsserts
<1>1. RInv => RingAsserts
  <2> SUFFICES ASSUME RInv
               PROVE  RingAsserts
    OBVIOUS
  <2>1. ppc = "write" => ~IsFull
    BY DEF RInv, Room
  <2>2. cpc = "read" => ~IsEmpty
    BY DEF RInv, Room
  <2>3. push \in Slots /\ pop \in Slots
    BY DEF RInv, TypeOK
  <2>4. ppc = "write" => slot[push] = NULL
    BY <2>3, RingConstants DEF RInv, SlotsFilled, Filled, Slots
  <2>5. cpc = "read" => slot[pop] # NULL
    BY <2>2, <2>3, RingConstants DEF RInv, SlotsFilled, Filled, Slots, IsEmpty
  <2> QED
    BY <2>1, <2>2, <2>4, <2>5 DEF RingAsserts
<1> QED
  BY <1>1, RInvariant, PTL

\* The worker sleeps over events only in the two ways that missed names.
THEOREM SleepsOnlyOnEmpty == Spec => []SleepsOnEmpty
<1>1. RInv => SleepsOnEmpty
  BY DEF RInv, Awaited, SleepsOnEmpty
<1> QED
  BY <1>1, RInvariant, PTL

\* The ring is safe between its two threads, for every size of it.
THEOREM RingIsSafe == Spec => []RingSafe
BY AssertionsHold, SleepsOnlyOnEmpty, PTL DEF RingSafe

------------------------------------------------------------------------------
(* The ring implements the queue.                                          *)

\* The remainders the positions of the ring need.
LEMMA Wrap ==
  ASSUME NEW x \in Int
  PROVE  /\ 0 <= x /\ x <= nSize => x % Size = x
         /\ nSize < x /\ x <= 2 * nSize + 1 => x % Size = x - Size
         /\ -nSize <= x /\ x < 0 => x % Size = x + Size
<1>1. nSize \in Nat \ {0}
  BY RingConstants
<1>2. CASE 0 <= x /\ x <= nSize
  BY <1>1, <1>2 DEF Size
<1>3. CASE nSize < x /\ x <= 2 * nSize + 1
  BY <1>1, <1>3 DEF Size
<1>4. CASE -nSize <= x /\ x < 0
  BY <1>1, <1>4 DEF Size
<1> QED
  BY <1>1, <1>2, <1>3, <1>4

\* The number of events between two positions, and the position of the i-th.
Distance(p, q) == (q - p) % Size
Place(p, i) == (p + i - 1) % Size

LEMMA DistanceIs ==
  ASSUME NEW p \in Slots, NEW q \in Slots
  PROVE  Distance(p, q) = IF p <= q THEN q - p ELSE q - p + Size
BY Wrap, RingConstants DEF Distance, Slots

\* The place of the i-th event is pop + i - 1, wrapped around once at most.
LEMMA PlaceIs ==
  ASSUME NEW p \in Slots, NEW i \in 1 .. nSize + 1
  PROVE  Place(p, i) = IF p + i - 1 <= nSize THEN p + i - 1 ELSE p + i - 1 - Size
<1>1. PICK x \in Int : x = p + i - 1
  BY DEF Slots
<1>2. 0 <= x /\ x <= 2 * nSize + 1 /\ nSize \in Nat
  BY <1>1, RingConstants DEF Slots
<1>3. Place(p, i) = x % Size
  BY <1>1 DEF Place
<1>4. Place(p, i) = IF x <= nSize THEN x ELSE x - Size
  BY <1>2, <1>3, Wrap
<1> QED
  BY <1>1, <1>2, <1>4 DEF Size, Slots

\* How the events lie between the two positions: behind one another, the first
\* at the one, the one behind the last at the other.
LEMMA Places ==
  ASSUME NEW p \in Slots, NEW q \in Slots
  PROVE  /\ Distance(p, q) \in 0 .. nSize
         /\ Distance(p, q) = 0 <=> p = q
         /\ Distance(p, q) = nSize <=> (q + 1) % Size = p
         /\ Place(p, 1) = p
         /\ \A i \in 1 .. Distance(p, q) : /\ Place(p, i) \in Slots \ {q}
                                           /\ i # 1 => Place(p, i) # p
<1>1. nSize \in Nat \ {0} /\ p \in Nat /\ q \in Nat /\ p <= nSize /\ q <= nSize
  BY RingConstants DEF Slots
<1>2. Distance(p, q) = IF p <= q THEN q - p ELSE q - p + Size
  BY DistanceIs
<1>3. (q + 1) % Size = IF q = nSize THEN 0 ELSE q + 1
  BY Advance
<1>4. Distance(p, q) \in 0 .. nSize
  BY <1>1, <1>2 DEF Size
<1>5. Place(p, 1) = p
  BY <1>1, PlaceIs
<1>6. ASSUME NEW i \in 1 .. Distance(p, q)
      PROVE  Place(p, i) \in Slots \ {q} /\ (i # 1 => Place(p, i) # p)
  <2>1. Place(p, i) = IF p + i - 1 <= nSize THEN p + i - 1 ELSE p + i - 1 - Size
    BY <1>1, <1>4, PlaceIs
  <2> QED
    BY <1>1, <1>2, <1>4, <2>1 DEF Size, Slots
<1> QED
  BY <1>1, <1>2, <1>3, <1>4, <1>5, <1>6 DEF Size

\* One more event behind the last, ...
LEMMA PlacesPush ==
  ASSUME NEW p \in Slots, NEW q \in Slots, (q + 1) % Size # p
  PROVE  /\ Distance(p, (q + 1) % Size) = Distance(p, q) + 1
         /\ Place(p, Distance(p, q) + 1) = q
<1>1. nSize \in Nat \ {0} /\ p \in Nat /\ q \in Nat /\ p <= nSize /\ q <= nSize
  BY RingConstants DEF Slots
<1>2. /\ (q + 1) % Size = IF q = nSize THEN 0 ELSE q + 1
      /\ (q + 1) % Size \in Slots
  BY Advance
<1>3. Distance(p, q) = IF p <= q THEN q - p ELSE q - p + Size
  BY DistanceIs
<1>4. Distance(p, (q + 1) % Size)
        = IF p <= (q + 1) % Size THEN ((q + 1) % Size) - p
                               ELSE ((q + 1) % Size) - p + Size
  BY <1>2, DistanceIs
<1>5. Distance(p, q) + 1 \in 1 .. nSize + 1
  BY <1>1, <1>3 DEF Size
<1>6. Place(p, Distance(p, q) + 1) = q
  <2> DEFINE i == Distance(p, q) + 1
  <2>1. i \in 1 .. nSize + 1 /\ i = IF p <= q THEN q - p + 1 ELSE q - p + Size + 1
    BY <1>1, <1>3, <1>5
  <2> HIDE DEF i
  <2>2. Place(p, i) = IF p + i - 1 <= nSize THEN p + i - 1 ELSE p + i - 1 - Size
    BY <2>1, PlaceIs
  <2>3. Place(p, i) = q
    BY <1>1, <2>1, <2>2 DEF Size
  <2> QED
    BY <2>3 DEF i
<1> QED
  BY <1>1, <1>2, <1>3, <1>4, <1>6 DEF Size

\* ... and the first one taken away.
LEMMA PlacesPop ==
  ASSUME NEW p \in Slots, NEW q \in Slots, p # q
  PROVE  /\ Distance((p + 1) % Size, q) = Distance(p, q) - 1
         /\ \A i \in 1 .. nSize : Place((p + 1) % Size, i) = Place(p, i + 1)
<1>1. nSize \in Nat \ {0} /\ p \in Nat /\ q \in Nat /\ p <= nSize /\ q <= nSize
  BY RingConstants DEF Slots
<1>2. /\ (p + 1) % Size = IF p = nSize THEN 0 ELSE p + 1
      /\ (p + 1) % Size \in Slots
  BY Advance
<1>3. Distance(p, q) = IF p <= q THEN q - p ELSE q - p + Size
  BY DistanceIs
<1>4. Distance((p + 1) % Size, q) = Distance(p, q) - 1
  <2> DEFINE n == (p + 1) % Size
  <2>1. n \in Slots /\ n = IF p = nSize THEN 0 ELSE p + 1
    BY <1>2
  <2> HIDE DEF n
  <2>2. Distance(n, q) = IF n <= q THEN q - n ELSE q - n + Size
    BY <2>1, DistanceIs
  <2>3. Distance(n, q) = Distance(p, q) - 1
    BY <1>1, <1>3, <2>1, <2>2 DEF Size
  <2> QED
    BY <2>3 DEF n
<1>5. ASSUME NEW i \in 1 .. nSize
      PROVE  Place((p + 1) % Size, i) = Place(p, i + 1)
  <2> DEFINE n == (p + 1) % Size
  <2>1. n \in Slots /\ n = IF p = nSize THEN 0 ELSE p + 1
    BY <1>2
  <2> HIDE DEF n
  <2>2. Place(n, i) = IF n + i - 1 <= nSize THEN n + i - 1 ELSE n + i - 1 - Size
    BY <1>1, <2>1, PlaceIs
  <2>3. Place(p, i + 1) = IF p + i <= nSize THEN p + i ELSE p + i - Size
    BY <1>1, PlaceIs
  <2>4. Place(n, i) = Place(p, i + 1)
    BY <1>1, <2>1, <2>2, <2>3 DEF Size
  <2> QED
    BY <2>4 DEF n
<1> QED
  BY <1>4, <1>5

\* What popper and pusher hold in their hands is what they will leave.
InHand ==
  /\ cpc = "clear" => item = slot[pop]
  /\ ppc = "advance" => slot[push] = next

\* The event in the hand of the popper, and the one just pushed, are the ones
\* their positions point at.
LEMMA InHandInvariant == Spec => []InHand
<1>1. Init => InHand
  BY DEF Init, InHand
<1>2. RInv /\ InHand /\ [Next]_vars => InHand'
  <2> SUFFICES ASSUME RInv, InHand, [Next]_vars PROVE InHand'
    OBVIOUS
  <2>1. /\ push \in Slots /\ pop \in Slots /\ slot \in [Slots -> 0 .. MaxMsg]
        /\ cpc \in {"read", "clear", "advance"} => push # pop
    BY DEF RInv, TypeOK, Room, IsEmpty
  <2> QED
    BY <2>1 DEF InHand, Next, ProducerStep, WorkerStep, QuitStep, PushTest, PushFull,
       PushWrite, PushAdvance,
       PushPost, WorkTest, WorkWait, WorkDrain, PopRead, PopClear, PopAdvance, nativeInit,
       nativeQuit, QuitJoin, QuitUnload, vars, ring, producer, worker, life
<1> QED
  BY <1>1, <1>2, RInvariant, PTL DEF Spec

\* The event that is i-th in the ring.
Nth(i) == IF i = 1 /\ cpc \in {"clear", "advance"} THEN item ELSE slot[Place(pop, i)]

\* Contents, in terms of the two definitions above.
LEMMA ContentsIs == Contents = [i \in 1 .. Distance(pop, push) |-> Nth(i)]
BY DEF Contents, Nth, Distance, Place

\* Contents is a sequence; a full ring holds nSize events.
LEMMA ContentsLength ==
  ASSUME RInv
  PROVE  /\ Contents \in Seq(0 .. MaxMsg) /\ Len(Contents) = Distance(pop, push)
         /\ IsFull <=> Len(Contents) = nSize
<1>1. /\ push \in Slots /\ pop \in Slots /\ slot \in [Slots -> 0 .. MaxMsg]
      /\ item \in 0 .. MaxMsg
  BY DEF RInv, TypeOK
<1>2. \A i \in 1 .. Distance(pop, push) : Nth(i) \in 0 .. MaxMsg
  BY <1>1, Places DEF Nth
<1>3. Distance(pop, push) \in Nat
  BY <1>1, Places
<1>4. Contents \in Seq(0 .. MaxMsg) /\ Len(Contents) = Distance(pop, push)
  <2> DEFINE n == Distance(pop, push)
             f == [i \in 1 .. n |-> Nth(i)]
  <2>1. n \in Nat /\ \A i \in 1 .. n : Nth(i) \in 0 .. MaxMsg
    BY <1>2, <1>3
  <2> HIDE DEF n
  <2>2. f \in Seq(0 .. MaxMsg) /\ Len(f) = n
    BY <2>1
  <2> QED
    BY <2>2, ContentsIs DEF n
<1> QED
  BY <1>1, <1>4, Places DEF IsFull

\* A step that moves no position and keeps the events in their places keeps
\* the contents.
LEMMA ContentsSame ==
  ASSUME UNCHANGED <<push, pop>>,
         \A i \in 1 .. Distance(pop, push) : Nth(i)' = Nth(i)
  PROVE  Contents' = Contents
<1>1. Distance(pop, push)' = Distance(pop, push)
  BY DEF Distance, Size
<1>2. Contents' = [i \in 1 .. Distance(pop, push)' |-> Nth(i)']
  BY DEF Contents, Nth, Distance, Place
<1> QED
  BY <1>1, <1>2, ContentsIs

\* Every step of the two threads is a step of the queue or leaves it alone.
LEMMA QueueStep ==
  ASSUME RInv, InHand, [Next]_vars
  PROVE  [Queue!Put \/ Queue!Drop \/ Queue!Deliver]_(Queue!qvars)
<1>1. /\ push \in Slots /\ pop \in Slots /\ slot \in [Slots -> 0 .. MaxMsg]
      /\ nSize \in Nat
  BY RingConstants DEF RInv, TypeOK
<1>2. /\ Distance(pop, push) \in 0 .. nSize
      /\ \A i \in 1 .. Distance(pop, push) : /\ Place(pop, i) \in Slots \ {push}
                                             /\ i # 1 => Place(pop, i) # pop
      /\ Place(pop, 1) = pop
      /\ Distance(pop, push) = 0 <=> pop = push
  BY <1>1, Places
<1> USE DEF ring, producer, worker, life
<1>3. ASSUME UNCHANGED <<ring, next, item, event>>,
             cpc' \in {"clear", "advance"} <=> cpc \in {"clear", "advance"}
      PROVE  UNCHANGED Queue!qvars
  <2>1. \A i \in 1 .. Distance(pop, push) : Nth(i)' = Nth(i)
    BY <1>3 DEF Nth, Place, Size
  <2> QED
    BY <1>3, <2>1, ContentsSame DEF Queue!qvars
<1>4. CASE PushFull
  <2>1. CASE IsFull
    <3>1. Len(Contents) = nSize
      BY <2>1, ContentsLength
    <3>2. Contents' = Contents
      BY <1>4, ContentsSame DEF PushFull, Nth, Place, Size
    <3> QED
      BY <1>4, <2>1, <3>1, <3>2 DEF PushFull, Queue!Drop
  <2>2. CASE ~IsFull
    BY <1>3, <1>4, <2>2 DEF PushFull
  <2> QED
    BY <2>1, <2>2
<1>5. CASE PushWrite
  <2>1. \A i \in 1 .. Distance(pop, push) : Nth(i)' = Nth(i)
    BY <1>1, <1>2, <1>5 DEF PushWrite, Nth, Place, Size
  <2> QED
    BY <1>5, <2>1, ContentsSame DEF PushWrite, Queue!qvars
<1>6. CASE PushAdvance
  <2> DEFINE n == Distance(pop, push)
  <2>1. ~IsFull /\ slot[push] = next
    BY <1>6 DEF PushAdvance, RInv, Room, InHand
  <2>2. /\ push' = (push + 1) % Size /\ next' = next + 1
        /\ UNCHANGED <<pop, slot, worker>>
    BY <1>6 DEF PushAdvance
  <2>3. Distance(pop, push)' = n + 1 /\ Place(pop, n + 1) = push
    <3>1. Distance(pop, (push + 1) % Size) = n + 1 /\ Place(pop, n + 1) = push
      BY <1>1, <2>1, PlacesPush DEF IsFull
    <3> QED
      BY <2>2, <3>1 DEF Distance, Size
  <2>4. \A i \in 1 .. n + 1 : Nth(i)' = IF i = n + 1 THEN next ELSE Nth(i)
    <3>1. cpc \in {"clear", "advance"} => n # 0
      BY <1>2 DEF RInv, Room, IsEmpty
    <3>2. \A i : Nth(i)' = Nth(i)
      BY <2>2 DEF Nth, Place, Size
    <3>3. Nth(n + 1) = next
      BY <1>2, <2>1, <2>3, <3>1 DEF Nth
    <3> QED
      BY <3>2, <3>3
  <2>5. Contents' = [i \in 1 .. n + 1 |-> IF i = n + 1 THEN next ELSE Nth(i)]
    <3>1. Contents' = [i \in 1 .. Distance(pop, push)' |-> Nth(i)']
      BY DEF Contents, Nth, Distance, Place
    <3> QED
      BY <2>3, <2>4, <3>1
  <2>6. /\ Contents = [i \in 1 .. n |-> Nth(i)] /\ Len(Contents) = n /\ n \in Nat
        /\ Contents \in Seq(0 .. MaxMsg) /\ n < nSize
    <3>1. n \in 0 .. nSize /\ n # nSize /\ Len(Contents) = n
      BY <1>2, <2>1, ContentsLength
    <3>2. n < nSize /\ n \in Nat
      BY <1>1, <3>1
    <3> QED
      BY <3>1, <3>2, ContentsIs, ContentsLength
  <2>7. Contents' = Append(Contents, next)
    <3> HIDE DEF n
    <3>1. Append(Contents, next) = [i \in 1 .. n + 1 |-> IF i = n + 1 THEN next ELSE Nth(i)]
      BY <2>6
    <3> QED
      BY <2>5, <3>1
  <2> QED
    BY <2>2, <2>6, <2>7 DEF Queue!Put
<1>7. CASE PopRead
  <2>1. \A i \in 1 .. Distance(pop, push) : Nth(i)' = Nth(i)
    BY <1>1, <1>2, <1>7 DEF PopRead, Nth, Place, Size
  <2> QED
    BY <1>7, <2>1, ContentsSame DEF PopRead, Queue!qvars
<1>8. CASE PopClear
  <2>1. \A i \in 1 .. Distance(pop, push) : Nth(i)' = Nth(i)
    BY <1>1, <1>2, <1>8 DEF PopClear, Nth, Place, Size, InHand
  <2> QED
    BY <1>8, <2>1, ContentsSame DEF PopClear, Queue!qvars
<1>9. CASE PopAdvance
  <2> DEFINE n == Distance(pop, push)
  <2>1. /\ pop' = (pop + 1) % Size /\ event' = item /\ cpc = "advance" /\ cpc' = "drain"
        /\ UNCHANGED <<push, slot, next>>
    BY <1>9 DEF PopAdvance
  <2>2. pop # push /\ n # 0
    BY <1>2, <2>1 DEF RInv, Room, IsEmpty
  <2>3. /\ Distance(pop, push)' = n - 1
        /\ \A i \in 1 .. nSize : Place(pop, i)' = Place(pop, i + 1)
    <3>1. /\ Distance((pop + 1) % Size, push) = n - 1
          /\ \A i \in 1 .. nSize : Place((pop + 1) % Size, i) = Place(pop, i + 1)
      BY <1>1, <2>2, PlacesPop
    <3> QED
      BY <2>1, <3>1 DEF Distance, Place, Size
  <2>4. \A i \in 1 .. n - 1 : Nth(i)' = Nth(i + 1)
    BY <1>1, <1>2, <2>1, <2>3 DEF Nth
  <2>5. Contents' = [i \in 1 .. n - 1 |-> Nth(i + 1)]
    <3>1. Contents' = [i \in 1 .. Distance(pop, push)' |-> Nth(i)']
      BY DEF Contents, Nth, Distance, Place
    <3> QED
      BY <2>3, <2>4, <3>1
  <2>6. /\ Contents = [i \in 1 .. n |-> Nth(i)] /\ Len(Contents) = n /\ n \in Nat \ {0}
        /\ Contents \in Seq(0 .. MaxMsg) /\ Contents # <<>>
    BY <1>2, <2>2, ContentsIs, ContentsLength
  <2>7. Contents' = Tail(Contents) /\ Head(Contents) = item
    <3>1. Nth(1) = item
      BY <2>1 DEF Nth
    <3> HIDE DEF n
    <3>2. Tail(Contents) = [i \in 1 .. n - 1 |-> Nth(i + 1)] /\ Head(Contents) = Nth(1)
      BY <2>6
    <3> QED
      BY <2>5, <3>1, <3>2
  <2> QED
    BY <2>1, <2>6, <2>7 DEF Queue!Deliver
<1>10. CASE PushTest \/ PushPost
  BY <1>3, <1>10 DEF PushTest, PushPost
<1>11. CASE WorkTest \/ WorkWait \/ WorkDrain
  BY <1>3, <1>11 DEF WorkTest, WorkWait, WorkDrain
<1>12. CASE nativeInit \/ nativeQuit \/ QuitStep
  <2>1. cpc' \in {"clear", "advance"} <=> cpc \in {"clear", "advance"}
    BY <1>12 DEF nativeInit, nativeQuit, QuitStep, QuitJoin, QuitUnload, RInv, WorkerLives
  <2> QED
    BY <1>3, <1>12, <2>1 DEF nativeInit, nativeQuit, QuitStep, QuitJoin, QuitUnload
<1>13. CASE UNCHANGED vars
  BY <1>3, <1>13 DEF vars
<1> QED
  BY <1>4, <1>5, <1>6, <1>7, <1>8, <1>9, <1>10, <1>11, <1>12, <1>13
     DEF Next, ProducerStep, WorkerStep

\* Pushed without a lock by one thread and popped by another, of whatever
\* size, the ring delivers each event once and in order, and drops one only
\* when it is full.
THEOREM RingImplementsQueue == Spec => ImplementsQueue
<1>1. Init => Queue!QInit
  <2> SUFFICES ASSUME Init PROVE Queue!QInit
    OBVIOUS
  <2>1. 0 \in Slots
    BY RingConstants DEF Slots
  <2>2. Distance(pop, push) = 0
    BY <2>1, Places DEF Init
  <2>3. Contents = <<>>
    BY <2>2, ContentsIs
  <2> QED
    BY <2>3 DEF Init, Queue!QInit
<1>2. RInv /\ InHand /\ [Next]_vars =>
        [Queue!Put \/ Queue!Drop \/ Queue!Deliver]_(Queue!qvars)
  BY QueueStep
<1> QED
  BY <1>1, <1>2, RInvariant, InHandInvariant, PTL DEF Spec, ImplementsQueue, Queue!QueueSpec
==============================================================================
