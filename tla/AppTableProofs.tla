---------------------------- MODULE AppTableProofs ----------------------------
(***************************************************************************)
(* Proofs for AppTable, for any number of clients, devices, applications,  *)
(* waiting commands and failing statements.  The inductive invariant ties  *)
(* the rows to what is left of the listing, the observers of a table to    *)
(* how far each session has come, and the clients that were not told to    *)
(* the observers that Notify still has to call.                            *)
(***************************************************************************)
EXTENDS AppTable, TLAPS

\* A thread that is between OnExecuted and the end of Notify has a device.
Busy == \A t \in Thread : pc[t] # "idle" => dev[t] \in Device

\* Where the threads can be: only queue 1 deletes and inserts, the others
\* update.
Places ==
  \A t \in Thread : /\ pc[t] \in {"delete", "insert"} => t = "queue1"
                    /\ pc[t] = "update" => t # "queue1"

\* The rows of a listing are those that are not left, if all went well.
RowsSoFar ==
  /\ ~clash
  /\ pc["queue1"] \in {"insert", "notify", "send"} =>
       /\ left \subseteq listing
       /\ good => rows[dev["queue1"]] = listing \ left
  /\ pc["queue1"] \in {"notify", "send"} => left = {}

\* The observers of table number i are the sessions that have come to i when
\* they register, or have not come to it when they unregister.
RegisteredWith(c, i) == IF sess[c] = "fini" THEN i > 3 - regs[c] ELSE i <= regs[c]

Registered ==
  \A c \in Client :
    /\ \A i \in 1 .. 3 : c \in observers[Tables[i]] <=> RegisteredWith(c, i)
    /\ sess[c] = "none" => regs[c] = 0
    /\ sess[c] \in {"up", "ended"} => regs[c] = 3

\* Notify has only registered observers left to call.
Calling == \A t \in Thread : pc[t] = "send" => toSend[t] \subseteq observers[TableOf[t]]

\* Clients that were not told are registered, and Notify has them to come.
Untold ==
  \A u \in untold :
    /\ u[1] \in observers[TableOf[u[2]]]
    /\ dev[u[2]] = u[3] /\ pc[u[2]] # "idle"
    /\ pc[u[2]] = "send" => u[1] \in toSend[u[2]]

AInv == TypeOK /\ Busy /\ Places /\ RowsSoFar /\ Registered /\ Calling /\ Untold

------------------------------------------------------------------------------

\* The threads, the tables and their order.
LEMMA Names ==
  /\ Thread = {"queue0", "queue1", "monitor"}
  /\ TableOf \in [Thread -> {"dev", "app", "cmd"}]
  /\ \A t \in Thread : TableOf[t] = IF t = "queue1" THEN "app" ELSE "dev"
  /\ Len(Tables) = 3
  /\ \A i \in 1 .. 3 : Tables[i] \in {"dev", "app", "cmd"}
  /\ \A i, j \in 1 .. 3 : Tables[i] = Tables[j] => i = j
  /\ \A b \in {"dev", "app", "cmd"} : \E i \in 1 .. 3 : Tables[i] = b
<1>1. Tables[1] = "dev" /\ Tables[2] = "app" /\ Tables[3] = "cmd" /\ Len(Tables) = 3
  BY DEF Tables
<1>2. \A i \in 1 .. 3 : i = 1 \/ i = 2 \/ i = 3
  OBVIOUS
<1>3. 1 \in 1 .. 3 /\ 2 \in 1 .. 3 /\ 3 \in 1 .. 3
  OBVIOUS
<1>4. Thread = {"queue0", "queue1", "monitor"}
  BY DEF Thread, TableOf
<1>5. /\ TableOf["queue0"] = "dev" /\ TableOf["queue1"] = "app"
      /\ TableOf["monitor"] = "dev"
  BY DEF TableOf
<1>6. TableOf \in [Thread -> {"dev", "app", "cmd"}]
  BY DEF TableOf, Thread
<1> QED
  BY <1>1, <1>2, <1>3, <1>4, <1>5, <1>6

\* More waiting commands are still a number up to the bound.
LEMMA QueueCmdType ==
  ASSUME TypeOK, NEW t \in Queue, NEW d \in Device, NEW n \in Nat, QueueCmd(t, d, n)
  PROVE  waiting' \in [Queue -> [Device -> 0 .. MaxQueue]]
<1> DEFINE w == waiting[t][d]
           v == IF w + n < MaxQueue THEN w + n ELSE MaxQueue
<1>1. w \in 0 .. MaxQueue
  BY DEF TypeOK
<1>2. v \in 0 .. MaxQueue
  BY <1>1, BoundsAssumption
<1>3. waiting' = [waiting EXCEPT ![t][d] = v]
  BY DEF QueueCmd
<1> HIDE DEF v
<1> QED
  BY <1>2, <1>3 DEF TypeOK

\* The tables start in AInv.
LEMMA InitAInv == Init => AInv
<1> SUFFICES ASSUME Init PROVE AInv
  OBVIOUS
<1> USE Names, BoundsAssumption
<1>1. TypeOK
  <2>1. 0 \in 0 .. MaxQueue /\ 0 \in 0 .. MaxFail /\ 0 \in 0 .. Len(Tables)
    OBVIOUS
  <2>2. waiting \in [Queue -> [Device -> 0 .. MaxQueue]]
    BY <2>1 DEF Init
  <2>3. /\ pc \in [Thread -> {"idle", "update", "delete", "insert", "notify", "send"}]
        /\ dev \in [Thread -> Device \cup {NoDev}]
        /\ toSend \in [Thread -> SUBSET Client]
    BY DEF Init
  <2>4. /\ rows \in [Device -> SUBSET App]
        /\ observers \in [{"dev", "app", "cmd"} -> SUBSET Client]
        /\ sess \in [Client -> {"none", "init", "up", "ended", "fini"}]
        /\ regs \in [Client -> 0 .. Len(Tables)]
    BY <2>1 DEF Init
  <2> QED
    BY <2>1, <2>2, <2>3, <2>4 DEF Init, TypeOK
<1>2. Busy /\ Places /\ RowsSoFar /\ Calling /\ Untold
  BY DEF Init, Busy, Places, RowsSoFar, Calling, Untold
<1>3. Registered
  BY DEF Init, Registered, RegisteredWith, TypeOK
<1> QED
  BY <1>1, <1>2, <1>3 DEF AInv

------------------------------------------------------------------------------
(* The commands.                                                           *)

LEMMA RequestStep ==
  ASSUME AInv, NEW c \in Client, NEW d \in Device, ProcessDbMsg(c, d)
  PROVE  AInv'
<1> USE DEF AInv, ProcessDbMsg
<1>1. UNCHANGED <<pc, dev, listing, left, rows, fails, good, clash, obs, untold>>
  BY DEF UpdateInfo, UpdateAppList, DeletesRows
<1>2. waiting' \in [Queue -> [Device -> 0 .. MaxQueue]]
  BY QueueCmdType DEF UpdateInfo, UpdateAppList, Queue
<1>3. TypeOK'
  BY <1>1, <1>2 DEF TypeOK, obs
<1> QED
  BY <1>1, <1>3
     DEF Busy, Places, RowsSoFar, Registered, RegisteredWith, Calling, Untold, obs

LEMMA TakeStep ==
  ASSUME AInv, NEW t \in Queue, NEW d \in Device, Take(t, d)
  PROVE  AInv'
<1> USE Names DEF AInv
<1>1. waiting' \in [Queue -> [Device -> 0 .. MaxQueue]]
  <2>1. waiting[t][d] \in 0 .. MaxQueue /\ waiting[t][d] > 0
    BY DEF TypeOK, Take
  <2>2. waiting[t][d] - 1 \in 0 .. MaxQueue
    BY <2>1, BoundsAssumption
  <2> QED
    BY <2>2 DEF TypeOK, Take
<1>2. /\ t \in {"queue0", "queue1"} /\ t \in Thread /\ pc[t] = "idle"
      /\ UNCHANGED <<left, rows, fails, clash, observers, toSend, sess, regs, untold>>
  BY DEF Take, Queue, obs
<1>3. CASE UNCHANGED <<pc, dev, listing, good>>
  <2>1. TypeOK'
    BY <1>1, <1>2, <1>3 DEF TypeOK
  <2> QED
    BY <1>2, <1>3, <2>1
       DEF Busy, Places, RowsSoFar, Registered, RegisteredWith, Calling, Untold, ObserverLocked
<1>4. CASE /\ pc' = [pc EXCEPT ![t] = IF t = "queue1" THEN "delete" ELSE "update"]
           /\ dev' = [dev EXCEPT ![t] = d]
           /\ listing' \in SUBSET App
           /\ good' \in BOOLEAN
           /\ t # "queue1" => UNCHANGED <<listing, good>>
  <2>1. TypeOK'
    BY <1>1, <1>2, <1>4 DEF TypeOK
  <2>2. Busy' /\ Places'
    BY <1>2, <1>4 DEF TypeOK, Busy, Places
  <2>3. RowsSoFar'
    BY <1>2, <1>4 DEF TypeOK, RowsSoFar
  <2>4. Registered' /\ Calling' /\ Untold'
    BY <1>2, <1>4 DEF TypeOK, Registered, RegisteredWith, Calling, Untold
  <2> QED
    BY <2>1, <2>2, <2>3, <2>4
<1>5. \/ UNCHANGED <<pc, dev, listing, good>>
      \/ /\ pc' = [pc EXCEPT ![t] = IF t = "queue1" THEN "delete" ELSE "update"]
         /\ dev' = [dev EXCEPT ![t] = d]
         /\ listing' \in SUBSET App
         /\ good' \in BOOLEAN
         /\ t # "queue1" => UNCHANGED <<listing, good>>
  BY DEF Take, TypeOK
<1> QED
  BY <1>3, <1>4, <1>5

LEMMA MonitorStep ==
  ASSUME AInv, NEW d \in Device, MonitorCalls(d)
  PROVE  AInv'
<1> USE Names DEF AInv, MonitorCalls, At
<1>1. TypeOK'
  BY DEF TypeOK, obs, db
<1>2. Busy' /\ Places' /\ RowsSoFar'
  BY DEF TypeOK, Busy, Places, RowsSoFar, db
<1>3. Registered' /\ Calling' /\ Untold'
  BY DEF TypeOK, Registered, RegisteredWith, Calling, Untold, obs
<1> QED
  BY <1>1, <1>2, <1>3

LEMMA UpdateStep ==
  ASSUME AInv, NEW t \in Thread, DevUpdate(t)
  PROVE  AInv'
<1> USE Names DEF AInv, DevUpdate, At
<1>0. t # "queue1"
  BY DEF Places
<1>1. TypeOK'
  <2>1. fails' \in 0 .. MaxFail
    BY BoundsAssumption DEF TypeOK, SqlFails
  <2>2. untold' \subseteq Client \X Thread \X Device
    BY DEF TypeOK, Busy, Changed
  <2> QED
    BY <2>1, <2>2 DEF TypeOK, obs
<1>2. Busy' /\ Places'
  BY DEF TypeOK, Busy, Places
<1>3. RowsSoFar'
  BY <1>0 DEF TypeOK, RowsSoFar
<1>4. Registered' /\ Calling'
  BY DEF TypeOK, Registered, RegisteredWith, Calling, obs
<1>5. Untold'
  BY DEF TypeOK, Untold, Changed, obs
<1> QED
  BY <1>1, <1>2, <1>3, <1>4, <1>5

------------------------------------------------------------------------------
(* The listing.                                                            *)

LEMMA DeleteStep ==
  ASSUME AInv, AppDelete
  PROVE  AInv'
<1> DEFINE d == dev["queue1"]
<1> USE Names DEF AInv, AppDelete, At
<1>1. d \in Device /\ "queue1" \in Thread /\ pc["queue1"] = "delete"
  BY DEF Busy
<1>2. /\ pc' = [pc EXCEPT !["queue1"] = "insert"]
      /\ left' = listing
      /\ UNCHANGED <<waiting, dev, listing, clash, observers, toSend, sess, regs>>
  BY DEF obs
<1>3. CASE /\ rows' = [rows EXCEPT ![d] = {}]
           /\ UNCHANGED <<fails, good>>
  <2>1. untold' \in {untold, untold \cup {<<c, "queue1", d>> : c \in observers["app"]}}
    BY <1>1, <1>3 DEF Changed, SqlFails, DeletesRows
  <2> HIDE DEF AppDelete, At
  <2>2. TypeOK'
    BY <1>1, <1>2, <1>3, <2>1 DEF TypeOK
  <2>3. Busy' /\ Places' /\ RowsSoFar'
    BY <1>1, <1>2, <1>3 DEF TypeOK, Busy, Places, RowsSoFar
  <2>4. Registered' /\ Calling'
    BY <1>1, <1>2 DEF TypeOK, Registered, RegisteredWith, Calling
  <2>5. Untold'
    BY <1>1, <1>2, <2>1 DEF TypeOK, Untold
  <2> QED
    BY <2>2, <2>3, <2>4, <2>5
<1>4. CASE /\ SqlFails /\ good' = FALSE
           /\ UNCHANGED <<rows, untold>>
  <2> HIDE DEF AppDelete, At
  <2>1. fails' \in 0 .. MaxFail
    BY <1>4, BoundsAssumption DEF TypeOK, SqlFails
  <2>2. TypeOK'
    BY <1>1, <1>2, <1>4, <2>1 DEF TypeOK
  <2>3. Busy' /\ Places' /\ RowsSoFar'
    BY <1>1, <1>2, <1>4 DEF TypeOK, Busy, Places, RowsSoFar
  <2>4. Registered' /\ Calling' /\ Untold'
    BY <1>1, <1>2, <1>4 DEF TypeOK, Registered, RegisteredWith, Calling, Untold
  <2> QED
    BY <2>2, <2>3, <2>4
<1> QED
  BY <1>3, <1>4 DEF DeletesRows

LEMMA InsertStep ==
  ASSUME AInv, NEW a \in App, AppInsert(a)
  PROVE  AInv'
<1> DEFINE d == dev["queue1"]
<1> USE Names DEF AInv
<1>1. d \in Device /\ "queue1" \in Thread /\ pc["queue1"] = "insert" /\ a \in left
  BY DEF Busy, AppInsert
<1>2. /\ left' = left \ {a}
      /\ UNCHANGED <<waiting, pc, dev, listing, observers, toSend, sess, regs>>
  BY DEF obs, AppInsert
<1>3. CASE /\ a \notin rows[d]
           /\ rows' = [rows EXCEPT ![d] = @ \cup {a}]
           /\ Changed("queue1", d)
           /\ UNCHANGED <<fails, good, clash>>
  <2>1. untold' = untold \cup {<<c, "queue1", d>> : c \in observers["app"]}
    BY <1>3 DEF Changed
  <2>2. TypeOK'
    BY <1>1, <1>2, <1>3, <2>1 DEF TypeOK
  <2>3. Busy' /\ Places'
    BY <1>2 DEF Busy, Places
  <2>4. RowsSoFar'
    BY <1>1, <1>2, <1>3 DEF TypeOK, RowsSoFar
  <2>5. Registered' /\ Calling' /\ Untold'
    BY <1>1, <1>2, <2>1 DEF TypeOK, Registered, RegisteredWith, Calling, Untold
  <2> QED
    BY <2>2, <2>3, <2>4, <2>5
<1>4. CASE /\ a \in rows[d]
           /\ clash' = (clash \/ good)
           /\ UNCHANGED <<rows, untold, fails, good>>
  <2>1. ~good
    BY <1>1, <1>4 DEF RowsSoFar
  <2>2. TypeOK'
    BY <1>1, <1>2, <1>4 DEF TypeOK
  <2>3. Busy' /\ Places' /\ RowsSoFar'
    BY <1>1, <1>2, <1>4, <2>1 DEF Busy, Places, RowsSoFar
  <2>4. Registered' /\ Calling' /\ Untold'
    BY <1>2, <1>4 DEF Registered, RegisteredWith, Calling, Untold
  <2> QED
    BY <2>2, <2>3, <2>4
<1>5. CASE SqlFails /\ good' = FALSE /\ UNCHANGED <<rows, untold, clash>>
  <2>1. fails' \in 0 .. MaxFail
    BY <1>5, BoundsAssumption DEF TypeOK, SqlFails
  <2>2. TypeOK'
    BY <1>1, <1>2, <1>5, <2>1 DEF TypeOK
  <2>3. Busy' /\ Places' /\ RowsSoFar'
    BY <1>1, <1>2, <1>5 DEF Busy, Places, RowsSoFar
  <2>4. Registered' /\ Calling' /\ Untold'
    BY <1>2, <1>5 DEF Registered, RegisteredWith, Calling, Untold
  <2> QED
    BY <2>2, <2>3, <2>4
<1> QED
  BY <1>3, <1>4, <1>5 DEF AppInsert

LEMMA InsertedStep ==
  ASSUME AInv, AppInserted
  PROVE  AInv'
<1> USE Names DEF AInv, AppInserted, At
<1>1. TypeOK'
  BY DEF TypeOK, obs, db
<1>2. Busy' /\ Places' /\ RowsSoFar'
  BY DEF TypeOK, Busy, Places, RowsSoFar, db
<1>3. Registered' /\ Calling' /\ Untold'
  BY DEF TypeOK, Registered, RegisteredWith, Calling, Untold, obs
<1> QED
  BY <1>1, <1>2, <1>3

------------------------------------------------------------------------------
(* Notify.                                                                 *)

LEMMA NotifyStart ==
  ASSUME AInv, NEW t \in Thread, Notify(t)
  PROVE  AInv'
<1> USE Names DEF AInv, Notify, At
<1>1. TypeOK'
  BY DEF TypeOK, db
<1>2. Busy' /\ Places' /\ RowsSoFar'
  BY DEF TypeOK, Busy, Places, RowsSoFar, db
<1>3. Registered' /\ Calling' /\ Untold'
  BY DEF TypeOK, Registered, RegisteredWith, Calling, Untold
<1> QED
  BY <1>1, <1>2, <1>3

LEMMA SendStep ==
  ASSUME AInv, NEW t \in Thread, NEW c \in Client, SendPDU(t, c)
  PROVE  AInv'
<1> USE Names DEF AInv, SendPDU
<1>1. TypeOK'
  BY DEF TypeOK, exec, db
<1>2. Busy' /\ Places' /\ RowsSoFar'
  BY DEF Busy, Places, RowsSoFar, exec, db
<1>3. Registered' /\ Calling'
  BY DEF TypeOK, Registered, RegisteredWith, Calling, exec
<1>4. Untold'
  <2> SUFFICES ASSUME NEW u \in untold'
               PROVE  /\ u[1] \in observers'[TableOf[u[2]]]
                      /\ dev'[u[2]] = u[3] /\ pc'[u[2]] # "idle"
                      /\ pc'[u[2]] = "send" => u[1] \in toSend'[u[2]]
    BY DEF Untold
  <2>1. /\ u \in untold /\ u # <<c, t, dev[t]>> /\ u \in Client \X Thread \X Device
        /\ UNCHANGED <<pc, dev, observers>>
    BY DEF TypeOK, exec
  <2>2. u = <<u[1], u[2], u[3]>> /\ u[2] \in Thread
    BY <2>1
  <2>3. dev[u[2]] = u[3]
    BY <2>1 DEF Untold
  <2>4. u[2] # t \/ u[1] # c
    BY <2>1, <2>2, <2>3
  <2>5. toSend' = [toSend EXCEPT ![t] = @ \ {c}]
    OBVIOUS
  <2> QED
    BY <2>1, <2>2, <2>4, <2>5 DEF Untold, TypeOK
<1> QED
  BY <1>1, <1>2, <1>3, <1>4

LEMMA DoneStep ==
  ASSUME AInv, NEW t \in Thread, NotifyDone(t)
  PROVE  AInv'
<1> USE Names DEF AInv
<1>1. /\ pc[t] = "send" /\ pc' = [pc EXCEPT ![t] = "idle"] /\ toSend[t] = {}
      /\ dev' = [dev EXCEPT ![t] = NoDev]
      /\ listing' = IF t = "queue1" THEN {} ELSE listing
      /\ UNCHANGED <<left, rows, fails, good, clash, observers, toSend, sess, regs, untold>>
  BY DEF NotifyDone, At, db, obs
<1>2. waiting' \in [Queue -> [Device -> 0 .. MaxQueue]]
  <2>1. CASE UNCHANGED waiting
    BY <2>1 DEF TypeOK
  <2>2. CASE t = "monitor" /\ QueueCmd("queue0", dev[t], 3)
    BY <1>1, <2>2, QueueCmdType DEF Busy, Queue
  <2> QED
    BY <2>1, <2>2 DEF NotifyDone
<1>3. TypeOK'
  BY <1>1, <1>2 DEF TypeOK
<1>4. Busy' /\ Places' /\ RowsSoFar'
  BY <1>1 DEF TypeOK, Busy, Places, RowsSoFar
<1>5. Registered' /\ Calling'
  BY <1>1 DEF TypeOK, Registered, RegisteredWith, Calling
<1>6. Untold'
  <2>1. \A u \in untold : u[2] # t /\ u[2] \in Thread
    BY <1>1 DEF Untold, TypeOK
  <2> QED
    BY <1>1, <2>1 DEF Untold, TypeOK
<1> QED
  BY <1>3, <1>4, <1>5, <1>6

------------------------------------------------------------------------------
(* The sessions.                                                           *)

\* What a step of a session leaves alone.
LEMMA SessionFrame ==
  ASSUME AInv, UNCHANGED <<exec, db, toSend>>
  PROVE  Busy' /\ Places' /\ RowsSoFar'
BY DEF AInv, Busy, Places, RowsSoFar, exec, db

\* Steps that move a session, but neither register nor unregister it.
LEMMA MoveStep ==
  ASSUME AInv, NEW c \in Client, NEW s \in {"none", "init", "up", "ended", "fini"},
         sess' = [sess EXCEPT ![c] = s],
         regs[c] \in {0, 3} \/ (sess[c] # "fini" /\ s # "fini"),
         s = "none" => regs[c] = 0, s \in {"up", "ended"} => regs[c] = 3,
         UNCHANGED <<exec, db, observers, toSend, regs, untold>>
  PROVE  AInv'
<1> USE Names DEF AInv
<1>1. TypeOK'
  BY DEF TypeOK, exec, db
<1>2. Calling' /\ Untold'
  BY DEF TypeOK, Calling, Untold, exec
<1>3. Registered'
  <2> SUFFICES ASSUME NEW e \in Client
               PROVE  /\ \A i \in 1 .. 3 : e \in observers'[Tables[i]] <=> RegisteredWith(e, i)'
                      /\ sess'[e] = "none" => regs'[e] = 0
                      /\ sess'[e] \in {"up", "ended"} => regs'[e] = 3
    BY DEF Registered
  <2>1. sess'[e] = (IF e = c THEN s ELSE sess[e]) /\ regs' = regs /\ observers' = observers
    BY DEF TypeOK
  <2>2. \A i \in 1 .. 3 : RegisteredWith(e, i)' <=> RegisteredWith(e, i)
    BY <2>1 DEF RegisteredWith
  <2> QED
    BY <2>1, <2>2 DEF Registered
<1> QED
  BY <1>1, <1>2, <1>3, SessionFrame

LEMMA RegisterStep ==
  ASSUME AInv, NEW c \in Client, RegisterObserver(c)
  PROVE  AInv'
<1> DEFINE k == regs[c] + 1
           b == Tables[k]
<1> USE Names DEF AInv
<1>1. regs[c] \in 0 .. 3 /\ regs[c] < 3 /\ k \in 1 .. 3 /\ b \in {"dev", "app", "cmd"}
  BY DEF TypeOK, RegisterObserver
<1>2. /\ ~ObserverLocked(b) /\ sess[c] = "init"
      /\ observers' = [observers EXCEPT ![b] = @ \cup {c}]
      /\ regs' = [regs EXCEPT ![c] = k]
      /\ UNCHANGED <<exec, db, toSend, sess, untold>>
  BY DEF RegisterObserver
<1> HIDE DEF b
<1>3. TypeOK'
  BY <1>1, <1>2 DEF TypeOK, exec, db
<1>4. Registered'
  <2> SUFFICES ASSUME NEW e \in Client
               PROVE  /\ \A i \in 1 .. 3 : e \in observers'[Tables[i]] <=> RegisteredWith(e, i)'
                      /\ sess'[e] = "none" => regs'[e] = 0
                      /\ sess'[e] \in {"up", "ended"} => regs'[e] = 3
    BY DEF Registered
  <2>1. ASSUME NEW i \in 1 .. 3
        PROVE  e \in observers'[Tables[i]] <=> e \in observers[Tables[i]] \/ (e = c /\ i = k)
    BY <1>1, <1>2 DEF TypeOK, b
  <2>2. regs'[e] = IF e = c THEN k ELSE regs[e]
    BY <1>2 DEF TypeOK
  <2> QED
    BY <1>1, <1>2, <2>1, <2>2 DEF Registered, RegisteredWith
<1>5. Calling' /\ Untold'
  BY <1>1, <1>2 DEF TypeOK, Calling, Untold, exec
<1> QED
  BY <1>2, <1>3, <1>4, <1>5, SessionFrame

LEMMA UnregisterStep ==
  ASSUME AInv, NEW c \in Client, UnregisterObserver(c)
  PROVE  AInv'
<1> DEFINE k == Len(Tables) + 1 - regs[c]
           b == Tables[k]
<1> USE Names DEF AInv
<1>1. regs[c] \in 1 .. 3 /\ k = 4 - regs[c] /\ k \in 1 .. 3 /\ b \in {"dev", "app", "cmd"}
  BY DEF TypeOK, UnregisterObserver
<1>2. /\ ~ObserverLocked(b) /\ sess[c] = "fini"
      /\ observers' = [observers EXCEPT ![b] = @ \ {c}]
      /\ regs' = [regs EXCEPT ![c] = @ - 1]
      /\ untold' = {u \in untold : u[1] # c \/ TableOf[u[2]] # b}
      /\ UNCHANGED <<exec, db, toSend, sess>>
  BY DEF UnregisterObserver
<1> HIDE DEF b
<1>3. TypeOK'
  BY <1>1, <1>2 DEF TypeOK, exec, db
<1>4. Registered'
  <2> SUFFICES ASSUME NEW e \in Client
               PROVE  /\ \A i \in 1 .. 3 : e \in observers'[Tables[i]] <=> RegisteredWith(e, i)'
                      /\ sess'[e] = "none" => regs'[e] = 0
                      /\ sess'[e] \in {"up", "ended"} => regs'[e] = 3
    BY DEF Registered
  <2>1. ASSUME NEW i \in 1 .. 3
        PROVE  e \in observers'[Tables[i]] <=> e \in observers[Tables[i]] /\ ~(e = c /\ i = k)
    BY <1>1, <1>2 DEF TypeOK, b
  <2>2. regs'[e] = IF e = c THEN regs[c] - 1 ELSE regs[e]
    BY <1>2 DEF TypeOK
  <2>3. ASSUME NEW i \in 1 .. 3
        PROVE  RegisteredWith(e, i)' <=> RegisteredWith(e, i) /\ ~(e = c /\ i = k)
    BY <1>1, <1>2, <2>2 DEF RegisteredWith
  <2> QED
    BY <1>1, <1>2, <2>1, <2>2, <2>3 DEF Registered
<1>5. Calling'
  BY <1>1, <1>2 DEF TypeOK, Calling, ObserverLocked, exec
<1>6. Untold'
  <2> SUFFICES ASSUME NEW u \in untold'
               PROVE  /\ u[1] \in observers'[TableOf[u[2]]]
                      /\ dev'[u[2]] = u[3] /\ pc'[u[2]] # "idle"
                      /\ pc'[u[2]] = "send" => u[1] \in toSend'[u[2]]
    BY DEF Untold
  <2>1. /\ u \in untold /\ (u[1] # c \/ TableOf[u[2]] # b) /\ u[2] \in Thread
        /\ UNCHANGED <<pc, dev, toSend>>
    BY <1>2 DEF TypeOK, exec
  <2>2. TableOf[u[2]] \in {"dev", "app", "cmd"}
    BY <2>1
  <2> QED
    BY <1>1, <1>2, <2>1, <2>2 DEF Untold, TypeOK
<1> QED
  BY <1>2, <1>3, <1>4, <1>5, <1>6, SessionFrame

LEMMA SessionStep ==
  ASSUME AInv, NEW c \in Client,
         Accept(c) \/ Start(c) \/ EndSession(c) \/ Stop(c) \/ Delete(c)
  PROVE  AInv'
<1>1. regs[c] \in 0 .. 3 /\ (sess[c] = "none" => regs[c] = 0)
      /\ (sess[c] \in {"up", "ended"} => regs[c] = 3)
  BY Names DEF AInv, TypeOK, Registered
<1>2. CASE Accept(c)
  BY <1>1, <1>2, MoveStep DEF Accept
<1>3. CASE Start(c)
  BY <1>1, <1>3, MoveStep, Names DEF Start
<1>4. CASE EndSession(c)
  BY <1>1, <1>4, MoveStep DEF EndSession
<1>5. CASE Stop(c)
  BY <1>1, <1>5, MoveStep DEF Stop
<1>6. CASE Delete(c)
  BY <1>1, <1>6, MoveStep DEF Delete
<1> QED
  BY <1>2, <1>3, <1>4, <1>5, <1>6

------------------------------------------------------------------------------

\* Every step preserves AInv: one lemma per operation, above.
LEMMA NextAInv == AInv /\ [Next]_vars => AInv'
<1> SUFFICES ASSUME AInv, [Next]_vars PROVE AInv'
  OBVIOUS
<1>1. CASE UNCHANGED vars
  BY <1>1 DEF vars, exec, db, obs, AInv, TypeOK, Busy, Places, RowsSoFar, Registered,
              RegisteredWith, Calling, Untold
<1>2. ASSUME NEW t \in Thread, NotifyStep(t) \/ DevUpdate(t) PROVE AInv'
  BY <1>2, NotifyStart, SendStep, DoneStep, UpdateStep DEF NotifyStep
<1>3. ASSUME NEW d \in Device, MonitorCalls(d) \/ \E t \in Queue : Take(t, d) PROVE AInv'
  BY <1>3, MonitorStep, TakeStep
<1>4. CASE AppStep
  BY <1>4, DeleteStep, InsertStep, InsertedStep DEF AppStep
<1>5. ASSUME NEW c \in Client,
             Accept(c) \/ InitStep(c) \/ EndSession(c) \/ FiniStep(c)
      PROVE  AInv'
  BY <1>5, RegisterStep, UnregisterStep, SessionStep DEF InitStep, FiniStep
<1>6. ASSUME NEW c \in Client, NEW d \in Device, ProcessDbMsg(c, d)
      PROVE  AInv'
  BY <1>6, RequestStep
<1> QED
  BY <1>1, <1>2, <1>3, <1>4, <1>5, <1>6 DEF Next

\* AInv holds in every state of the application table.
THEOREM AInvariant == Spec => []AInv
BY InitAInv, NextAInv, PTL DEF Spec

------------------------------------------------------------------------------
(* The theorems.                                                           *)

\* Every reachable state is well typed, for every number of clients, devices
\* and applications.
THEOREM TypeCorrect == Spec => []TypeOK
<1>1. AInv => TypeOK
  BY DEF AInv
<1> QED
  BY <1>1, AInvariant, PTL

\* However the requests of several clients and the listings of several devices
\* mix, the clients are told of one whole listing.
THEOREM ListingIsWhole == Spec => []ListingWhole
<1>1. AInv => ListingWhole
  BY DEF AInv, RowsSoFar, ListingWhole
<1> QED
  BY <1>1, AInvariant, PTL

\* No client misses a change of the rows, however many come and go.
THEOREM NobodyMissesAChange == Spec => []ToldAfterChange
<1>1. AInv => ToldAfterChange
  BY DEF AInv, Untold, ToldAfterChange
<1> QED
  BY <1>1, AInvariant, PTL

\* Notify never calls a session that has been deleted.
THEOREM NotifyCallsLive == Spec => []HandlerLive
<1>1. AInv => HandlerLive
  <2> SUFFICES ASSUME AInv, NEW t \in Thread, pc[t] = "send", NEW c \in toSend[t]
               PROVE  sess[c] # "none" /\ c \in observers[TableOf[t]]
    BY DEF HandlerLive
  <2>1. c \in Client /\ c \in observers[TableOf[t]] /\ TableOf[t] \in {"dev", "app", "cmd"}
    BY Names DEF AInv, TypeOK, Calling
  <2>2. PICK i \in 1 .. 3 : Tables[i] = TableOf[t]
    BY <2>1, Names
  <2>3. RegisteredWith(c, i) /\ (sess[c] = "none" => regs[c] = 0)
    BY <2>1, <2>2 DEF AInv, Registered
  <2> QED
    BY <2>1, <2>2, <2>3 DEF RegisteredWith
<1> QED
  BY <1>1, AInvariant, PTL
=============================================================================
