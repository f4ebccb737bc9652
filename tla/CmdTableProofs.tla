-------------------------- MODULE CmdTableProofs --------------------------
(***************************************************************************)
(* Theorems about CmdTable, for every number of requests, devices, failing *)
(* statements and crashes: the types and all of its safety properties.     *)
(***************************************************************************)
EXTENDS CmdTable, FiniteSetTheorems, TLAPS

------------------------------------------------------------------------------
(* Lemmas on what an executor is made of: a table with one entry for each  *)
(* device and queue, and FIFOs in which nothing occurs twice.              *)

\* Updating one entry of a two-level function changes that entry only.
LEMMA Update2 ==
  ASSUME NEW D, NEW Q, NEW S, NEW f \in [D -> [Q -> S]], NEW d \in D, NEW q \in Q,
         NEW v \in S
  PROVE  /\ [f EXCEPT ![d][q] = v] \in [D -> [Q -> S]]
         /\ \A e \in D, p \in Q :
              [f EXCEPT ![d][q] = v][e][p] = IF e = d /\ p = q THEN v ELSE f[e][p]
OBVIOUS

\* Append adds one element.
LEMMA RangeAppend ==
  ASSUME NEW S, NEW s \in Seq(S), NEW x \in S
  PROVE  Range(Append(s, x)) = Range(s) \cup {x}
<1>1. /\ DOMAIN Append(s, x) = 1..(Len(s) + 1) /\ DOMAIN s = 1..Len(s)
      /\ \A i \in 1..Len(s) : Append(s, x)[i] = s[i]
      /\ Append(s, x)[Len(s) + 1] = x
      /\ Len(s) \in Nat
  OBVIOUS
<1> QED
  BY <1>1 DEF Range

\* The elements of a sequence are its head and those of its tail.
LEMMA RangeTail ==
  ASSUME NEW S, NEW s \in Seq(S), s # <<>>
  PROVE  Range(s) = Range(Tail(s)) \cup {Head(s)}
<1>1. /\ DOMAIN s = 1..Len(s) /\ DOMAIN Tail(s) = 1..(Len(s) - 1)
      /\ \A i \in 1..(Len(s) - 1) : Tail(s)[i] = s[i + 1]
      /\ Head(s) = s[1]
      /\ Len(s) \in Nat \ {0}
  OBVIOUS
<1>2. \A i \in 1..Len(s) : i = 1 \/ (i - 1 \in 1..(Len(s) - 1) /\ s[i] = Tail(s)[i - 1])
  BY <1>1
<1>3. \A i \in 1..(Len(s) - 1) : i + 1 \in 1..Len(s)
  BY <1>1
<1>4. ASSUME NEW x \in Range(s) PROVE x \in Range(Tail(s)) \cup {Head(s)}
  <2>1. PICK i \in 1..Len(s) : x = s[i]
    BY <1>1 DEF Range
  <2>2. CASE i = 1
    BY <1>1, <2>1, <2>2
  <2>3. CASE i - 1 \in 1..(Len(s) - 1) /\ s[i] = Tail(s)[i - 1]
    BY <1>1, <2>1, <2>3 DEF Range
  <2> QED
    BY <1>2, <2>2, <2>3
<1>5. ASSUME NEW x \in Range(Tail(s)) \cup {Head(s)} PROVE x \in Range(s)
  <2>1. CASE x = Head(s)
    BY <1>1, <2>1 DEF Range
  <2>2. CASE x \in Range(Tail(s))
    <3>1. PICK i \in 1..(Len(s) - 1) : x = Tail(s)[i]
      BY <1>1, <2>2 DEF Range
    <3> QED
      BY <1>1, <1>3, <3>1 DEF Range
  <2> QED
    BY <2>1, <2>2
<1> QED
  BY <1>4, <1>5

\* In a sequence without repetition the head does not recur, and the tail
\* has no repetition either.
LEMMA TailDistinct ==
  ASSUME NEW S, NEW s \in Seq(S), s # <<>>,
         \A i, j \in 1..Len(s) : s[i] = s[j] => i = j
  PROVE  /\ Head(s) \notin Range(Tail(s))
         /\ \A i, j \in 1..Len(Tail(s)) : Tail(s)[i] = Tail(s)[j] => i = j
<1>1. /\ DOMAIN Tail(s) = 1..(Len(s) - 1) /\ Len(Tail(s)) = Len(s) - 1
      /\ \A i \in 1..(Len(s) - 1) : Tail(s)[i] = s[i + 1]
      /\ Head(s) = s[1]
      /\ Len(s) \in Nat \ {0}
  OBVIOUS
<1>2. \A i \in 1..(Len(s) - 1) : i + 1 \in 1..Len(s) /\ i + 1 # 1
  BY <1>1
<1> QED
  BY <1>1, <1>2 DEF Range

\* Appending a new element to a sequence without repetition adds none.
LEMMA AppendDistinct ==
  ASSUME NEW S, NEW s \in Seq(S), NEW x \in S, x \notin Range(s),
         \A i, j \in 1..Len(s) : s[i] = s[j] => i = j
  PROVE  \A i, j \in 1..Len(Append(s, x)) : Append(s, x)[i] = Append(s, x)[j] => i = j
<1>1. /\ Len(Append(s, x)) = Len(s) + 1 /\ DOMAIN s = 1..Len(s) /\ Len(s) \in Nat
      /\ \A i \in 1..Len(s) : Append(s, x)[i] = s[i]
      /\ Append(s, x)[Len(s) + 1] = x
  OBVIOUS
<1>2. \A i \in 1..(Len(s) + 1) : i \in 1..Len(s) \/ i = Len(s) + 1
  BY <1>1
<1>3. \A i \in 1..Len(s) : s[i] # x
  BY <1>1 DEF Range
<1> QED
  BY <1>1, <1>2, <1>3

------------------------------------------------------------------------------

------------------------------------------------------------------------------
(* The invariant.                                                          *)

Executing == {"begin", "beginNotify", "run"}
Reporting == {"report", "reportNotify"}
Final == {"executed", "failed", "cancelled"}

Types ==
  /\ TypeOK
  /\ outcome \in [Command -> Final \cup {"new", "queued", "refused", "executing"}]
  /\ monPc \in {"queue", "update", "notify"} => monRow \in Row
  /\ monPc = "queue" => monDev \in Device

\* A lane holds a command while its callbacks run, and the outcome says where
\* a command is.
LaneState ==
  \A d \in Device, q \in Queue :
     /\ lanePc[d][q] = "idle" <=> laneCmd[d][q] = NoCmd
     /\ active[d][q] = IF lanePc[d][q] \in Executing THEN laneCmd[d][q] ELSE NoCmd
     /\ lanePc[d][q] \in Executing => outcome[laneCmd[d][q]] = "executing"
     /\ lanePc[d][q] \in Reporting => outcome[laneCmd[d][q]] \in Final
     /\ \A k \in Range(pending[d][q]) : outcome[k] = "queued"

\* No command is in two places.
Apart ==
  /\ \A d \in Device, q \in Queue : \A i, j \in 1..Len(pending[d][q]) :
        pending[d][q][i] = pending[d][q][j] => i = j
  /\ \A k \in Command, d, e \in Device, q, p \in Queue :
        HeldBy(k, d, q) /\ HeldBy(k, e, p) => d = e /\ q = p

\* A command is new until it is handed over.
Handed == \A r \in Row, n \in 1 .. MaxFail + 2 : outcome[<<r, n>>] = "new" <=> n > queued[r]

\* A request enters the table once, and leaves no trace before.
Rows ==
  /\ rows \cup picked \subseteq asked
  /\ monPc \in {"queue", "update", "notify"} => monRow \in asked \ picked
  /\ \A r \in Row \ asked : proc[r] = 0 /\ ~done[r] /\ queued[r] = 0
  /\ mainPc \in {"load", "create"} => monPc = "absent" /\ picked = {}

\* What the monitor thread is about to process has not been handed over, and
\* what has been and can be seen is what it is about to mark.
Visible(r) == ~done[r] /\ proc[r] = 0 /\ queued[r] = 0
Deciding ==
  monPc = "update" /\ monRow \notin failed =>
     /\ monErr = "none" => queued[monRow] = 1
     /\ monErr = "notfound" => Visible(monRow)
     /\ monErr = "refused" => ~done[monRow] /\ outcome[<<monRow, 1>>] = "refused"
FirstOnly == \A r \in Row \ failed : queued[r] <= 1
Once ==
  /\ FirstOnly
  /\ \A r \in picked \ failed : Visible(r)
  /\ monPc = "queue" /\ monRow \notin failed => Visible(monRow)
  /\ Deciding
  /\ mainPc # "load" =>
       \A r \in rows \ failed : ~done[r] /\ proc[r] = 0 =>
          queued[r] = 0 \/ (monPc = "update" /\ monRow = r)

\* What the table says of a request is true.
Marks ==
  /\ \A r \in Row \ failed :
       proc[r] = 2 => outcome[<<r, 1>>] \in Final \cup {"executing"}
  /\ ResultTrue
  /\ \A d \in Device, q \in Queue :
       lanePc[d][q] = "reportNotify" =>
         laneCmd[d][q][1] \in failed \/ done[laneCmd[d][q][1]]

\* A row that is marked, or about to be, is in a lane.
Marking(r) == monPc = "update" /\ monRow = r /\ monErr = "none"
AllHeld ==
  mainPc # "load" =>
    \A r \in rows \ failed : ~done[r] /\ (proc[r] # 0 \/ Marking(r)) => Held(<<r, 1>>)

TInv ==
  /\ Types /\ LaneState /\ Apart /\ Handed
  /\ Rows /\ Once /\ Marks /\ AllHeld /\ ChangeNotified

------------------------------------------------------------------------------
(* Consequences of the invariant.                                          *)

LEMMA TableFacts ==
  /\ NoRow \notin Row /\ NoDev \notin Device /\ NoCmd \notin Command
  /\ MaxFail \in Nat /\ MaxCrash \in Nat
  /\ \A r \in Row : RowQueue[r] \in Queue
  /\ \A S \in SUBSET Device : Cardinality(S) \in Nat
<1>1. \A S \in SUBSET Device : IsFiniteSet(S)
  BY TableConstants, FS_Subset
<1> QED
  BY <1>1, TableConstants, FS_CardinalityType

\* A command is a request with the number of its handing over.
LEMMA CommandParts ==
  ASSUME NEW k \in Command
  PROVE  k[1] \in Row /\ k[2] \in 1 .. MaxFail + 2 /\ k = <<k[1], k[2]>>
BY DEF Command

LEMMA FirstCommand ==
  ASSUME NEW r \in Row
  PROVE  <<r, 1>> \in Command /\ <<r, 1>>[1] = r
BY TableFacts DEF Command

\* A command that is not new is of a row that was inserted and handed over,
\* and is the only one of that row unless a statement has failed.
LEMMA HandedOver ==
  ASSUME TInv, NEW k \in Command, outcome[k] # "new"
  PROVE  /\ k[1] \in asked /\ queued[k[1]] # 0
         /\ k[1] \notin failed => k = <<k[1], 1>>
<1>1. k[1] \in Row /\ k[2] \in 1 .. MaxFail + 2 /\ k = <<k[1], k[2]>>
  BY CommandParts
<1>2. queued[k[1]] \in Nat /\ k[2] \in Nat /\ k[2] >= 1
  BY <1>1, TableFacts DEF TInv, Types, TypeOK
<1>3. k[2] <= queued[k[1]]
  BY <1>1, <1>2 DEF TInv, Handed
<1>4. k[1] \notin failed => queued[k[1]] <= 1
  BY <1>1 DEF TInv, Once, FirstOnly
<1> QED
  BY <1>1, <1>2, <1>3, <1>4 DEF TInv, Rows

\* A command in a lane is not new.
LEMMA InLane ==
  ASSUME TInv, NEW d \in Device, NEW q \in Queue, NEW k \in Command, HeldBy(k, d, q)
  PROVE  outcome[k] \in Final \cup {"queued", "executing"}
<1>1. k \in Range(pending[d][q]) => outcome[k] = "queued"
  BY DEF TInv, LaneState
<1>2. laneCmd[d][q] = k => lanePc[d][q] # "idle"
  BY TableFacts DEF TInv, LaneState
<1>3. lanePc[d][q] \in Executing \cup Reporting \cup {"idle"}
  BY DEF TInv, Types, TypeOK, Executing, Reporting
<1> QED
  BY <1>1, <1>2, <1>3 DEF TInv, LaneState, HeldBy

\* What a lane holds.
LEMMA LaneHolds ==
  ASSUME TInv, NEW d \in Device, NEW q \in Queue, lanePc[d][q] # "idle"
  PROVE  /\ laneCmd[d][q] \in Command
         /\ outcome[laneCmd[d][q]] \in Final \cup {"executing"}
<1>1. laneCmd[d][q] \in Command
  BY DEF TInv, Types, TypeOK, LaneState
<1>2. lanePc[d][q] \in Executing \cup Reporting
  BY DEF TInv, Types, TypeOK, Executing, Reporting
<1> QED
  BY <1>1, <1>2 DEF TInv, LaneState

\* A lane whose callback returns.
LEMMA LaneGoes ==
  ASSUME TInv, NEW d \in Device, NEW q \in Queue, NEW from, NEW to, LaneAt(d, q, from, to),
         to \in {"idle", "begin", "beginNotify", "run", "report", "reportNotify"}
  PROVE  /\ lanePc[d][q] = from
         /\ lanePc' \in [Device -> [Queue ->
               {"idle", "begin", "beginNotify", "run", "report", "reportNotify"}]]
         /\ \A e \in Device, p \in Queue :
              lanePc'[e][p] = IF e = d /\ p = q THEN to ELSE lanePc[e][p]
BY Update2 DEF LaneAt, TInv, Types, TypeOK

------------------------------------------------------------------------------
(* Init.                                                                   *)

\* The table starts in TInv.
LEMMA InitTInv == Init => TInv
<1> SUFFICES ASSUME Init
             PROVE  TInv
  OBVIOUS
<1>1. Types
  <2>1. <<>> \in Seq(Command) /\ 0 \in 0 .. MaxFail /\ 0 \in 0 .. MaxCrash
    BY TableFacts
  <2>2. /\ pending \in [Device -> [Queue -> Seq(Command)]]
        /\ active \in [Device -> [Queue -> Command \cup {NoCmd}]]
        /\ laneCmd \in [Device -> [Queue -> Command \cup {NoCmd}]]
    BY <2>1 DEF Init, Idle
  <2>3. lanePc \in [Device -> [Queue ->
          {"idle", "begin", "beginNotify", "run", "report", "reportNotify"}]]
    BY DEF Init, Idle
  <2>4. /\ proc \in [Row -> 0 .. 2] /\ done \in [Row -> BOOLEAN] /\ queued \in [Row -> Nat]
        /\ result \in [Row -> Error \cup {"none", "executed", "failed", "cancelled"}]
    BY DEF Init
  <2>5. /\ outcome \in [Command -> Final \cup {"new", "queued", "refused", "executing"}]
        /\ devst \in [Device -> {"new", "attached", "gone"}]
    BY DEF Init
  <2> QED
    BY <2>1, <2>2, <2>3, <2>4, <2>5 DEF Init, Types, TypeOK
<1>2. LaneState /\ Apart
  BY TableFacts DEF Init, LaneState, Apart, Idle, HeldBy, Range, Executing, Reporting
<1>3. Handed
  BY TableFacts DEF Init, Handed, Command
<1>4. Rows /\ Once /\ Marks /\ AllHeld /\ ChangeNotified
  BY DEF Init, Idle, Rows, Once, FirstOnly, Deciding, Marks, ResultTrue, AllHeld,
     ChangeNotified
<1> QED
  BY <1>1, <1>2, <1>3, <1>4 DEF TInv

------------------------------------------------------------------------------
(* Steps that leave the executor and its lanes alone.                      *)

\* What keeps the commands where they are keeps the invariant of the lanes.
LEMMA SameLanes ==
  ASSUME TInv, UNCHANGED <<service, lanes, queued>>
  PROVE  /\ LaneState' /\ Apart' /\ Handed'
         /\ \A k \in Command : Held(k)' = Held(k)
<1>1. LaneState' /\ Handed'
  BY DEF TInv, LaneState, Handed, service, lanes
<1>2. Apart' /\ \A k \in Command : Held(k)' = Held(k)
  BY DEF TInv, Apart, Held, HeldBy, service, lanes
<1> QED
  BY <1>1, <1>2

\* The peers, the devices, and the main thread after Load.
LEMMA OutsideStep ==
  ASSUME TInv,
         \/ \E r \in Row : RequestRow(r) \/ OnCmdUpdated(r)
         \/ \E d \in Device : Attach(d) \/ Detach(d)
         \/ LoadRegister \/ Unload \/ UnloadJoin
  PROVE  TInv'
<1> USE DEF service, lanes, main, mon, env, faults, table
<1>1. UNCHANGED <<service, lanes, queued, mon, faults, crashes, proc, done, result, dirty>>
  BY DEF RequestRow, OnCmdUpdated, Attach, Detach, LoadRegister, Unload, UnloadJoin
<1>2. LaneState' /\ Apart' /\ Handed' /\ \A k \in Command : Held(k)' = Held(k)
  BY <1>1, SameLanes
<1>3. ChangeNotified'
  BY <1>1 DEF TInv, ChangeNotified
<1>4. ASSUME NEW r \in Row, RequestRow(r)
      PROVE  TInv'
  <2>1. Types'
    BY <1>4 DEF RequestRow, TInv, Types, TypeOK
  <2>2. r \notin picked /\ proc[r] = 0 /\ ~done[r] /\ queued[r] = 0 /\ ~Marking(r)
    BY <1>4 DEF RequestRow, TInv, Types, TypeOK, Rows, Marking
  <2>3. Rows' /\ Once' /\ Marks'
    BY <1>4, <2>2 DEF RequestRow, TInv, Rows, Once, FirstOnly, Deciding, Visible, Marks,
       ResultTrue
  <2>4. AllHeld'
    BY <1>4, <1>2, <2>2, FirstCommand DEF RequestRow, TInv, Types, TypeOK, AllHeld, Marking
  <2> QED
    BY <1>2, <1>3, <2>1, <2>3, <2>4 DEF TInv
<1>5. CASE \/ \E r \in Row : OnCmdUpdated(r)
           \/ \E d \in Device : Attach(d) \/ Detach(d)
           \/ LoadRegister \/ Unload \/ UnloadJoin
  <2>1. /\ rows' = rows /\ asked' = asked /\ msgs' \subseteq msgs
        /\ mainPc' = "load" <=> mainPc = "load"
        /\ mainPc' \in {"load", "create"} => mainPc' = mainPc
    BY <1>5 DEF OnCmdUpdated, Attach, Detach, LoadRegister, Unload, UnloadJoin
  <2>2. mainPc' \in {mainPc, "up", "joining", "down"} /\ quit' \in BOOLEAN
    BY <1>5
       DEF OnCmdUpdated, Attach, Detach, LoadRegister, Unload, UnloadJoin, TInv, Types,
           TypeOK
  <2>3. devst' \in [Device -> {"new", "attached", "gone"}]
    <3>1. devst \in [Device -> {"new", "attached", "gone"}]
      BY DEF TInv, Types, TypeOK
    <3>2. CASE \E d \in Device : Attach(d) \/ Detach(d)
      BY <3>1, <3>2 DEF Attach, Detach
    <3>3. CASE devst' = devst
      BY <3>1, <3>3
    <3> QED
      BY <1>5, <3>2, <3>3 DEF OnCmdUpdated, LoadRegister, Unload, UnloadJoin
  <2>4. wake' \in Nat
    <3>1. wake \in Nat /\ Cardinality({d \in Device : devst[d] = "attached"}) \in Nat
      BY TableFacts DEF TInv, Types, TypeOK
    <3> QED
      BY <1>5, <3>1 DEF OnCmdUpdated, Attach, Detach, LoadRegister, Unload, UnloadJoin
  <2>5. Types'
    BY <1>1, <2>1, <2>2, <2>3, <2>4 DEF TInv, Types, TypeOK
  <2>6. Rows' /\ Once' /\ Marks'
    BY <1>1, <2>1 DEF TInv, Rows, Once, FirstOnly, Deciding, Visible, Marks, ResultTrue
  <2>7. AllHeld'
    BY <1>1, <1>2, <2>1, FirstCommand DEF TInv, Types, TypeOK, AllHeld, Marking
  <2> QED
    BY <1>2, <1>3, <2>5, <2>6, <2>7 DEF TInv
<1> QED
  BY <1>4, <1>5

\* Load before the observer is registered.
LEMMA LoadStepInv ==
  ASSUME TInv, LoadTruncate \/ LoadCreate
  PROVE  TInv'
<1> USE DEF service, lanes, mon, env, faults, table
<1>1. LaneState' /\ Apart' /\ Handed' /\ \A k \in Command : Held(k)' = Held(k)
  BY SameLanes DEF LoadTruncate, LoadCreate
<1>2. CASE LoadCreate
  <2>1. Types'
    BY <1>2 DEF LoadCreate, TInv, Types, TypeOK
  <2>2. Rows' /\ Once' /\ Marks'
    BY <1>2 DEF LoadCreate, TInv, Rows, Once, FirstOnly, Deciding, Visible, Marks,
       ResultTrue
  <2>3. AllHeld' /\ ChangeNotified'
    BY <1>1, <1>2, FirstCommand
       DEF LoadCreate, TInv, Types, TypeOK, Rows, AllHeld, Marking, ChangeNotified
  <2> QED
    BY <1>1, <2>1, <2>2, <2>3 DEF TInv
<1>3. CASE LoadTruncate
  <2>1. Types'
    BY <1>3, TableFacts DEF LoadTruncate, SqlFails, TInv, Types, TypeOK
  <2>2. Rows' /\ Once' /\ Marks'
    BY <1>3
       DEF LoadTruncate, SqlFails, TInv, Rows, Once, FirstOnly, Deciding, Visible,
           Marks, ResultTrue
  <2>3. AllHeld' /\ ChangeNotified'
    BY <1>3 DEF LoadTruncate, SqlFails, TInv, AllHeld, ChangeNotified
  <2> QED
    BY <1>1, <2>1, <2>2, <2>3 DEF TInv
<1> QED
  BY <1>2, <1>3

\* The process starts again: there is nothing in the lanes, and nothing the
\* monitor thread is about to do.
LEMMA CrashInv ==
  ASSUME TInv, Crash
  PROVE  TInv'
<1> USE DEF env, faults, table
<1>1. Types'
  <2>1. <<>> \in Seq(Command) /\ crashes' \in 0 .. MaxCrash
    BY TableFacts DEF Crash, TInv, Types, TypeOK
  <2>2. /\ pending' \in [Device -> [Queue -> Seq(Command)]]
        /\ active' \in [Device -> [Queue -> Command \cup {NoCmd}]]
        /\ laneCmd' \in [Device -> [Queue -> Command \cup {NoCmd}]]
    BY <2>1 DEF Crash, Idle
  <2>3. lanePc' \in [Device -> [Queue ->
          {"idle", "begin", "beginNotify", "run", "report", "reportNotify"}]]
    BY DEF Crash, Idle
  <2>4. devst' \in [Device -> {"new", "attached", "gone"}]
    BY DEF Crash, TInv, Types, TypeOK
  <2> QED
    BY <2>1, <2>2, <2>3, <2>4 DEF Crash, TInv, Types, TypeOK
<1>2. LaneState' /\ Apart'
  BY TableFacts DEF Crash, LaneState, Apart, Idle, HeldBy, Range, Executing, Reporting
<1>3. Handed'
  BY DEF Crash, TInv, Handed
<1>4. Rows' /\ Once'
  BY DEF Crash, TInv, Rows, Once, FirstOnly, Deciding, Visible
<1>5. Marks'
  BY DEF Crash, Idle, TInv, Marks, ResultTrue
<1>6. AllHeld' /\ ChangeNotified'
  BY DEF Crash, AllHeld, ChangeNotified
<1> QED
  BY <1>1, <1>2, <1>3, <1>4, <1>5, <1>6 DEF TInv

------------------------------------------------------------------------------
(* The monitor thread.                                                     *)

\* The steps that change neither the table nor the executor.
LEMMA MonQuietInv ==
  ASSUME TInv, MonWait \/ MonProbe \/ MonDone \/ MonNotify \/ \E r \in Row : MonRow(r)
  PROVE  TInv'
<1> USE DEF service, lanes, main, env, faults, table
<1>1. LaneState' /\ Apart' /\ Handed' /\ \A k \in Command : Held(k)' = Held(k)
  BY SameLanes DEF MonWait, MonProbe, MonDone, MonNotify, MonRow, SqlFails
<1>2. mainPc' = mainPc /\ mainPc \notin {"load", "create"}
  BY DEF MonWait, MonProbe, MonDone, MonNotify, MonRow, TInv, Rows
<1>3. CASE MonWait
  <2>1. Types'
    BY <1>3 DEF MonWait, TInv, Types, TypeOK
  <2>2. Rows' /\ Once' /\ Marks'
    BY <1>2, <1>3 DEF MonWait, TInv, Rows, Once, FirstOnly, Deciding, Visible, Marks,
       ResultTrue
  <2>3. AllHeld' /\ ChangeNotified'
    BY <1>1, <1>2, <1>3, FirstCommand
       DEF MonWait, TInv, Types, TypeOK, AllHeld, Marking, ChangeNotified
  <2> QED
    BY <1>1, <2>1, <2>2, <2>3 DEF TInv
<1>4. CASE MonProbe
  <2>1. Types'
    BY <1>4, TableFacts DEF MonProbe, SqlFails, TInv, Types, TypeOK
  <2>2. Rows'
    BY <1>2, <1>4 DEF MonProbe, SqlFails, TInv, Rows
  <2>3. Once' /\ Marks'
    BY <1>2, <1>4
       DEF MonProbe, SqlFails, TInv, Once, FirstOnly, Deciding, Visible, Marks, ResultTrue
  <2>4. AllHeld' /\ ChangeNotified'
    BY <1>1, <1>2, <1>4, FirstCommand
       DEF MonProbe, SqlFails, TInv, Types, TypeOK, AllHeld, Marking, ChangeNotified
  <2> QED
    BY <1>1, <2>1, <2>2, <2>3, <2>4 DEF TInv
<1>5. CASE MonDone
  <2>1. Types'
    BY <1>5 DEF MonDone, TInv, Types, TypeOK
  <2>2. Rows' /\ Once' /\ Marks'
    BY <1>2, <1>5 DEF MonDone, TInv, Rows, Once, FirstOnly, Deciding, Visible, Marks,
       ResultTrue
  <2>3. AllHeld' /\ ChangeNotified'
    BY <1>1, <1>2, <1>5, FirstCommand
       DEF MonDone, TInv, Types, TypeOK, AllHeld, Marking, ChangeNotified
  <2> QED
    BY <1>1, <2>1, <2>2, <2>3 DEF TInv
<1>6. CASE MonNotify
  <2>1. Types'
    BY <1>6 DEF MonNotify, TInv, Types, TypeOK
  <2>2. Rows' /\ Once' /\ Marks'
    BY <1>2, <1>6 DEF MonNotify, TInv, Rows, Once, FirstOnly, Deciding, Visible, Marks,
       ResultTrue
  <2>3. AllHeld' /\ ChangeNotified'
    BY <1>1, <1>2, <1>6, FirstCommand
       DEF MonNotify, TInv, Types, TypeOK, AllHeld, Marking, ChangeNotified
  <2> QED
    BY <1>1, <2>1, <2>2, <2>3 DEF TInv
<1>7. ASSUME NEW r \in Row, MonRow(r)
      PROVE  TInv'
  <2>1. Types'
    BY <1>7 DEF MonRow, TInv, Types, TypeOK, Error
  <2>2. Rows'
    BY <1>2, <1>7 DEF MonRow, TInv, Rows
  <2>3. Once' /\ Marks'
    BY <1>2, <1>7 DEF MonRow, TInv, Once, FirstOnly, Deciding, Visible, Marks, ResultTrue
  <2>4. AllHeld' /\ ChangeNotified'
    BY <1>1, <1>2, <1>7, FirstCommand
       DEF MonRow, TInv, Types, TypeOK, AllHeld, Marking, ChangeNotified
  <2> QED
    BY <1>1, <2>1, <2>2, <2>3, <2>4 DEF TInv
<1> QED
  BY <1>3, <1>4, <1>5, <1>6, <1>7

\* MonUpdate: what the row says afterwards is true.
LEMMA MonUpdateInv ==
  ASSUME TInv, MonUpdate
  PROVE  TInv'
<1> USE DEF service, lanes, main, env, faults, table
<1>1. LaneState' /\ Apart' /\ Handed' /\ \A k \in Command : Held(k)' = Held(k)
  BY SameLanes DEF MonUpdate
<1>2. /\ monRow \in Row /\ monRow \in asked /\ monRow \notin picked
      /\ mainPc' = mainPc /\ mainPc \notin {"load", "create"}
      /\ monPc = "update" /\ monPc' = "notify"
  BY DEF MonUpdate, TInv, Types, Rows
<1>3. UNCHANGED <<service, lanes, main, wake, picked, monRow, monDev, monErr, env, queued,
                  crashes>>
  BY DEF MonUpdate
<1>4. CASE monErr = "none" /\ proc[monRow] = 0 /\ Set(monRow, 1, done[monRow], result[monRow])
  <2>1. /\ rows' = rows /\ failed' = failed /\ fails' = fails /\ done' = done /\ result' = result
        /\ proc' \in [Row -> 0 .. 2]
        /\ \A r \in Row : proc'[r] = IF r = monRow THEN 1 ELSE proc[r]
    BY <1>2, <1>4 DEF Set, TInv, Types, TypeOK
  <2>2. Types'
    BY <1>2, <1>3, <1>4, <2>1 DEF Set, TInv, Types, TypeOK
  <2>3. Rows'
    BY <1>2, <1>3, <2>1 DEF TInv, Types, TypeOK, Rows
  <2>4. Once'
    BY <1>2, <1>3, <2>1 DEF TInv, Types, TypeOK, Once, FirstOnly, Deciding, Visible
  <2>5. Marks'
    BY <1>2, <1>3, <2>1 DEF TInv, Types, TypeOK, Marks, ResultTrue
  <2>6. AllHeld'
    BY <1>1, <1>2, <1>3, <1>4, <2>1, FirstCommand DEF TInv, Types, TypeOK, AllHeld, Marking
  <2> QED
    BY <1>1, <1>2, <2>2, <2>3, <2>4, <2>5, <2>6 DEF TInv, ChangeNotified
<1>5. CASE monErr = "none" /\ proc[monRow] # 0 /\ UNCHANGED <<table, dirty, faults>>
  <2>1. Types'
    BY <1>2, <1>3, <1>5 DEF TInv, Types, TypeOK
  <2>2. Rows' /\ Once' /\ Marks'
    BY <1>2, <1>3, <1>5 DEF TInv, Rows, Once, FirstOnly, Deciding, Visible, Marks,
       ResultTrue
  <2>3. AllHeld'
    BY <1>1, <1>2, <1>3, <1>5, FirstCommand DEF TInv, Types, TypeOK, AllHeld, Marking
  <2> QED
    BY <1>1, <1>2, <2>1, <2>2, <2>3 DEF TInv, ChangeNotified
<1>6. CASE monErr # "none" /\ Set(monRow, 1, TRUE, monErr)
  <2>1. /\ rows' = rows /\ failed' = failed /\ fails' = fails
        /\ \A r \in Row : /\ proc'[r] = IF r = monRow THEN 1 ELSE proc[r]
                          /\ done'[r] = IF r = monRow THEN TRUE ELSE done[r]
                          /\ result'[r] = IF r = monRow THEN monErr ELSE result[r]
    BY <1>2, <1>6 DEF Set, TInv, Types, TypeOK
  <2>2. Types'
    <3>1. /\ proc' \in [Row -> 0 .. 2] /\ done' \in [Row -> BOOLEAN]
          /\ result' \in [Row -> Error \cup {"none", "executed", "failed", "cancelled"}]
      BY <1>2, <1>6 DEF Set, TInv, Types, TypeOK
    <3> QED
      BY <1>2, <1>3, <1>6, <2>1, <3>1 DEF Set, TInv, Types, TypeOK
  <2>3. Rows'
    BY <1>2, <1>3, <2>1 DEF TInv, Types, TypeOK, Rows
  <2>4. Once'
    <3>1. FirstOnly' /\ monPc' = "notify"
      BY <1>2, <1>3, <2>1 DEF TInv, Once, FirstOnly
    <3>2. \A s \in picked \ failed : s \in Row /\ s # monRow /\ Visible(s)
      BY <1>2 DEF TInv, Types, TypeOK, Once
    <3>3. \A s \in rows \ failed : ~done'[s] /\ proc'[s] = 0 => queued[s] = 0
      BY <1>2, <2>1 DEF TInv, Types, TypeOK, Once
    <3> QED
      BY <1>3, <2>1, <3>1, <3>2, <3>3 DEF Once, Deciding, Visible
  <2>5. monRow \notin failed =>
          \/ monErr = "notfound" /\ queued[monRow] = 0
          \/ monErr = outcome[<<monRow, 1>>]
    BY <1>2, <1>6 DEF TInv, Types, TypeOK, Error, Once, Deciding, Visible
  <2>6. Marks'
    <3>1. ResultTrue'
      <4> SUFFICES ASSUME NEW r \in rows' \ failed', done'[r]
                   PROVE  \/ result'[r] = "notfound" /\ queued'[r] = 0
                          \/ result'[r] = outcome'[<<r, 1>>]
        BY DEF ResultTrue
      <4>1. r \in Row /\ r \in rows \ failed /\ outcome' = outcome /\ queued' = queued
        BY <1>3, <2>1 DEF TInv, Types, TypeOK
      <4>2. CASE r = monRow
        BY <2>1, <2>5, <4>1, <4>2
      <4>3. CASE r # monRow
        BY <2>1, <4>1, <4>3 DEF TInv, Marks, ResultTrue
      <4> QED
        BY <4>2, <4>3
    <3>2. ASSUME NEW d \in Device, NEW q \in Queue, lanePc[d][q] = "reportNotify"
          PROVE  laneCmd[d][q][1] \in failed' \/ done'[laneCmd[d][q][1]]
      BY <3>2, <2>1, LaneHolds, CommandParts DEF TInv, Marks
    <3>3. \A r \in Row \ failed' :
            proc'[r] = 2 => outcome'[<<r, 1>>] \in Final \cup {"executing"}
      <4>1. outcome' = outcome
        BY <1>3
      <4>2. Marks /\ failed' = failed
        BY <2>1 DEF TInv
      <4>3. ASSUME NEW r \in Row \ failed', proc'[r] = 2
            PROVE  r \in Row \ failed /\ proc[r] = 2
        <5>1. r \in Row \ failed
          BY <2>1
        <5>2. proc'[r] = IF r = monRow THEN 1 ELSE proc[r]
          BY <2>1, <5>1
        <5> QED
          BY <4>3, <5>1, <5>2
      <4> QED
        BY <4>1, <4>2, <4>3 DEF Marks
    <3> QED
      BY <1>3, <3>1, <3>2, <3>3 DEF Marks
  <2>7. AllHeld'
    BY <1>1, <1>2, <1>3, <1>6, <2>1, FirstCommand DEF TInv, Types, TypeOK, AllHeld, Marking
  <2> QED
    BY <1>1, <1>2, <2>2, <2>3, <2>4, <2>6, <2>7 DEF TInv, ChangeNotified
<1>7. CASE SqlFails({monRow})
  <2>1. /\ UNCHANGED table /\ failed' = failed \cup {monRow}
        /\ fails' \in 0 .. MaxFail /\ dirty' = dirty
    BY <1>7, TableFacts DEF SqlFails, TInv, Types, TypeOK
  <2>2. Types'
    BY <1>2, <1>3, <2>1 DEF TInv, Types, TypeOK
  <2>3. Rows' /\ Once' /\ Marks'
    BY <1>2, <1>3, <2>1 DEF TInv, Rows, Once, FirstOnly, Deciding, Visible, Marks,
       ResultTrue
  <2>4. AllHeld'
    BY <1>1, <1>2, <1>3, <2>1, FirstCommand DEF TInv, Types, TypeOK, AllHeld, Marking
  <2> QED
    BY <1>1, <1>2, <2>2, <2>3, <2>4 DEF TInv, ChangeNotified
<1> QED
  BY <1>4, <1>5, <1>6, <1>7 DEF MonUpdate

\* MonQueue: the executor takes the command, or refuses it.
LEMMA MonQueueInv ==
  ASSUME TInv, MonQueue
  PROVE  TInv'
<1> DEFINE k == <<monRow, queued[monRow] + 1>>
           q == RowQueue[monRow]
<1> USE DEF main, env, faults, table
<1>1. /\ monRow \in Row /\ monRow \in asked /\ monRow \notin picked /\ monDev \in Device
      /\ q \in Queue
      /\ mainPc' = mainPc /\ mainPc \notin {"load", "create"}
      /\ monPc = "queue" /\ monPc' = "update"
  BY TableFacts DEF MonQueue, TInv, Types, Rows
<1>2. /\ k \in Command /\ k[1] = monRow /\ queued[monRow] \in Nat
      /\ UNCHANGED <<table, lanes, main, wake, picked, monRow, monDev, env, dirty, faults,
                     crashes>>
  BY <1>1 DEF MonQueue, TInv, Types, TypeOK
<1>3. queued' \in [Row -> Nat]
      /\ \A r \in Row : queued'[r] = IF r = monRow THEN queued[r] + 1 ELSE queued[r]
  BY <1>1, <1>2 DEF MonQueue, TInv, Types, TypeOK
<1>4. PICK o \in {"queued", "refused"} :
        /\ outcome' = [outcome EXCEPT ![k] = o]
        /\ monErr' = IF o = "queued" THEN "none" ELSE "refused"
        /\ active' = active
        /\ IF o = "queued"
           THEN pending' = [pending EXCEPT ![monDev][q] = Append(pending[monDev][q], k)]
           ELSE pending' = pending
  BY <1>1, <1>2 DEF MonQueue, Service!Submit, Service!Refuse
<1>5. outcome[k] = "new"
  BY DEF MonQueue, Service!Submit, Service!Refuse
<1>6. /\ outcome' \in [Command -> Final \cup {"new", "queued", "refused", "executing"}]
      /\ \A c \in Command : outcome'[c] = IF c = k THEN o ELSE outcome[c]
  BY <1>2, <1>4 DEF TInv, Types
<1>7. /\ pending' \in [Device -> [Queue -> Seq(Command)]]
      /\ \A e \in Device, p \in Queue :
           pending'[e][p] = IF o = "queued" /\ e = monDev /\ p = q
                            THEN Append(pending[e][p], k) ELSE pending[e][p]
  <2>1. pending \in [Device -> [Queue -> Seq(Command)]]
    BY DEF TInv, Types, TypeOK
  <2>2. Append(pending[monDev][q], k) \in Seq(Command)
    BY <1>1, <1>2, <2>1
  <2>3. CASE o = "queued"
    <3>1. pending' = [pending EXCEPT ![monDev][q] = Append(pending[monDev][q], k)]
      BY <1>4, <2>3
    <3>2. /\ pending' \in [Device -> [Queue -> Seq(Command)]]
          /\ \A e \in Device, p \in Queue :
               pending'[e][p] = IF e = monDev /\ p = q
                                THEN Append(pending[monDev][q], k) ELSE pending[e][p]
      BY <1>1, <2>1, <2>2, <3>1, Update2
    <3> QED
      BY <2>3, <3>2
  <2>4. CASE o = "refused"
    BY <1>4, <2>1, <2>4
  <2> QED
    BY <2>3, <2>4
<1>8. \A e \in Device, p \in Queue :
        Range(pending'[e][p]) = IF o = "queued" /\ e = monDev /\ p = q
                                THEN Range(pending[e][p]) \cup {k} ELSE Range(pending[e][p])
  <2>1. \A e \in Device, p \in Queue : pending[e][p] \in Seq(Command)
    BY DEF TInv, Types, TypeOK
  <2>2. \A e \in Device, p \in Queue :
          Range(Append(pending[e][p], k)) = Range(pending[e][p]) \cup {k}
    BY <1>2, <2>1, RangeAppend
  <2> HIDE DEF k, q
  <2> TAKE e \in Device, p \in Queue
  <2>3. CASE o = "queued" /\ e = monDev /\ p = q
    <3>1. pending'[e][p] = Append(pending[e][p], k)
      BY <1>7, <2>3
    <3> QED
      BY <2>2, <2>3, <3>1
  <2>4. CASE ~(o = "queued" /\ e = monDev /\ p = q)
    <3>1. pending'[e][p] = pending[e][p]
      BY <1>7, <2>4
    <3> QED
      BY <2>4, <3>1
  <2> QED
    BY <2>3, <2>4
<1>9. \A e \in Device, p \in Queue : ~HeldBy(k, e, p)
  BY <1>2, <1>5, InLane DEF Final
<1>10. \A c \in Command, e \in Device, p \in Queue :
         HeldBy(c, e, p)' <=> HeldBy(c, e, p)
                              \/ (o = "queued" /\ c = k /\ e = monDev /\ p = q)
  <2>1. laneCmd' = laneCmd
    BY <1>2 DEF lanes
  <2> HIDE DEF k, q
  <2> TAKE c \in Command, e \in Device, p \in Queue
  <2>2. CASE o = "queued" /\ e = monDev /\ p = q
    <3>1. Range(pending'[e][p]) = Range(pending[e][p]) \cup {k}
      BY <1>8, <2>2
    <3> QED
      BY <2>1, <2>2, <3>1 DEF HeldBy
  <2>3. CASE ~(o = "queued" /\ e = monDev /\ p = q)
    <3>1. Range(pending'[e][p]) = Range(pending[e][p])
      BY <1>8, <2>3
    <3> QED
      BY <2>1, <2>3, <3>1 DEF HeldBy
  <2> QED
    BY <2>2, <2>3
<1>11. monRow \notin failed => k = <<monRow, 1>> /\ ~done[monRow] /\ proc[monRow] = 0
  BY <1>1, <1>2 DEF TInv, Once, Visible
<1>12. Types'
  BY <1>1, <1>2, <1>3, <1>4, <1>6, <1>7 DEF lanes, TInv, Types, TypeOK, Error
<1>13. LaneState'
  <2> SUFFICES ASSUME NEW e \in Device, NEW p \in Queue
               PROVE  /\ lanePc'[e][p] = "idle" <=> laneCmd'[e][p] = NoCmd
                      /\ active'[e][p] = IF lanePc'[e][p] \in Executing
                                         THEN laneCmd'[e][p] ELSE NoCmd
                      /\ lanePc'[e][p] \in Executing => outcome'[laneCmd'[e][p]] = "executing"
                      /\ lanePc'[e][p] \in Reporting => outcome'[laneCmd'[e][p]] \in Final
                      /\ \A c \in Range(pending'[e][p]) : outcome'[c] = "queued"
    BY DEF LaneState
  <2>1. lanePc' = lanePc /\ laneCmd' = laneCmd /\ active' = active
    BY <1>2, <1>4 DEF lanes
  <2>2. lanePc[e][p] # "idle" => laneCmd[e][p] \in Command /\ laneCmd[e][p] # k
    BY <1>5, LaneHolds DEF Final
  <2>3. \A c \in Range(pending[e][p]) : c \in Command /\ outcome'[c] = "queued"
    <3>1. \A c \in Range(pending[e][p]) : c \in Command /\ outcome[c] = "queued"
      BY DEF TInv, LaneState, Types, TypeOK, Range
    <3> QED
      BY <1>5, <1>6, <3>1
  <2>4. \A c \in Range(pending'[e][p]) : outcome'[c] = "queued"
    <3>1. o = "queued" => outcome'[k] = "queued"
      BY <1>2, <1>6
    <3>2. ASSUME NEW c \in Range(pending'[e][p])
          PROVE  c \in Range(pending[e][p]) \/ (o = "queued" /\ c = k)
      BY <1>8
    <3> QED
      BY <2>3, <3>1, <3>2
  <2> QED
    BY <1>6, <2>1, <2>2, <2>4 DEF TInv, LaneState, Executing, Reporting
<1>14. Apart'
  <2>1. ASSUME NEW e \in Device, NEW p \in Queue
        PROVE  \A i, j \in 1..Len(pending'[e][p]) :
                  pending'[e][p][i] = pending'[e][p][j] => i = j
    <3>1. pending[e][p] \in Seq(Command) /\ k \notin Range(pending[e][p])
      BY <1>9 DEF HeldBy, TInv, Types, TypeOK
    <3>2. \A i, j \in 1..Len(pending[e][p]) : pending[e][p][i] = pending[e][p][j] => i = j
      BY DEF TInv, Apart
    <3>3. pending'[e][p] = pending[e][p] \/ pending'[e][p] = Append(pending[e][p], k)
      BY <1>7
    <3>4. \A i, j \in 1..Len(Append(pending[e][p], k)) :
             Append(pending[e][p], k)[i] = Append(pending[e][p], k)[j] => i = j
      <4>1. k \in Command
        BY <1>2
      <4> HIDE DEF k
      <4> QED
        BY <3>1, <3>2, <4>1, AppendDistinct
    <3> QED
      BY <3>2, <3>3, <3>4
  <2>2. ASSUME NEW c \in Command, NEW d \in Device, NEW e \in Device,
               NEW s \in Queue, NEW p \in Queue, HeldBy(c, d, s)', HeldBy(c, e, p)'
        PROVE  d = e /\ s = p
    BY <1>9, <1>10, <2>2 DEF TInv, Apart
  <2> QED
    BY <2>1, <2>2 DEF Apart
<1>15. Handed'
  <2> SUFFICES ASSUME NEW r \in Row, NEW n \in 1 .. MaxFail + 2
               PROVE  outcome'[<<r, n>>] = "new" <=> n > queued'[r]
    BY DEF Handed
  <2>1. <<r, n>> \in Command /\ n \in Nat /\ queued[r] \in Nat
    BY TableFacts DEF Command, TInv, Types, TypeOK
  <2>2. outcome[<<r, n>>] = "new" <=> n > queued[r]
    BY DEF TInv, Handed
  <2>3. CASE <<r, n>> = k
    BY <1>1, <1>3, <1>6, <2>1, <2>3
  <2>4. CASE r = monRow /\ <<r, n>> # k
    <3>1. n # queued[r] + 1
      BY <2>4
    <3> QED
      BY <1>1, <1>3, <1>6, <2>1, <2>2, <2>4, <3>1
  <2>5. CASE r # monRow
    BY <1>3, <1>6, <2>1, <2>2, <2>5
  <2> QED
    BY <2>3, <2>4, <2>5
<1>16. Rows'
  BY <1>1, <1>2, <1>3 DEF TInv, Rows
<1>17. Once'
  <2>1. FirstOnly'
    <3>1. monRow \notin failed => queued[monRow] = 0
      BY <1>1 DEF TInv, Once, Visible
    <3> QED
      BY <1>2, <1>3, <3>1 DEF TInv, Once, FirstOnly
  <2>4. \A r \in picked' \ failed' : Visible(r)'
    <3>1. \A r \in picked : r \in Row /\ queued'[r] = queued[r]
      BY <1>1, <1>3 DEF TInv, Types, TypeOK
    <3> QED
      BY <1>2, <3>1 DEF TInv, Once, Visible
  <2>2. Deciding'
    <3>1. monErr' \in {"none", "refused"}
      BY <1>4
    <3>2. monRow \notin failed => queued'[monRow] = 1 /\ ~done'[monRow]
      BY <1>1, <1>2, <1>3, <1>11 DEF TInv, Once, Visible
    <3>3. monRow \notin failed /\ monErr' = "refused" => outcome'[<<monRow, 1>>] = "refused"
      BY <1>2, <1>4, <1>6, <1>11
    <3> QED
      BY <1>1, <1>2, <3>1, <3>2, <3>3 DEF Deciding
  <2>3. \A r \in rows' \ failed' : ~done'[r] /\ proc'[r] = 0 => queued'[r] = 0 \/ monRow' = r
    BY <1>1, <1>2, <1>3 DEF TInv, Types, TypeOK, Once
  <2> QED
    BY <1>1, <1>2, <2>1, <2>2, <2>3, <2>4 DEF Once
<1>18. Marks'
  <2>1. \A r \in Row \ failed : <<r, 1>> = k => r = monRow /\ proc[r] = 0 /\ ~done[r]
    BY <1>2, <1>11
  <2>2. \A r \in Row \ failed : <<r, 1>> # k => outcome'[<<r, 1>>] = outcome[<<r, 1>>]
    BY <1>6, FirstCommand
  <2>3. \A r \in Row \ failed' : proc'[r] = 2 => outcome'[<<r, 1>>] \in Final \cup {"executing"}
    BY <1>2, <2>1, <2>2 DEF TInv, Marks
  <2>4. ResultTrue'
    BY <1>2, <1>3, <1>11, <2>1, <2>2 DEF TInv, Types, TypeOK, Marks, ResultTrue
  <2> QED
    BY <1>2, <2>3, <2>4 DEF TInv, Marks, lanes
<1>19. AllHeld'
  <2> SUFFICES ASSUME NEW r \in rows \ failed, ~done[r], proc[r] # 0 \/ Marking(r)'
               PROVE  Held(<<r, 1>>)'
    BY <1>1, <1>2 DEF AllHeld
  <2>1. r \in Row /\ <<r, 1>> \in Command
    BY FirstCommand DEF TInv, Types, TypeOK
  <2>2. CASE proc[r] # 0
    <3>1. Held(<<r, 1>>)
      BY <1>1, <2>2 DEF TInv, AllHeld
    <3> QED
      BY <1>10, <2>1, <3>1 DEF Held
  <2>3. CASE Marking(r)'
    <3>1. r = monRow /\ o = "queued"
      BY <1>2, <1>4, <2>3 DEF Marking
    <3> QED
      BY <1>1, <1>2, <1>10, <1>11, <3>1 DEF Held
  <2> QED
    BY <2>2, <2>3
<1>20. ChangeNotified'
  BY <1>1, <1>2 DEF TInv, ChangeNotified, lanes
<1> QED
  BY <1>12, <1>13, <1>14, <1>15, <1>16, <1>17, <1>18, <1>19, <1>20 DEF TInv

------------------------------------------------------------------------------
(* The lanes.                                                              *)

\* LaneStart: the head of the FIFO becomes the lane's command.
LEMMA LaneStartInv ==
  ASSUME TInv, NEW d \in Device, NEW q \in Queue, LaneStart(d, q)
  PROVE  TInv'
<1> DEFINE s == pending[d][q]
           k == Head(s)
<1> USE DEF main, mon, env, faults, table
<1>1. /\ s \in Seq(Command) /\ s # <<>> /\ k \in Command
      /\ \A i, j \in 1..Len(s) : s[i] = s[j] => i = j
  <2>1. s \in Seq(Command) /\ s # <<>>
    BY DEF LaneStart, Service!Begin, Service!Cancel, TInv, Types, TypeOK
  <2> QED
    BY <2>1 DEF TInv, Apart
<1>2. /\ Tail(s) \in Seq(Command) /\ Range(s) = Range(Tail(s)) \cup {k}
      /\ k \notin Range(Tail(s))
      /\ \A i, j \in 1..Len(Tail(s)) : Tail(s)[i] = Tail(s)[j] => i = j
  <2>1. Tail(s) \in Seq(Command) /\ Range(s) = Range(Tail(s)) \cup {k}
    BY <1>1, RangeTail
  <2> HIDE DEF s
  <2>2. /\ k \notin Range(Tail(s))
        /\ \A i, j \in 1..Len(Tail(s)) : Tail(s)[i] = Tail(s)[j] => i = j
    BY <1>1, TailDistinct
  <2> QED
    BY <2>1, <2>2
<1>3. UNCHANGED <<table, main, wake, mon, env, queued, dirty, faults, crashes>>
  BY DEF LaneStart
<1>4. PICK o \in {"executing", "cancelled"} :
        /\ LaneAt(d, q, "idle", IF o = "executing" THEN "begin" ELSE "report")
        /\ outcome' = [outcome EXCEPT ![k] = o]
        /\ pending' = [pending EXCEPT ![d][q] = Tail(s)]
        /\ active' = IF o = "executing" THEN [active EXCEPT ![d][q] = k] ELSE active
  BY DEF LaneStart, Service!Begin, Service!Cancel
<1>5. /\ lanePc[d][q] = "idle"
      /\ lanePc' \in [Device -> [Queue ->
            {"idle", "begin", "beginNotify", "run", "report", "reportNotify"}]]
      /\ \A e \in Device, p \in Queue :
           lanePc'[e][p] = IF e = d /\ p = q
                           THEN (IF o = "executing" THEN "begin" ELSE "report")
                           ELSE lanePc[e][p]
  BY <1>4, LaneGoes
<1>6. /\ pending' \in [Device -> [Queue -> Seq(Command)]]
      /\ \A e \in Device, p \in Queue :
           pending'[e][p] = IF e = d /\ p = q THEN Tail(s) ELSE pending[e][p]
  <2>1. pending \in [Device -> [Queue -> Seq(Command)]]
    BY DEF TInv, Types, TypeOK
  <2> HIDE DEF s
  <2> QED
    BY <1>2, <1>4, <2>1, Update2
<1>7. /\ laneCmd' \in [Device -> [Queue -> Command \cup {NoCmd}]]
      /\ \A e \in Device, p \in Queue :
           laneCmd'[e][p] = IF e = d /\ p = q THEN k ELSE laneCmd[e][p]
  <2>1. laneCmd' = [laneCmd EXCEPT ![d][q] = k]
    BY DEF LaneStart
  <2> QED
    BY <1>1, <2>1, Update2 DEF TInv, Types, TypeOK
<1>8. /\ active' \in [Device -> [Queue -> Command \cup {NoCmd}]]
      /\ \A e \in Device, p \in Queue :
           active'[e][p] = IF o = "executing" /\ e = d /\ p = q THEN k ELSE active[e][p]
  <2>1. active \in [Device -> [Queue -> Command \cup {NoCmd}]]
    BY DEF TInv, Types, TypeOK
  <2>2. CASE o = "executing"
    BY <1>1, <1>4, <2>1, <2>2, Update2
  <2>3. CASE o = "cancelled"
    BY <1>4, <2>1, <2>3
  <2> QED
    BY <2>2, <2>3
<1>9. /\ outcome' \in [Command -> Final \cup {"new", "queued", "refused", "executing"}]
      /\ \A c \in Command : outcome'[c] = IF c = k THEN o ELSE outcome[c]
  BY <1>1, <1>4 DEF TInv, Types, Final
<1>10. laneCmd[d][q] = NoCmd /\ HeldBy(k, d, q) /\ outcome[k] = "queued"
  BY <1>2, <1>5 DEF TInv, LaneState, HeldBy
<1>11. \A c \in Command, e \in Device, p \in Queue : HeldBy(c, e, p)' <=> HeldBy(c, e, p)
  BY <1>2, <1>6, <1>7, <1>10, TableFacts DEF HeldBy
<1>12. \A c \in Command : Held(c)' <=> Held(c)
  BY <1>11 DEF Held
<1>13. Types'
  BY <1>3, <1>5, <1>6, <1>7, <1>8, <1>9 DEF TInv, Types, TypeOK
<1>14. LaneState'
  <2> SUFFICES ASSUME NEW e \in Device, NEW p \in Queue
               PROVE  /\ lanePc'[e][p] = "idle" <=> laneCmd'[e][p] = NoCmd
                      /\ active'[e][p] = IF lanePc'[e][p] \in Executing
                                         THEN laneCmd'[e][p] ELSE NoCmd
                      /\ lanePc'[e][p] \in Executing => outcome'[laneCmd'[e][p]] = "executing"
                      /\ lanePc'[e][p] \in Reporting => outcome'[laneCmd'[e][p]] \in Final
                      /\ \A c \in Range(pending'[e][p]) : outcome'[c] = "queued"
    BY DEF LaneState
  <2>1. \A c \in Range(pending'[e][p]) : outcome'[c] = "queued"
    <3> SUFFICES ASSUME NEW c \in Range(pending'[e][p])
                 PROVE  outcome'[c] = "queued"
      OBVIOUS
    <3>1. c \in Range(pending[e][p])
      BY <1>2, <1>6
    <3>2. c \in Command /\ outcome[c] = "queued"
      BY <3>1 DEF TInv, LaneState, Types, TypeOK, Range
    <3>3. c # k
      BY <1>2, <1>6, <1>10, <3>1, <3>2 DEF TInv, Apart, HeldBy
    <3> QED
      BY <1>9, <3>2, <3>3
  <2>2. CASE e = d /\ p = q
    <3>1. active[e][p] = NoCmd
      BY <1>5, <2>2 DEF TInv, LaneState, Executing
    <3> QED
      BY <1>1, <1>5, <1>7, <1>8, <1>9, <2>1, <2>2, <3>1, TableFacts
         DEF Executing, Reporting, Final
  <2>3. CASE ~(e = d /\ p = q)
    <3>1. lanePc[e][p] # "idle" => laneCmd[e][p] \in Command /\ laneCmd[e][p] # k
      BY <1>10, LaneHolds DEF Final
    <3> QED
      BY <1>5, <1>7, <1>8, <1>9, <2>1, <2>3, <3>1 DEF TInv, LaneState, Executing, Reporting
  <2> QED
    BY <2>2, <2>3
<1>15. Apart'
  <2>1. ASSUME NEW e \in Device, NEW p \in Queue
        PROVE  \A i, j \in 1..Len(pending'[e][p]) :
                  pending'[e][p][i] = pending'[e][p][j] => i = j
    <3>1. CASE e = d /\ p = q
      <4>1. pending'[e][p] = Tail(s)
        BY <1>6, <3>1
      <4> QED
        BY <1>2, <4>1
    <3>2. CASE ~(e = d /\ p = q)
      <4>1. pending'[e][p] = pending[e][p]
        BY <1>6, <3>2
      <4> QED
        BY <4>1 DEF TInv, Apart
    <3> QED
      BY <3>1, <3>2
  <2>2. \A c \in Command, f, e \in Device, t, p \in Queue :
           HeldBy(c, f, t)' /\ HeldBy(c, e, p)' => f = e /\ t = p
    BY <1>11 DEF TInv, Apart
  <2> QED
    BY <2>1, <2>2 DEF Apart
<1>16. Handed'
  <2> SUFFICES ASSUME NEW r \in Row, NEW n \in 1 .. MaxFail + 2
               PROVE  outcome'[<<r, n>>] = "new" <=> n > queued'[r]
    BY DEF Handed
  <2> QED
    BY <1>3, <1>9, <1>10 DEF TInv, Handed, Command
<1>17. Rows'
  BY <1>3 DEF TInv, Rows
<1>18. \A r \in Row : /\ <<r, 1>> \in Command
                      /\ <<r, 1>> = k => queued[r] # 0 /\ outcome[<<r, 1>>] = "queued"
  BY <1>1, <1>10, FirstCommand, HandedOver
<1>19. Once'
  <2>1. \A r \in Row : outcome[<<r, 1>>] = "refused" => outcome'[<<r, 1>>] = "refused"
    BY <1>9, <1>18
  <2>2. FirstOnly' /\ \A r \in picked' \ failed' : Visible(r)'
    BY <1>3 DEF TInv, Once, FirstOnly, Visible
  <2>3. Deciding'
    <3>1. Deciding /\ (monPc = "update" => monRow \in Row)
      BY DEF TInv, Types, Once
    <3> QED
      BY <1>3, <2>1, <3>1 DEF Deciding, Visible
  <2> QED
    BY <1>3, <2>2, <2>3 DEF TInv, Once, Visible
<1>20. Marks'
  <2>1. \A r \in Row \ failed' : proc'[r] = 2 => outcome'[<<r, 1>>] \in Final \cup {"executing"}
    BY <1>3, <1>9, <1>18 DEF TInv, Marks, Final
  <2>2. ResultTrue'
    BY <1>3, <1>9, <1>18 DEF TInv, Types, TypeOK, Error, Marks, ResultTrue
  <2>3. ASSUME NEW e \in Device, NEW p \in Queue, lanePc'[e][p] = "reportNotify"
        PROVE  laneCmd'[e][p][1] \in failed' \/ done'[laneCmd'[e][p][1]]
    BY <1>3, <1>5, <1>7, <2>3 DEF TInv, Marks
  <2> QED
    BY <2>1, <2>2, <2>3 DEF Marks
<1>21. AllHeld'
  BY <1>3, <1>12, <1>18 DEF TInv, Types, TypeOK, AllHeld, Marking
<1>22. ChangeNotified'
  BY <1>3, <1>5 DEF TInv, ChangeNotified
<1> QED
  BY <1>13, <1>14, <1>15, <1>16, <1>17, <1>19, <1>20, <1>21, <1>22 DEF TInv

\* LaneFinish: the device has done the command.
LEMMA LaneFinishInv ==
  ASSUME TInv, NEW d \in Device, NEW q \in Queue, LaneFinish(d, q)
  PROVE  TInv'
<1> DEFINE k == laneCmd[d][q]
<1> USE DEF main, mon, env, faults, table
<1>1. /\ UNCHANGED <<table, laneCmd, pending, main, wake, mon, env, queued, dirty,
                     faults, crashes>>
      /\ LaneAt(d, q, "run", "report")
  BY DEF LaneFinish, Service!Finish
<1>2. /\ lanePc[d][q] = "run"
      /\ lanePc' \in [Device -> [Queue ->
            {"idle", "begin", "beginNotify", "run", "report", "reportNotify"}]]
      /\ \A e \in Device, p \in Queue :
           lanePc'[e][p] = IF e = d /\ p = q THEN "report" ELSE lanePc[e][p]
  BY <1>1, LaneGoes
<1>3. k \in Command /\ active[d][q] = k /\ outcome[k] = "executing" /\ HeldBy(k, d, q)
  BY <1>2, LaneHolds DEF TInv, LaneState, Executing, HeldBy
<1>4. PICK o \in {"executed", "failed"} : outcome' = [outcome EXCEPT ![k] = o]
  BY <1>3 DEF LaneFinish, Service!Finish
<1>5. /\ outcome' \in [Command -> Final \cup {"new", "queued", "refused", "executing"}]
      /\ \A c \in Command : outcome'[c] = IF c = k THEN o ELSE outcome[c]
  BY <1>3, <1>4 DEF TInv, Types, Final
<1>6. /\ active' \in [Device -> [Queue -> Command \cup {NoCmd}]]
      /\ \A e \in Device, p \in Queue :
           active'[e][p] = IF e = d /\ p = q THEN NoCmd ELSE active[e][p]
  <2>1. active' = [active EXCEPT ![d][q] = NoCmd]
    BY DEF LaneFinish, Service!Finish
  <2>2. /\ active \in [Device -> [Queue -> Command \cup {NoCmd}]]
        /\ NoCmd \in Command \cup {NoCmd}
    BY DEF TInv, Types, TypeOK
  <2> QED
    BY <2>1, <2>2, Update2
<1>7. Types'
  BY <1>1, <1>2, <1>5, <1>6 DEF TInv, Types, TypeOK
<1>8. LaneState'
  <2> SUFFICES ASSUME NEW e \in Device, NEW p \in Queue
               PROVE  /\ lanePc'[e][p] = "idle" <=> laneCmd'[e][p] = NoCmd
                      /\ active'[e][p] = IF lanePc'[e][p] \in Executing
                                         THEN laneCmd'[e][p] ELSE NoCmd
                      /\ lanePc'[e][p] \in Executing => outcome'[laneCmd'[e][p]] = "executing"
                      /\ lanePc'[e][p] \in Reporting => outcome'[laneCmd'[e][p]] \in Final
                      /\ \A c \in Range(pending'[e][p]) : outcome'[c] = "queued"
    BY DEF LaneState
  <2>1. \A c \in Range(pending'[e][p]) : outcome'[c] = "queued"
    <3>1. \A c \in Range(pending[e][p]) : c \in Command /\ outcome[c] = "queued"
      BY DEF TInv, LaneState, Types, TypeOK, Range
    <3> QED
      BY <1>1, <1>3, <1>5, <3>1
  <2>2. CASE e = d /\ p = q
    BY <1>1, <1>2, <1>3, <1>5, <1>6, <2>1, <2>2, TableFacts DEF Executing, Reporting, Final
  <2>3. CASE ~(e = d /\ p = q)
    <3>1. lanePc[e][p] # "idle" => laneCmd[e][p] \in Command /\ laneCmd[e][p] # k
      BY <1>3, <2>3, LaneHolds DEF TInv, Apart, HeldBy
    <3> QED
      BY <1>1, <1>2, <1>5, <1>6, <2>1, <2>3, <3>1 DEF TInv, LaneState, Executing, Reporting
  <2> QED
    BY <2>2, <2>3
<1>9. Apart' /\ \A c \in Command : Held(c)' = Held(c)
  BY <1>1 DEF TInv, Apart, Held, HeldBy
<1>10. Handed'
  BY <1>1, <1>3, <1>5 DEF TInv, Handed, Command
<1>11. Rows'
  BY <1>1 DEF TInv, Rows
<1>12. \A r \in Row : /\ <<r, 1>> \in Command
                      /\ <<r, 1>> = k => queued[r] # 0 /\ outcome[<<r, 1>>] = "executing"
  BY <1>3, FirstCommand, HandedOver
<1>13. Once'
  <2>1. \A r \in Row : outcome[<<r, 1>>] = "refused" => outcome'[<<r, 1>>] = "refused"
    BY <1>5, <1>12
  <2>2. FirstOnly' /\ \A r \in picked' \ failed' : Visible(r)'
    BY <1>1 DEF TInv, Once, FirstOnly, Visible
  <2>3. Deciding'
    <3>1. Deciding /\ (monPc = "update" => monRow \in Row)
      BY DEF TInv, Types, Once
    <3> QED
      BY <1>1, <2>1, <3>1 DEF Deciding, Visible
  <2> QED
    BY <1>1, <2>2, <2>3 DEF TInv, Once, Visible
<1>14. Marks'
  <2>1. \A r \in Row \ failed' : proc'[r] = 2 => outcome'[<<r, 1>>] \in Final \cup {"executing"}
    BY <1>1, <1>5, <1>12 DEF TInv, Marks, Final
  <2>2. ResultTrue'
    <3> SUFFICES ASSUME NEW r \in rows \ failed, done[r]
                 PROVE  \/ result[r] = "notfound" /\ queued[r] = 0
                        \/ result[r] = outcome'[<<r, 1>>]
      BY <1>1 DEF ResultTrue
    <3>1. r \in Row /\ result[r] # "executing"
      BY DEF TInv, Types, TypeOK, Error
    <3>2. \/ result[r] = "notfound" /\ queued[r] = 0
          \/ result[r] = outcome[<<r, 1>>]
      BY DEF TInv, Marks, ResultTrue
    <3> QED
      BY <1>5, <1>12, <3>1, <3>2
  <2>3. ASSUME NEW e \in Device, NEW p \in Queue, lanePc'[e][p] = "reportNotify"
        PROVE  laneCmd'[e][p][1] \in failed' \/ done'[laneCmd'[e][p][1]]
    BY <1>1, <1>2, <2>3 DEF TInv, Marks
  <2> QED
    BY <2>1, <2>2, <2>3 DEF Marks
<1>15. AllHeld'
  BY <1>1, <1>9, <1>12 DEF TInv, Types, TypeOK, AllHeld, Marking
<1>16. ChangeNotified'
  BY <1>1, <1>2 DEF TInv, ChangeNotified
<1> QED
  BY <1>7, <1>8, <1>9, <1>10, <1>11, <1>13, <1>14, <1>15, <1>16 DEF TInv

\* A callback returns without moving a command: the lanes' invariant needs
\* only that the program counter stays in its phase.
LEMMA SamePhase ==
  ASSUME TInv, NEW d \in Device, NEW q \in Queue, NEW from, NEW to, LaneAt(d, q, from, to),
         \/ from \in Executing /\ to \in Executing
         \/ from \in Reporting /\ to \in Reporting,
         UNCHANGED <<service, laneCmd, queued>>
  PROVE  /\ LaneState' /\ Apart' /\ Handed'
         /\ \A c \in Command : Held(c)' = Held(c)
<1>1. /\ lanePc[d][q] = from
      /\ \A e \in Device, p \in Queue :
           lanePc'[e][p] = IF e = d /\ p = q THEN to ELSE lanePc[e][p]
  BY LaneGoes DEF Executing, Reporting
<1>2. LaneState'
  BY <1>1 DEF TInv, LaneState, Executing, Reporting, service
<1> QED
  BY <1>2 DEF TInv, Apart, Handed, Held, HeldBy, service

\* What a callback that updates a row finds: the row of the lane's command was
\* handed over, and the monitor thread is not about to process it.
LEMMA CallbackRow ==
  ASSUME TInv, NEW d \in Device, NEW q \in Queue, lanePc[d][q] # "idle"
  PROVE  LET r == laneCmd[d][q][1]
         IN  /\ r \in Row /\ r \in asked /\ queued[r] # 0
             /\ r \notin failed => /\ laneCmd[d][q] = <<r, 1>> /\ r \notin picked
                                   /\ monPc = "queue" => r # monRow
                                   /\ monPc = "update" /\ monErr # "none" => r # monRow
<1>1. /\ laneCmd[d][q] \in Command
      /\ outcome[laneCmd[d][q]] \in Final \cup {"executing"}
  BY LaneHolds
<1>2. /\ laneCmd[d][q][1] \in Row /\ laneCmd[d][q][1] \in asked /\ queued[laneCmd[d][q][1]] # 0
      /\ laneCmd[d][q][1] \notin failed => laneCmd[d][q] = <<laneCmd[d][q][1], 1>>
  BY <1>1, CommandParts, HandedOver DEF Final
<1> QED
  BY <1>1, <1>2 DEF TInv, Types, TypeOK, Error, Once, Deciding, Visible, Final

\* LaneBegin: OnExecuting marks the row, or the statement fails.
LEMMA LaneBeginInv ==
  ASSUME TInv, NEW d \in Device, NEW q \in Queue, LaneBegin(d, q)
  PROVE  TInv'
<1> DEFINE k == laneCmd[d][q]
           r == k[1]
<1> USE DEF main, mon, env, table, faults
<1>1. /\ UNCHANGED <<service, laneCmd, main, wake, mon, env, queued, crashes>>
      /\ LaneAt(d, q, "begin", "beginNotify")
      /\ Set(r, 2, done[r], result[r]) \/ SqlFails({r})
  BY DEF LaneBegin
<1>2. /\ lanePc[d][q] = "begin"
      /\ lanePc' \in [Device -> [Queue ->
            {"idle", "begin", "beginNotify", "run", "report", "reportNotify"}]]
      /\ \A e \in Device, p \in Queue :
           lanePc'[e][p] = IF e = d /\ p = q THEN "beginNotify" ELSE lanePc[e][p]
  BY <1>1, LaneGoes
<1>3. LaneState' /\ Apart' /\ Handed' /\ \A c \in Command : Held(c)' = Held(c)
  BY <1>1, SamePhase DEF Executing, Reporting
<1>4. /\ r \in Row /\ r \in asked /\ queued[r] # 0
      /\ r \notin failed => /\ k = <<r, 1>> /\ r \notin picked
                            /\ monPc = "queue" => r # monRow
                            /\ monPc = "update" /\ monErr # "none" => r # monRow
  BY <1>2, CallbackRow
<1>5. k \in Command /\ outcome[k] = "executing" /\ Held(k)
  BY <1>2, LaneHolds DEF TInv, LaneState, Executing, Held, HeldBy
<1>6. ChangeNotified'
  BY <1>2 DEF ChangeNotified
<1>7. rows' = rows /\ UNCHANGED <<outcome, laneCmd, queued, picked, monPc, monRow,
                                  monErr, asked, mainPc>>
  BY <1>1 DEF Set, SqlFails, service
<1>8. CASE Set(r, 2, done[r], result[r])
  <2>1. /\ failed' = failed /\ fails' = fails /\ done' = done /\ result' = result
        /\ proc' \in [Row -> 0 .. 2]
        /\ \A s \in Row : proc'[s] = IF s = r THEN 2 ELSE proc[s]
    BY <1>4, <1>8 DEF Set, TInv, Types, TypeOK
  <2>2. Types'
    BY <1>1, <1>2, <1>8, <2>1 DEF Set, service, TInv, Types, TypeOK
  <2>3. Rows'
    BY <1>4, <1>7, <2>1 DEF TInv, Types, TypeOK, Rows
  <2>4. Once'
    BY <1>4, <1>7, <2>1 DEF TInv, Types, TypeOK, Error, Once, FirstOnly, Deciding, Visible
  <2>5. Marks'
    <3>1. \A s \in Row \ failed' : proc'[s] = 2 => outcome'[<<s, 1>>] \in Final \cup {"executing"}
      <4>1. r \notin failed => outcome[<<r, 1>>] = "executing"
        BY <1>4, <1>5
      <4>2. \A s \in Row : proc'[s] = 2 => s = r \/ proc[s] = 2
        BY <2>1 DEF TInv, Types, TypeOK
      <4> QED
        BY <1>7, <2>1, <4>1, <4>2 DEF TInv, Marks
    <3>2. ResultTrue'
      BY <1>7, <2>1 DEF TInv, Marks, ResultTrue
    <3> QED
      BY <1>2, <1>7, <2>1, <3>1, <3>2 DEF TInv, Marks
  <2>6. AllHeld'
    <3> SUFFICES ASSUME NEW s \in rows \ failed, mainPc # "load", ~done[s],
                        proc'[s] # 0 \/ Marking(s)
                 PROVE  Held(<<s, 1>>)'
      BY <1>7, <2>1 DEF AllHeld, Marking
    <3>1. s \in Row /\ <<s, 1>> \in Command
      BY FirstCommand DEF TInv, Types, TypeOK
    <3>2. CASE s = r
      BY <1>3, <1>4, <1>5, <3>2
    <3>3. CASE s # r
      BY <1>3, <2>1, <3>1, <3>3 DEF TInv, AllHeld
    <3> QED
      BY <3>2, <3>3
  <2> QED
    BY <1>3, <1>6, <2>2, <2>3, <2>4, <2>5, <2>6 DEF TInv
<1>9. CASE SqlFails({r})
  <2>1. /\ UNCHANGED table /\ failed' = failed \cup {r}
        /\ fails' \in 0 .. MaxFail /\ dirty' = dirty
    BY <1>9, TableFacts DEF SqlFails, TInv, Types, TypeOK
  <2>2. Types'
    BY <1>1, <1>2, <1>4, <2>1 DEF service, TInv, Types, TypeOK
  <2>3. Rows' /\ Once'
    BY <1>7, <2>1 DEF TInv, Rows, Once, FirstOnly, Deciding, Visible
  <2>4. Marks'
    BY <1>2, <1>7, <2>1 DEF TInv, Marks, ResultTrue
  <2>5. AllHeld'
    BY <1>3, <1>7, <2>1, FirstCommand DEF TInv, Types, TypeOK, AllHeld, Marking
  <2> QED
    BY <1>3, <1>6, <2>2, <2>3, <2>4, <2>5 DEF TInv
<1> QED
  BY <1>1, <1>8, <1>9

\* LaneBeginNotify: the peers are told, and the device works on the command.
LEMMA LaneBeginNotifyInv ==
  ASSUME TInv, NEW d \in Device, NEW q \in Queue, LaneBeginNotify(d, q)
  PROVE  TInv'
<1> USE DEF main, mon, env, table, faults
<1>1. /\ UNCHANGED <<table, service, laneCmd, main, wake, mon, env, queued, faults,
                     crashes>>
      /\ LaneAt(d, q, "beginNotify", "run") /\ dirty' = FALSE
  BY DEF LaneBeginNotify
<1>2. /\ lanePc' \in [Device -> [Queue ->
            {"idle", "begin", "beginNotify", "run", "report", "reportNotify"}]]
      /\ \A e \in Device, p \in Queue :
           lanePc'[e][p] = IF e = d /\ p = q THEN "run" ELSE lanePc[e][p]
  BY <1>1, LaneGoes
<1>3. LaneState' /\ Apart' /\ Handed' /\ \A c \in Command : Held(c)' = Held(c)
  BY <1>1, SamePhase DEF Executing, Reporting
<1>4. Types'
  BY ZenonT(40), <1>1, <1>2 DEF service, TInv, Types, TypeOK
<1>5. Rows' /\ Once'
  BY <1>1 DEF service, TInv, Rows, Once, FirstOnly, Deciding, Visible
<1>6. Marks'
  BY <1>1, <1>2 DEF service, TInv, Marks, ResultTrue
<1>7. AllHeld' /\ ChangeNotified'
  BY <1>1, <1>3, FirstCommand DEF TInv, Types, TypeOK, AllHeld, Marking, ChangeNotified
<1> QED
  BY <1>3, <1>4, <1>5, <1>6, <1>7 DEF TInv

\* UpdateResult: the row gets the outcome that was reported, or the statement
\* fails.
LEMMA UpdateResultInv ==
  ASSUME TInv, NEW d \in Device, NEW q \in Queue, UpdateResult(d, q)
  PROVE  TInv'
<1> DEFINE k == laneCmd[d][q]
           r == k[1]
<1> USE DEF main, mon, env, table, faults
<1>1. /\ UNCHANGED <<service, laneCmd, main, wake, mon, env, queued, crashes>>
      /\ LaneAt(d, q, "report", "reportNotify")
      /\ Set(r, proc[r], TRUE, outcome[k]) \/ SqlFails({r})
  BY DEF UpdateResult
<1>2. /\ lanePc[d][q] = "report"
      /\ lanePc' \in [Device -> [Queue ->
            {"idle", "begin", "beginNotify", "run", "report", "reportNotify"}]]
      /\ \A e \in Device, p \in Queue :
           lanePc'[e][p] = IF e = d /\ p = q THEN "reportNotify" ELSE lanePc[e][p]
  BY <1>1, LaneGoes
<1>3. LaneState' /\ Apart' /\ Handed' /\ \A c \in Command : Held(c)' = Held(c)
  BY <1>1, SamePhase DEF Executing, Reporting
<1>4. /\ r \in Row /\ r \in asked /\ queued[r] # 0
      /\ r \notin failed => /\ k = <<r, 1>> /\ r \notin picked
                            /\ monPc = "queue" => r # monRow
                            /\ monPc = "update" /\ monErr # "none" => r # monRow
  BY <1>2, CallbackRow
<1>5. k \in Command /\ outcome[k] \in Final
  BY <1>2, LaneHolds DEF TInv, LaneState, Reporting
<1>6. ChangeNotified'
  BY <1>2 DEF ChangeNotified
<1>7. rows' = rows /\ UNCHANGED <<outcome, laneCmd, queued, picked, monPc, monRow,
                                  monErr, asked, mainPc>>
  BY <1>1 DEF Set, SqlFails, service
<1>8. CASE Set(r, proc[r], TRUE, outcome[k])
  <2>1. /\ failed' = failed /\ fails' = fails /\ proc' = proc
        /\ done' \in [Row -> BOOLEAN]
        /\ result' \in [Row -> Error \cup {"none", "executed", "failed", "cancelled"}]
        /\ \A s \in Row : /\ done'[s] = IF s = r THEN TRUE ELSE done[s]
                          /\ result'[s] = IF s = r THEN outcome[k] ELSE result[s]
    BY <1>4, <1>5, <1>8 DEF Set, TInv, Types, TypeOK, Final
  <2>2. Types'
    BY <1>1, <1>2, <1>8, <2>1 DEF Set, service, TInv, Types, TypeOK
  <2>3. Rows'
    BY <1>4, <1>7, <2>1 DEF TInv, Types, TypeOK, Rows
  <2>4. Once'
    <3>1. FirstOnly'
      BY <1>7, <2>1 DEF TInv, Once, FirstOnly
    <3>2. Deciding'
      <4>1. Deciding /\ (monPc = "update" => monRow \in Row)
        BY DEF TInv, Types, Once
      <4>2. monPc = "update" /\ monRow \notin failed /\ monErr # "none" =>
              (done'[monRow] <=> done[monRow])
        BY <1>4, <2>1, <4>1
      <4> QED
        BY <1>7, <2>1, <4>1, <4>2 DEF Deciding, Visible
    <3>3. monPc = "queue" /\ monRow \notin failed => Visible(monRow)'
      BY <1>4, <1>7, <2>1 DEF TInv, Types, Once, Visible
    <3>4. \A s \in picked \ failed : Visible(s)'
      BY <1>4, <1>7, <2>1 DEF TInv, Types, TypeOK, Once, Visible
    <3>5. mainPc # "load" =>
            \A s \in rows \ failed : ~done'[s] /\ proc'[s] = 0 =>
               queued[s] = 0 \/ (monPc = "update" /\ monRow = s)
      BY <1>4, <2>1 DEF TInv, Types, TypeOK, Once
    <3> QED
      BY <1>7, <2>1, <3>1, <3>2, <3>3, <3>4, <3>5 DEF Once
  <2>5. Marks'
    <3>1. \A s \in Row \ failed' : proc'[s] = 2 => outcome'[<<s, 1>>] \in Final \cup {"executing"}
      BY <1>7, <2>1 DEF TInv, Marks
    <3>2. ResultTrue'
      <4> SUFFICES ASSUME NEW s \in rows \ failed, done'[s]
                   PROVE  \/ result'[s] = "notfound" /\ queued[s] = 0
                          \/ result'[s] = outcome[<<s, 1>>]
        BY <1>7, <2>1 DEF ResultTrue
      <4>1. s \in Row
        BY DEF TInv, Types, TypeOK
      <4>2. CASE s = r
        BY <1>4, <2>1, <4>1, <4>2
      <4>3. CASE s # r
        BY <2>1, <4>1, <4>3 DEF TInv, Marks, ResultTrue
      <4> QED
        BY <4>2, <4>3
    <3>3. ASSUME NEW e \in Device, NEW p \in Queue, lanePc'[e][p] = "reportNotify"
          PROVE  laneCmd'[e][p][1] \in failed' \/ done'[laneCmd'[e][p][1]]
      <4>1. CASE e = d /\ p = q
        BY <1>4, <1>7, <2>1, <4>1
      <4>2. CASE ~(e = d /\ p = q)
        <5>1. lanePc[e][p] = "reportNotify"
          BY <1>2, <3>3, <4>2
        <5>2. laneCmd[e][p][1] \in Row
          BY <5>1, CallbackRow
        <5>3. laneCmd[e][p][1] \in failed \/ done[laneCmd[e][p][1]]
          BY <5>1 DEF TInv, Marks
        <5> QED
          BY <1>7, <2>1, <5>2, <5>3
      <4> QED
        BY <4>1, <4>2
    <3> QED
      BY <3>1, <3>2, <3>3 DEF Marks
  <2>6. AllHeld'
    BY <1>3, <1>7, <2>1, FirstCommand DEF TInv, Types, TypeOK, AllHeld, Marking
  <2> QED
    BY <1>3, <1>6, <2>2, <2>3, <2>4, <2>5, <2>6 DEF TInv
<1>9. CASE SqlFails({r})
  <2>1. /\ UNCHANGED table /\ failed' = failed \cup {r}
        /\ fails' \in 0 .. MaxFail /\ dirty' = dirty
    BY <1>9, TableFacts DEF SqlFails, TInv, Types, TypeOK
  <2>2. Types'
    BY <1>1, <1>2, <1>4, <2>1 DEF service, TInv, Types, TypeOK
  <2>3. Rows' /\ Once'
    BY <1>7, <2>1 DEF TInv, Rows, Once, FirstOnly, Deciding, Visible
  <2>4. Marks'
    BY <1>2, <1>7, <2>1 DEF TInv, Marks, ResultTrue
  <2>5. AllHeld'
    BY <1>3, <1>7, <2>1, FirstCommand DEF TInv, Types, TypeOK, AllHeld, Marking
  <2> QED
    BY <1>3, <1>6, <2>2, <2>3, <2>4, <2>5 DEF TInv
<1> QED
  BY <1>1, <1>8, <1>9

\* LaneReportNotify: the lane lets the command go; its row is done.
LEMMA LaneReportNotifyInv ==
  ASSUME TInv, NEW d \in Device, NEW q \in Queue, LaneReportNotify(d, q)
  PROVE  TInv'
<1> DEFINE k == laneCmd[d][q]
<1> USE DEF main, mon, env, table, faults
<1>1. /\ UNCHANGED <<table, service, main, wake, mon, env, queued, faults, crashes>>
      /\ LaneAt(d, q, "reportNotify", "idle") /\ dirty' = FALSE
      /\ laneCmd' = [laneCmd EXCEPT ![d][q] = NoCmd]
  BY DEF LaneReportNotify
<1>2. /\ lanePc[d][q] = "reportNotify"
      /\ lanePc' \in [Device -> [Queue ->
            {"idle", "begin", "beginNotify", "run", "report", "reportNotify"}]]
      /\ \A e \in Device, p \in Queue :
           lanePc'[e][p] = IF e = d /\ p = q THEN "idle" ELSE lanePc[e][p]
  BY <1>1, LaneGoes
<1>3. /\ laneCmd' \in [Device -> [Queue -> Command \cup {NoCmd}]]
      /\ \A e \in Device, p \in Queue :
           laneCmd'[e][p] = IF e = d /\ p = q THEN NoCmd ELSE laneCmd[e][p]
  <2>1. /\ laneCmd \in [Device -> [Queue -> Command \cup {NoCmd}]]
        /\ NoCmd \in Command \cup {NoCmd}
    BY DEF TInv, Types, TypeOK
  <2> QED
    BY <1>1, <2>1, Update2
<1>4. k \in Command /\ (k[1] \in failed \/ done[k[1]])
  BY <1>2, LaneHolds DEF TInv, Marks
<1>5. \A c \in Command, e \in Device, p \in Queue :
        /\ HeldBy(c, e, p)' => HeldBy(c, e, p)
        /\ HeldBy(c, e, p) /\ c # k => HeldBy(c, e, p)'
  BY <1>1, <1>3, TableFacts DEF HeldBy, service
<1>6. Types'
  BY ZenonT(40), <1>1, <1>2, <1>3 DEF service, TInv, Types, TypeOK
<1>7. LaneState'
  BY <1>1, <1>2, <1>3 DEF service, TInv, LaneState, Executing, Reporting
<1>8. Apart'
  <2>1. pending' = pending
    BY <1>1 DEF service
  <2> QED
    BY <1>5, <2>1 DEF TInv, Apart
<1>9. Handed' /\ Rows'
  BY <1>1 DEF service, TInv, Handed, Rows
<1>10. Once'
  BY <1>1 DEF service, TInv, Once, FirstOnly, Deciding, Visible
<1>11. Marks'
  BY <1>1, <1>2, <1>3 DEF service, TInv, Marks, ResultTrue
<1>12. AllHeld' /\ ChangeNotified'
  <2>1. ASSUME NEW r \in rows \ failed, ~done[r], mainPc # "load", proc[r] # 0 \/ Marking(r)
        PROVE  Held(<<r, 1>>)'
    <3>1. <<r, 1>> \in Command /\ <<r, 1>> # k
      BY <1>4, <2>1, FirstCommand DEF TInv, Types, TypeOK
    <3>2. Held(<<r, 1>>)
      BY <2>1 DEF TInv, AllHeld
    <3> QED
      BY <1>5, <3>1, <3>2 DEF Held
  <2> QED
    BY <1>1, <2>1 DEF AllHeld, Marking, ChangeNotified
<1> QED
  BY <1>6, <1>7, <1>8, <1>9, <1>10, <1>11, <1>12 DEF TInv

------------------------------------------------------------------------------
(* The invariant holds.                                                    *)

\* Every step preserves TInv: one lemma per group of steps, above.
LEMMA NextTInv == TInv /\ [Next]_vars => TInv'
<1> SUFFICES ASSUME TInv, [Next]_vars
             PROVE  TInv'
  OBVIOUS
<1>1. CASE MonStep
  BY <1>1, MonQuietInv, MonQueueInv, MonUpdateInv DEF MonStep
<1>2. CASE LoadStep \/ Unload \/ UnloadJoin
  BY <1>2, LoadStepInv, OutsideStep DEF LoadStep
<1>3. CASE Crash
  BY <1>3, CrashInv
<1>4. ASSUME NEW d \in Device, NEW q \in Queue, LaneStep(d, q)
      PROVE  TInv'
  BY <1>4, LaneStartInv, LaneBeginInv, LaneBeginNotifyInv, LaneFinishInv, UpdateResultInv,
     LaneReportNotifyInv
     DEF LaneStep
<1>5. CASE \/ \E r \in Row : RequestRow(r) \/ OnCmdUpdated(r)
           \/ \E d \in Device : Attach(d) \/ Detach(d)
  BY <1>5, OutsideStep
<1>6. CASE UNCHANGED vars
  <2> USE <1>6 DEF vars, table, service, lanes, main, mon, env, faults
  <2>1. Types'
    BY DEF TInv, Types, TypeOK
  <2>2. LaneState' /\ Apart' /\ Handed'
    BY DEF TInv, LaneState, Apart, HeldBy, Handed
  <2>3. Rows' /\ Once' /\ Marks'
    BY DEF TInv, Rows, Once, FirstOnly, Deciding, Visible, Marks, ResultTrue
  <2>4. AllHeld' /\ ChangeNotified'
    BY DEF TInv, AllHeld, Marking, Held, HeldBy, ChangeNotified
  <2> QED
    BY <2>1, <2>2, <2>3, <2>4 DEF TInv
<1> QED
  BY <1>1, <1>2, <1>3, <1>4, <1>5, <1>6 DEF Next

\* TInv holds in every state.
LEMMA TInvariant == Spec => []TInv
BY InitTInv, NextTInv, PTL DEF Spec

------------------------------------------------------------------------------
(* The theorems.                                                           *)

\* Every variable has its type.
THEOREM TypeCorrect == Spec => []TypeOK
<1>1. TInv => TypeOK
  BY DEF TInv, Types
<1> QED
  BY <1>1, TInvariant, PTL

\* Repetitions: a row that can be seen, or has been picked, was handed over no
\* more often than statements have failed since.
Spare(r) == IF r \in failed THEN fails ELSE 0
Repeats ==
  /\ \A r \in Row : queued[r] <= 1 + Spare(r)
  /\ \A r \in picked : queued[r] <= Spare(r)
  /\ monPc = "queue" => queued[monRow] <= Spare(monRow)
  /\ mainPc # "load" => \A r \in rows :
       ~done[r] /\ proc[r] = 0 => queued[r] <= Spare(r) \/ (monPc = "update" /\ monRow = r)

\* No step takes a repetition that no failed statement has paid for.
LEMMA RepeatsNext ==
  ASSUME TInv, Repeats, [Next]_vars
  PROVE  Repeats'
<1> USE DEF table, service, lanes, main, mon, env, faults
<1>1. /\ queued \in [Row -> Nat] /\ fails \in Nat /\ MaxFail \in Nat
      /\ rows \subseteq Row /\ picked \subseteq Row /\ asked \subseteq Row
      /\ proc \in [Row -> 0 .. 2] /\ done \in [Row -> BOOLEAN]
      /\ monPc \in {"queue", "update", "notify"} => monRow \in Row
  BY TableFacts DEF TInv, Types, TypeOK
<1>2. ASSUME NEW S \in SUBSET Row, SqlFails(S)
      PROVE  /\ \A r \in Row : Spare(r)' \in Nat /\ Spare(r) <= Spare(r)'
             /\ \A r \in S : Spare(r)' >= 1 + Spare(r)
             /\ \A r \in Row, n \in Nat : /\ n <= Spare(r) => n <= Spare(r)'
                                          /\ n <= 1 + Spare(r) => n <= 1 + Spare(r)'
             /\ \A r \in S, n \in Nat : n <= 1 + Spare(r) => n <= Spare(r)'
             /\ UNCHANGED <<rows, proc, done>>
  BY <1>1, <1>2 DEF SqlFails, Spare
<1>3. \A r \in Row : Spare(r) \in Nat
  BY <1>1 DEF Spare
<1>4. ASSUME \/ \E r \in Row : RequestRow(r) \/ OnCmdUpdated(r)
             \/ \E d \in Device : Attach(d) \/ Detach(d)
             \/ LoadCreate \/ LoadRegister \/ Unload \/ UnloadJoin
      PROVE  Repeats'
  BY <1>1, <1>3, <1>4 DEF RequestRow, OnCmdUpdated, Attach, Detach, LoadCreate, LoadRegister,
     Unload, UnloadJoin, Repeats, Spare, TInv, Rows
<1>5. CASE LoadTruncate
  <2>1. CASE rows' = {} /\ UNCHANGED <<proc, done, result, dirty, faults>>
    BY <1>1, <1>5, <2>1 DEF LoadTruncate, Repeats, Spare, TInv, Rows
  <2>2. CASE SqlFails(rows)
    BY <1>1, <1>2, <1>3, <1>5, <2>2 DEF LoadTruncate, SqlFails, Repeats, TInv, Rows
  <2> QED
    BY <1>5, <2>1, <2>2 DEF LoadTruncate
<1>6. CASE Crash
  BY <1>6 DEF Crash, Repeats, Spare
<1>7. CASE MonWait \/ MonDone \/ MonNotify
  BY <1>1, <1>3, <1>7 DEF MonWait, MonDone, MonNotify, Repeats, Spare, TInv, Types, TypeOK
<1>8. CASE MonProbe
  <2>1. CASE monPc' = "wait" /\ SqlFails({}) /\ UNCHANGED picked
    BY <1>1, <1>2, <1>3, <1>8, <2>1 DEF MonProbe, Repeats
  <2>2. CASE monPc' = "row" /\ UNCHANGED <<table, dirty, faults>>
    BY <1>1, <1>3, <1>8, <2>2 DEF MonProbe, Repeats, Spare, TInv, Rows, Types, TypeOK
  <2> QED
    BY <1>8, <2>1, <2>2 DEF MonProbe
<1>9. ASSUME NEW r \in Row, MonRow(r)
      PROVE  Repeats'
  BY <1>1, <1>3, <1>9 DEF MonRow, Repeats, Spare
<1>10. CASE MonQueue
  <2>1. /\ monPc = "queue" /\ monPc' = "update" /\ monRow \in Row /\ monRow \notin picked
        /\ \A r \in Row : queued'[r] = IF r = monRow THEN queued[r] + 1 ELSE queued[r]
    BY <1>1, <1>10 DEF MonQueue, TInv, Rows
  <2>2. /\ UNCHANGED <<rows, proc, done, picked, monRow, mainPc>>
        /\ \A r \in Row : Spare(r)' = Spare(r)
    BY <1>10 DEF MonQueue, Spare
  <2> QED
    BY <1>1, <1>3, <2>1, <2>2 DEF Repeats
<1>11. CASE MonUpdate
  <2>1. CASE SqlFails({monRow})
    <3>1. monRow \in Row /\ monPc = "update" /\ monPc' = "notify"
      BY <1>1, <1>11 DEF MonUpdate
    <3>2. UNCHANGED <<queued, picked, monRow, mainPc>>
      BY <1>11 DEF MonUpdate
    <3>3. queued[monRow] <= Spare(monRow)'
      BY <1>1, <1>2, <2>1, <3>1, <3>2 DEF Repeats
    <3> QED
      BY <1>1, <1>2, <2>1, <3>1, <3>2, <3>3 DEF Repeats
  <2>2. CASE ~SqlFails({monRow})
    BY <1>1, <1>3, <1>11, <2>2 DEF MonUpdate, Set, Repeats, Spare
  <2> QED
    BY <2>1, <2>2
<1>12. ASSUME NEW d \in Device, NEW q \in Queue, LaneStep(d, q)
       PROVE  Repeats'
  <2>1. CASE LaneStart(d, q) \/ LaneBeginNotify(d, q) \/ LaneFinish(d, q)
             \/ LaneReportNotify(d, q)
    BY <1>1, <1>3, <2>1 DEF LaneStart, LaneBeginNotify, LaneFinish, LaneReportNotify, Repeats,
       Spare
  <2>2. CASE LaneBegin(d, q) \/ UpdateResult(d, q)
    <3>1. laneCmd[d][q][1] \in Row
      BY <2>2, CallbackRow DEF LaneBegin, UpdateResult, LaneAt
    <3>2. CASE SqlFails({laneCmd[d][q][1]})
      BY <1>1, <1>2, <1>3, <2>2, <3>1, <3>2 DEF LaneBegin, UpdateResult, Repeats
    <3>3. CASE ~SqlFails({laneCmd[d][q][1]})
      BY <1>1, <1>3, <2>2, <3>1, <3>3 DEF LaneBegin, UpdateResult, Set, Repeats, Spare
    <3> QED
      BY <3>2, <3>3
  <2> QED
    BY <1>12, <2>1, <2>2 DEF LaneStep
<1>13. CASE UNCHANGED vars
  BY <1>13 DEF vars, Repeats, Spare
<1> QED
  BY <1>4, <1>5, <1>6, <1>7, <1>8, <1>9, <1>10, <1>11, <1>12, <1>13
     DEF Next, MonStep, LoadStep

\* A request is handed to the executor once, whatever is lost in a crash, and
\* once more for each statement that fails, for every number of them.
THEOREM HandedOverOnce == Spec => []QueuedOnce
<1>1. Init => Repeats
  BY DEF Init, Repeats, Spare
<1>2. TInv /\ Repeats /\ [Next]_vars => Repeats'
  BY RepeatsNext
<1>3. TInv /\ Repeats => QueuedOnce
  BY TableFacts DEF TInv, Types, TypeOK, Repeats, Spare, QueuedOnce
<1> QED
  BY <1>1, <1>2, <1>3, TInvariant, PTL DEF Spec

\* The result in the table is what the executor reported of the request.
THEOREM ResultIsTrue == Spec => []ResultTrue
<1>1. TInv => ResultTrue
  BY DEF TInv, Marks
<1> QED
  BY <1>1, TInvariant, PTL

\* A row marked as being processed is in a lane of the executor.
THEOREM NoRowStuck == Spec => []MarkedIsHeld
<1>1. TInv => MarkedIsHeld
  BY DEF TInv, AllHeld, MarkedIsHeld
<1> QED
  BY <1>1, TInvariant, PTL

\* After a change of the table there is a thread that will tell the peers.
THEOREM ChangeIsTold == Spec => []ChangeNotified
<1>1. TInv => ChangeNotified
  BY DEF TInv
<1> QED
  BY <1>1, TInvariant, PTL

\* What a step does to the marks of a row without a failed statement.
LEMMA RowStep ==
  ASSUME TInv, [Next]_vars, NEW r \in Row \ failed'
  PROVE  /\ proc[r] = 2 => proc'[r] = 2
         /\ r \in rows /\ done[r] =>
              r \notin rows' \/ (done'[r] /\ result'[r] = result[r])
<1> USE DEF table, faults
<1>1. /\ proc \in [Row -> 0 .. 2] /\ done \in [Row -> BOOLEAN]
      /\ result \in [Row -> Error \cup {"none", "executed", "failed", "cancelled"}]
  BY DEF TInv, Types, TypeOK
<1>2. CASE MonUpdate
  <2>1. monRow \in Row /\ monPc = "update"
    BY <1>2 DEF MonUpdate, TInv, Types
  <2>2. CASE monErr = "none"
    BY <1>1, <1>2, <2>1, <2>2 DEF MonUpdate, Set, SqlFails
  <2>3. CASE monErr # "none" /\ monRow \notin failed
    <3>1. proc[monRow] # 2 /\ ~done[monRow]
      <4>1. CASE monErr = "notfound"
        BY <2>1, <2>3, <4>1 DEF TInv, Once, Deciding, Visible
      <4>2. CASE monErr = "refused"
        BY <2>1, <2>3, <4>2 DEF TInv, Once, Deciding, Marks, Final
      <4> QED
        BY <2>3, <4>1, <4>2 DEF TInv, Types, TypeOK, Error
    <3> QED
      BY <1>1, <1>2, <2>1, <2>3, <3>1 DEF MonUpdate, Set, SqlFails
  <2>4. CASE monErr # "none" /\ monRow \in failed
    BY <1>1, <1>2, <2>1, <2>4 DEF MonUpdate, Set, SqlFails
  <2> QED
    BY <2>2, <2>3, <2>4
<1>3. ASSUME NEW d \in Device, NEW q \in Queue, LaneBegin(d, q)
      PROVE  /\ proc[r] = 2 => proc'[r] = 2
             /\ done'[r] = done[r] /\ result'[r] = result[r]
  <2>1. laneCmd[d][q][1] \in Row
    BY <1>3, CallbackRow DEF LaneBegin, LaneAt
  <2> QED
    BY <1>1, <1>3, <2>1 DEF LaneBegin, Set, SqlFails
<1>4. ASSUME NEW d \in Device, NEW q \in Queue, UpdateResult(d, q)
      PROVE  /\ proc'[r] = proc[r]
             /\ r \in rows /\ done[r] => done'[r] /\ result'[r] = result[r]
  <2> DEFINE k == laneCmd[d][q]
             s == k[1]
  <2>1. s \in Row /\ queued[s] # 0 /\ (s \notin failed => k = <<s, 1>>)
    BY <1>4, CallbackRow DEF UpdateResult, LaneAt
  <2>2. CASE SqlFails({s})
    BY <2>2 DEF SqlFails
  <2>3. CASE Set(s, proc[s], TRUE, outcome[k])
    <3>1. failed' = failed /\ proc'[r] = proc[r]
      BY <1>1, <2>1, <2>3 DEF Set
    <3>2. /\ done'[r] = IF r = s THEN TRUE ELSE done[r]
          /\ result'[r] = IF r = s THEN outcome[k] ELSE result[r]
      BY <1>1, <2>1, <2>3 DEF Set
    <3>3. r = s /\ r \in rows /\ done[r] => result[r] = outcome[k]
      BY <2>1, <3>1 DEF TInv, Marks, ResultTrue
    <3> QED
      BY <3>1, <3>2, <3>3
  <2> QED
    BY <1>4, <2>2, <2>3 DEF UpdateResult
<1>5. CASE \/ \E s \in Row : RequestRow(s) \/ OnCmdUpdated(s) \/ MonRow(s)
           \/ \E d \in Device : Attach(d) \/ Detach(d)
           \/ MonWait \/ MonProbe \/ MonDone \/ MonQueue \/ MonNotify
           \/ LoadStep \/ Unload \/ UnloadJoin \/ Crash
           \/ \E d \in Device, q \in Queue :
                LaneStart(d, q) \/ LaneBeginNotify(d, q) \/ LaneFinish(d, q)
                \/ LaneReportNotify(d, q)
           \/ UNCHANGED vars
  <2>1. proc' = proc /\ done' = done /\ result' = result
    BY <1>5
       DEF RequestRow, OnCmdUpdated, MonRow, Attach, Detach, MonWait, MonProbe, MonDone,
           MonQueue, MonNotify, LoadStep, LoadTruncate, LoadCreate, LoadRegister, Unload,
           UnloadJoin, Crash, LaneStart, LaneBeginNotify, LaneFinish, LaneReportNotify,
           SqlFails, vars
  <2> QED
    BY <2>1
<1> QED
  BY <1>2, <1>3, <1>4, <1>5 DEF Next, MonStep, LaneStep

\* is_processing does not go back from 2 to 1.
THEOREM MarkNeverBack == Spec => NeverBack
<1>1. TInv /\ [Next]_vars => [\A r \in Row \ failed' : proc[r] = 2 => proc'[r] = 2]_vars
  BY RowStep
<1> QED
  BY <1>1, TInvariant, PTL DEF Spec, NeverBack

\* A row that is done stays done with the same result until it is truncated.
THEOREM ResultNeverChanges == Spec => ResultKept
<1>1. TInv /\ [Next]_vars =>
        [\A r \in Row \ failed' : r \in rows /\ done[r] =>
            r \notin rows' \/ (done'[r] /\ result'[r] = result[r])]_vars
  BY RowStep
<1> QED
  BY <1>1, TInvariant, PTL DEF Spec, ResultKept

\* What a row says of its request is so, for every number of requests and
\* crashes.
THEOREM RowsAreTrue == Spec => []RowTrue
BY ResultIsTrue, NoRowStuck, PTL DEF RowTrue

\* A row only advances, whatever the two threads that write it do.
THEOREM RowOnlyAdvances == Spec => RowsAdvance
BY MarkNeverBack, ResultNeverChanges, PTL DEF RowsAdvance
==========================================================================
