--------------------------- MODULE MsgClientProofs ---------------------------
(***************************************************************************)
(* Theorems about MsgClient, for every number of senders, connections and  *)
(* PDUs and every size of them: the types, that nothing uses a deleted     *)
(* connection, that a session is stopped only when it has ended or the     *)
(* client is unloaded, and that the stream is cut into the PDUs it is made *)
(* of until a connection is lost within one.                               *)
(***************************************************************************)
EXTENDS MsgClient, SequenceTheorems, TLAPS

USE DEF Session, NoInst

------------------------------------------------------------------------------
(* The invariant.                                                          *)

\* The part of TypeOK that does not speak of the stream.
ControlType ==
  /\ main \in {"init", "up", "unload", "wake", "join", "down"}
  /\ worker \in {"absent", "test", "connect", "publish", "register", "inner", "wait",
                 "check", "stop", "forget", "finish", "exited"}
  /\ inst \in Session \cup {NoInst} /\ trans \in Session \cup {NoInst}
  /\ live \subseteq Session /\ muxList \subseteq Session /\ lost \subseteq Session
  /\ ignore \in [Session -> BOOLEAN] /\ ended \in BOOLEAN
  /\ wake \in Nat /\ quit \in BOOLEAN
  /\ mux \in {"idle", "receive", "suspend", "signal"}
  /\ sender \in [Sender -> {"idle", "locked", "send"}]
  /\ target \in [Sender -> Session \cup {NoInst}]
  /\ transLock \in Sender \cup {NoSender}

\* The part that does.
StreamType ==
  /\ recv \in Seq(Unit) /\ recvBuf \in Seq(Unit)
  /\ stream \in [Session -> Seq(Unit)] /\ sent \in [Session -> 0 .. MaxPdu]
  /\ delivered \in Seq(Seq(Unit))

\* The places of the work thread at which its connection exists, at which the
\* handler points to it, and at which it is registered.
Existing == {"publish", "register", "inner", "wait", "check", "stop", "forget", "finish"}
Published == {"register", "inner", "wait", "check", "stop", "forget"}
Registered == {"inner", "wait", "check", "stop"}

\* The work thread's place says which connection is alive, published and
\* registered; the mux thread works only for a registered one.
Place ==
  /\ worker \in Existing => inst # NoInst
  /\ live = IF worker \in Existing THEN {inst} ELSE {}
  /\ trans = IF worker \in Published THEN inst ELSE NoInst
  /\ muxList = IF worker \in Registered THEN {inst} ELSE {}
  /\ MuxLocked => worker \in Registered
  /\ main = "init" => worker = "absent"
  /\ main = "down" => worker \in {"absent", "exited"}

\* The holder of _TransLock is the one sender in SendDbMsg, and what it sends
\* on is the connection the handler points to.
Locked ==
  \A c \in Sender :
     /\ sender[c] # "idle" => transLock = c
     /\ sender[c] = "send" => target[c] = trans /\ trans # NoInst

\* Before Unload there is a post exactly for an ended session the work thread
\* has not been told of, and the mux thread is done with an ended session.
Posted ==
  /\ \A s \in Session : s > inst => ~ignore[s]
  /\ \/ quit
     \/ main \in {"init", "up", "unload"}
     \/ main \in {"join", "down"} /\ worker = "absent"
  /\ mux = "suspend" => ended
  /\ mux \in {"receive", "suspend"} => ~ignore[inst]
  /\ mux = "signal" => ignore[inst] /\ ended
  /\ worker \in {"publish", "register"} => ~ignore[inst]
  /\ ~quit =>
       /\ wake = IF worker \in {"inner", "wait"} /\ ignore[inst] /\ mux # "signal"
                   THEN 1 ELSE 0
       /\ worker \in {"check", "stop"} => ignore[inst] /\ mux = "idle"
       /\ worker \in Registered /\ ignore[inst] => ended

IInv == ControlType /\ Place /\ Locked /\ Posted

------------------------------------------------------------------------------
\* The work thread.
LEMMA WorkKeeps ==
  ASSUME IInv, WorkStep
  PROVE  IInv'
<1>1. CASE WorkTest
  BY <1>1, ClientConstants, SMTT(60) DEF WorkTest, WorkerAt,
     mainVars, workVars, muxVars, endVars, sendVars, netVars,
     IInv, ControlType, Place, Locked, Posted, Existing, Published, Registered, MuxLocked
<1>2. CASE ConnectFail
  BY <1>2, ClientConstants, SMTT(60) DEF ConnectFail, WorkerAt,
     mainVars, workVars, muxVars, endVars, sendVars, netVars,
     IInv, ControlType, Place, Locked, Posted, Existing, Published, Registered, MuxLocked
<1>3. CASE ConnectOut
  BY <1>3, ClientConstants, SMTT(60) DEF ConnectOut, WorkerAt,
     mainVars, workVars, muxVars, endVars, sendVars, netVars,
     IInv, ControlType, Place, Locked, Posted, Existing, Published, Registered, MuxLocked
<1>4. CASE WorkPublish
  BY <1>4, ClientConstants, SMTT(60) DEF WorkPublish, WorkerAt,
     mainVars, workVars, muxVars, endVars, sendVars, netVars,
     IInv, ControlType, Place, Locked, Posted, Existing, Published, Registered, MuxLocked
<1>5. CASE WorkRegister
  BY <1>5, ClientConstants, SMTT(60) DEF WorkRegister, WorkerAt,
     mainVars, workVars, muxVars, endVars, sendVars, netVars,
     IInv, ControlType, Place, Locked, Posted, Existing, Published, Registered, MuxLocked
<1>6. CASE WorkInner
  BY <1>6, ClientConstants, SMTT(60) DEF WorkInner, WorkerAt,
     mainVars, workVars, muxVars, endVars, sendVars, netVars,
     IInv, ControlType, Place, Locked, Posted, Existing, Published, Registered, MuxLocked
<1>7. CASE WorkWait
  BY <1>7, ClientConstants, SMTT(60) DEF WorkWait, WorkerAt,
     mainVars, workVars, muxVars, endVars, sendVars, netVars,
     IInv, ControlType, Place, Locked, Posted, Existing, Published, Registered, MuxLocked
<1>8. CASE WorkCheck
  BY <1>8, ClientConstants, SMTT(60) DEF WorkCheck, WorkerAt,
     mainVars, workVars, muxVars, endVars, sendVars, netVars,
     IInv, ControlType, Place, Locked, Posted, Existing, Published, Registered, MuxLocked
<1>9. CASE WorkStop
  BY <1>9, ClientConstants, SMTT(60) DEF WorkStop, WorkerAt,
     mainVars, workVars, muxVars, endVars, sendVars, netVars,
     IInv, ControlType, Place, Locked, Posted, Existing, Published, Registered, MuxLocked
<1>10. CASE WorkForget
  BY <1>10, ClientConstants, SMTT(60) DEF WorkForget, WorkerAt,
     mainVars, workVars, muxVars, endVars, sendVars, netVars,
     IInv, ControlType, Place, Locked, Posted, Existing, Published, Registered, MuxLocked
<1>11. CASE WorkFinish
  BY <1>11, ClientConstants, SMTT(60) DEF WorkFinish, WorkerAt,
     mainVars, workVars, muxVars, endVars, sendVars, netVars,
     IInv, ControlType, Place, Locked, Posted, Existing, Published, Registered, MuxLocked
<1> QED
  BY <1>1, <1>2, <1>3, <1>4, <1>5, <1>6, <1>7, <1>8, <1>9, <1>10, <1>11 DEF WorkStep

\* The mux thread.
LEMMA MuxKeeps ==
  ASSUME IInv, MuxStep
  PROVE  IInv'
<1>1. CASE Receive
  BY <1>1, ClientConstants, SMTT(60) DEF Receive, WorkerAt,
     mainVars, workVars, muxVars, endVars, sendVars, netVars,
     IInv, ControlType, Place, Locked, Posted, Existing, Published, Registered, MuxLocked
<1>2. CASE ReceiveFails
  BY <1>2, ClientConstants, SMTT(60) DEF ReceiveFails, WorkerAt,
     mainVars, workVars, muxVars, endVars, sendVars, netVars,
     IInv, ControlType, Place, Locked, Posted, Existing, Published, Registered, MuxLocked
<1>3. CASE Fill
  BY <1>3, ClientConstants, SMTT(60) DEF Fill, WorkerAt,
     mainVars, workVars, muxVars, endVars, sendVars, netVars,
     IInv, ControlType, Place, Locked, Posted, Existing, Published, Registered, MuxLocked
<1>4. CASE ReceiveDone
  BY <1>4, ClientConstants, SMTT(60) DEF ReceiveDone, WorkerAt,
     mainVars, workVars, muxVars, endVars, sendVars, netVars,
     IInv, ControlType, Place, Locked, Posted, Existing, Published, Registered, MuxLocked
<1>5. CASE BadMagic
  BY <1>5, ClientConstants, SMTT(60) DEF BadMagic, WorkerAt,
     mainVars, workVars, muxVars, endVars, sendVars, netVars,
     IInv, ControlType, Place, Locked, Posted, Existing, Published, Registered, MuxLocked
<1>6. CASE Deliver
  BY <1>6, ClientConstants, SMTT(60) DEF Deliver, WorkerAt,
     mainVars, workVars, muxVars, endVars, sendVars, netVars,
     IInv, ControlType, Place, Locked, Posted, Existing, Published, Registered, MuxLocked
<1>7. CASE Suspend
  BY <1>7, ClientConstants, SMTT(60) DEF Suspend, WorkerAt,
     mainVars, workVars, muxVars, endVars, sendVars, netVars,
     IInv, ControlType, Place, Locked, Posted, Existing, Published, Registered, MuxLocked
<1>8. CASE Signal
  BY <1>8, ClientConstants, SMTT(60) DEF Signal, WorkerAt,
     mainVars, workVars, muxVars, endVars, sendVars, netVars,
     IInv, ControlType, Place, Locked, Posted, Existing, Published, Registered, MuxLocked
<1> QED
  BY <1>1, <1>2, <1>3, <1>4, <1>5, <1>6, <1>7, <1>8 DEF MuxStep

\* The thread of Java.
LEMMA MainKeeps ==
  ASSUME IInv, MainStep
  PROVE  IInv'
<1>1. CASE Load
  BY <1>1, ClientConstants, SMTT(60) DEF Load, WorkerAt,
     mainVars, workVars, muxVars, endVars, sendVars, netVars,
     IInv, ControlType, Place, Locked, Posted, Existing, Published, Registered, MuxLocked
<1>2. CASE Unload
  BY <1>2, ClientConstants, SMTT(60) DEF Unload, WorkerAt,
     mainVars, workVars, muxVars, endVars, sendVars, netVars,
     IInv, ControlType, Place, Locked, Posted, Existing, Published, Registered, MuxLocked
<1>3. CASE UnloadQuit
  BY <1>3, ClientConstants, SMTT(60) DEF UnloadQuit, WorkerAt,
     mainVars, workVars, muxVars, endVars, sendVars, netVars,
     IInv, ControlType, Place, Locked, Posted, Existing, Published, Registered, MuxLocked
<1>4. CASE UnloadPost
  BY <1>4, ClientConstants, SMTT(60) DEF UnloadPost, WorkerAt,
     mainVars, workVars, muxVars, endVars, sendVars, netVars,
     IInv, ControlType, Place, Locked, Posted, Existing, Published, Registered, MuxLocked
<1>5. CASE UnloadJoin
  BY <1>5, ClientConstants, SMTT(60) DEF UnloadJoin, WorkerAt,
     mainVars, workVars, muxVars, endVars, sendVars, netVars,
     IInv, ControlType, Place, Locked, Posted, Existing, Published, Registered, MuxLocked
<1> QED
  BY <1>1, <1>2, <1>3, <1>4, <1>5 DEF MainStep

\* A sender.
LEMMA SendKeeps ==
  ASSUME IInv, NEW c \in Sender, (SendLock(c) \/ SendReturns(c))
  PROVE  IInv'
<1>1. CASE SendLock(c)
  BY <1>1, ClientConstants, SMTT(60) DEF SendLock, WorkerAt,
     mainVars, workVars, muxVars, endVars, sendVars, netVars,
     IInv, ControlType, Place, Locked, Posted, Existing, Published, Registered, MuxLocked
<1>2. CASE SendRefused(c)
  BY <1>2, ClientConstants, SMTT(60) DEF SendRefused, WorkerAt,
     mainVars, workVars, muxVars, endVars, sendVars, netVars,
     IInv, ControlType, Place, Locked, Posted, Existing, Published, Registered, MuxLocked
<1>3. CASE SendStart(c)
  BY <1>3, ClientConstants, SMTT(60) DEF SendStart, WorkerAt,
     mainVars, workVars, muxVars, endVars, sendVars, netVars,
     IInv, ControlType, Place, Locked, Posted, Existing, Published, Registered, MuxLocked
<1>4. CASE SendEnd(c)
  BY <1>4, ClientConstants, SMTT(60) DEF SendEnd, WorkerAt,
     mainVars, workVars, muxVars, endVars, sendVars, netVars,
     IInv, ControlType, Place, Locked, Posted, Existing, Published, Registered, MuxLocked
<1> QED
  BY <1>1, <1>2, <1>3, <1>4 DEF SendReturns

\* The network.
LEMMA NetKeeps ==
  ASSUME IInv, NEW s \in Session, (ServerSend(s) \/ ConnectionLost(s))
  PROVE  IInv'
<1>1. CASE ServerSend(s)
  BY <1>1, ClientConstants, SMTT(60) DEF ServerSend, WorkerAt,
     mainVars, workVars, muxVars, endVars, sendVars, netVars,
     IInv, ControlType, Place, Locked, Posted, Existing, Published, Registered, MuxLocked
<1>2. CASE ConnectionLost(s)
  BY <1>2, ClientConstants, SMTT(60) DEF ConnectionLost, WorkerAt,
     mainVars, workVars, muxVars, endVars, sendVars, netVars,
     IInv, ControlType, Place, Locked, Posted, Existing, Published, Registered, MuxLocked
<1> QED
  BY <1>1, <1>2

\* The client starts in IInv.
LEMMA InitIInv == Init => IInv
<1> SUFFICES ASSUME Init
             PROVE  IInv
  OBVIOUS
<1>1. ControlType
  BY DEF Init, ControlType
<1>2. Place
  BY DEF Init, Place, Existing, Published, Registered, MuxLocked
<1>3. Locked
  BY DEF Init, Locked
<1>4. Posted
  BY DEF Init, Posted, Registered
<1> QED
  BY <1>1, <1>2, <1>3, <1>4 DEF IInv

\* Every step of the client preserves IInv.
LEMMA NextIInv == IInv /\ [Next]_vars => IInv'
<1> SUFFICES ASSUME IInv, [Next]_vars
             PROVE  IInv'
  OBVIOUS
<1>1. CASE WorkStep
  BY <1>1, WorkKeeps
<1>2. CASE MuxStep
  BY <1>2, MuxKeeps
<1>3. CASE MainStep
  BY <1>3, MainKeeps
<1>4. ASSUME NEW c \in Sender, SendLock(c) \/ SendReturns(c)
      PROVE  IInv'
  BY <1>4, SendKeeps
<1>5. ASSUME NEW s \in Session, ServerSend(s) \/ ConnectionLost(s)
      PROVE  IInv'
  BY <1>5, NetKeeps
<1>6. CASE UNCHANGED vars
  BY <1>6, SMT DEF vars, IInv, ControlType, Place, Locked, Posted, MuxLocked
<1> QED
  BY <1>1, <1>2, <1>3, <1>4, <1>5, <1>6 DEF Next

\* IInv holds in every state.
LEMMA IInvariant == Spec => []IInv
BY InitIInv, NextIInv, PTL DEF Spec

------------------------------------------------------------------------------
(* The theorems.                                                           *)

\* No sender and no callback of the mux thread uses a connection that is
\* deleted or another one than the handler's, and Unload leaves none behind,
\* for every number of senders and connections.
THEOREM ConnectionsLive == Spec => []UsesLive
<1>1. IInv => UsesLive
  BY DEF IInv, ControlType, Place, Locked, UsesLive, Existing, Published, Registered, MuxLocked
<1> QED
  BY <1>1, IInvariant, PTL

\* However many sessions there are, each is stopped only when it has ended or
\* the client is unloaded: no post is left over from an earlier one.
THEOREM StopsOnlyWhenEnded == Spec => []StopsOnlyEnded
<1>1. IInv => StopsOnlyEnded
  BY DEF IInv, Posted, StopsOnlyEnded
<1> QED
  BY <1>1, IInvariant, PTL

------------------------------------------------------------------------------
(* Type correctness.                                                       *)

\* Pieces of a sequence are sequences over the same set.
LEMMA Pieces ==
  ASSUME NEW S, NEW q \in Seq(S), NEW n \in 0 .. Len(q)
  PROVE  First(q, n) \in Seq(S) /\ Rest(q, n) \in Seq(S)
<1>1. \A i \in 1 .. Len(q) : q[i] \in S
  OBVIOUS
<1>2. \A i \in 1 .. n : q[i] \in S
  BY <1>1
<1>3. \A i \in n + 1 .. Len(q) : q[i] \in S
  BY <1>1
<1> QED
  BY <1>2, <1>3, SubSeqProperties DEF First, Rest

\* A PDU of the server is a sequence of units.
LEMMA PduType ==
  ASSUME NEW s \in Session, NEW n \in 1 .. MaxPdu
  PROVE  [k \in 1 .. HeadSize + BodySize |-> <<s, n, k>>] \in Seq(Unit)
BY ClientConstants DEF Unit, HeadSize

\* Every step keeps the units in the streams and the buffers.
LEMMA NextStreamType == ControlType /\ StreamType /\ [Next]_vars => StreamType'
<1> SUFFICES ASSUME ControlType, StreamType, [Next]_vars
             PROVE  StreamType'
  OBVIOUS
<1> USE DEF StreamType
<1>1. CASE WorkStep \/ MainStep \/ (\E c \in Sender : SendLock(c) \/ SendReturns(c))
           \/ UNCHANGED vars \/ ReceiveDone \/ BadMagic \/ Suspend \/ Signal
  <2>1. UNCHANGED <<recv, recvBuf, stream, sent, delivered>>
    BY <1>1 DEF WorkStep, MainStep, SendReturns, vars, muxVars, netVars, WorkTest, ConnectFail,
       ConnectOut, WorkPublish, WorkRegister, WorkInner, WorkWait, WorkCheck, WorkStop,
       WorkForget, WorkFinish, Load, Unload, UnloadQuit, UnloadPost, UnloadJoin, SendLock,
       SendRefused, SendStart, SendEnd, ReceiveDone, BadMagic, Suspend, Signal
  <2> QED
    BY <2>1
<1>2. CASE Receive
  <2>1. PICK s \in muxList : \E n \in 1 .. Len(stream[s]) :
          recvBuf' = First(stream[s], n) /\ stream' = [stream EXCEPT ![s] = Rest(@, n)]
    BY <1>2 DEF Receive
  <2>2. PICK n \in 1 .. Len(stream[s]) :
          recvBuf' = First(stream[s], n) /\ stream' = [stream EXCEPT ![s] = Rest(@, n)]
    BY <2>1
  <2>3. s \in Session /\ stream[s] \in Seq(Unit) /\ n \in 0 .. Len(stream[s])
    BY <2>1, <2>2 DEF ControlType
  <2>4. recvBuf' \in Seq(Unit) /\ stream' \in [Session -> Seq(Unit)]
    BY <2>2, <2>3, Pieces
  <2> QED
    BY <1>2, <2>4 DEF Receive
<1>3. CASE ReceiveFails
  BY <1>3 DEF ReceiveFails, netVars
<1>4. CASE Fill
  <2> DEFINE n == Least(Missing, Len(recvBuf))
  <2>1. n \in 0 .. Len(recvBuf)
    BY <1>4, ClientConstants DEF Fill, Least, Missing, HeaderRead, HeadSize, WBodySize
  <2>2. recv' = recv \o First(recvBuf, n) /\ recvBuf' = Rest(recvBuf, n)
    BY <1>4 DEF Fill
  <2>3. First(recvBuf, n) \in Seq(Unit) /\ Rest(recvBuf, n) \in Seq(Unit)
    BY <2>1, Pieces
  <2>4. recv' \in Seq(Unit) /\ recvBuf' \in Seq(Unit)
    BY <2>2, <2>3, ConcatProperties
  <2> QED
    BY <1>4, <2>4 DEF Fill, netVars
<1>5. CASE Deliver
  BY <1>5, AppendProperties DEF Deliver, netVars
<1>6. ASSUME NEW s \in Session, ServerSend(s)
      PROVE  StreamType'
  <2> DEFINE pdu == [k \in 1 .. HeadSize + BodySize |-> <<s, sent[s] + 1, k>>]
  <2>1. sent[s] + 1 \in 1 .. MaxPdu
    <3>1. MaxPdu \in Nat /\ sent[s] \in 0 .. MaxPdu /\ sent[s] < MaxPdu
      BY <1>6, ClientConstants DEF ServerSend
    <3> QED
      BY <3>1
  <2>2. pdu \in Seq(Unit)
    BY <2>1, PduType
  <2>3. stream[s] \o pdu \in Seq(Unit)
    BY <2>2, ConcatProperties
  <2>4. stream' = [stream EXCEPT ![s] = stream[s] \o pdu]
    BY <1>6 DEF ServerSend
  <2>5. stream' \in [Session -> Seq(Unit)]
    BY <2>3, <2>4
  <2>6. sent' \in [Session -> 0 .. MaxPdu]
    BY <1>6, <2>1 DEF ServerSend
  <2> QED
    BY <1>6, <2>5, <2>6 DEF ServerSend, muxVars
<1>7. ASSUME NEW s \in Session, ConnectionLost(s)
      PROVE  StreamType'
  <2>1. PICK n \in 0 .. Len(stream[s]) : stream' = [stream EXCEPT ![s] = First(@, n)]
    BY <1>7 DEF ConnectionLost
  <2>2. First(stream[s], n) \in Seq(Unit)
    BY Pieces
  <2>3. stream' \in [Session -> Seq(Unit)]
    BY <2>1, <2>2
  <2> QED
    BY <1>7, <2>3 DEF ConnectionLost, muxVars
<1> QED
  BY <1>1, <1>2, <1>3, <1>4, <1>5, <1>6, <1>7 DEF Next, MuxStep

\* Every variable has its type, the buffers and streams included.
THEOREM TypeCorrect == Spec => []TypeOK
<1>1. Init => StreamType
  BY ClientConstants DEF Init, StreamType
<1>2. IInv => ControlType
  BY DEF IInv
<1>3. Spec => []StreamType
  BY <1>1, <1>2, NextStreamType, IInvariant, PTL DEF Spec
<1>4. ControlType /\ StreamType => TypeOK
  BY DEF ControlType, StreamType, TypeOK
<1> QED
  BY <1>2, <1>3, <1>4, IInvariant, PTL

\* A session is used while it lives and stopped when it is over, for every
\* number of senders and sessions.
THEOREM SessionLife == Spec => []SessionsSound
BY ConnectionsLive, StopsOnlyWhenEnded, PTL DEF SessionsSound

------------------------------------------------------------------------------
(* The PDUs.                                                               *)

PduSize == HeadSize + BodySize

\* The units of w are those of session s from PDU e on, none left out.
InStep(w, s, e) ==
  \A i \in DOMAIN w : w[i][1] = s /\ i = (w[i][2] - e) * PduSize + w[i][3]

\* A unit is a triple of numbers.
LEMMA UnitIs ==
  ASSUME NEW u \in Unit
  PROVE  /\ u[1] \in Session /\ u[2] \in 1 .. MaxPdu /\ u[3] \in 1 .. PduSize
         /\ u = <<u[1], u[2], u[3]>>
BY DEF Unit, PduSize

LEMMA PduSizeType == PduSize \in Nat /\ PduSize >= 2 /\ HeadSize = 2
BY ClientConstants DEF PduSize, HeadSize

\* Only in the first PDU can a unit be within PduSize of the start.
LEMMA FirstPdu ==
  ASSUME NEW n \in Nat, NEW d \in Int, NEW u \in 1 .. n, NEW k \in 1 .. n,
         k = d * n + u
  PROVE  d = 0 /\ u = k
<1>1. CASE d >= 1
  <2>1. d * n >= n
    BY <1>1
  <2> QED
    BY <2>1
<1>2. CASE d <= -1
  <2>1. d * n <= -n
    BY <1>2
  <2> QED
    BY <2>1
<1>3. CASE d = 0
  BY <1>3
<1> QED
  BY <1>1, <1>2, <1>3

\* So the first PduSize units are the parts of PDU e in order.
LEMMA InStepFirst ==
  ASSUME NEW w \in Seq(Unit), NEW s, NEW e \in Int, InStep(w, s, e), NEW k \in DOMAIN w,
         k <= PduSize
  PROVE  w[k] = <<s, e, k>>
<1>1. PICK u \in Unit : u = w[k]
  OBVIOUS
<1>2. u[1] = s /\ k = (u[2] - e) * PduSize + u[3]
  BY <1>1 DEF InStep
<1>3. /\ u[2] \in Int /\ u[3] \in 1 .. PduSize /\ u = <<u[1], u[2], u[3]>>
      /\ k \in 1 .. PduSize /\ PduSize \in Nat
  BY <1>1, UnitIs, PduSizeType
<1>4. PICK d \in Int : d = u[2] - e
  BY <1>3
<1>5. d = 0 /\ u[3] = k
  BY <1>2, <1>3, <1>4, FirstPdu
<1>6. u[2] = e
  BY <1>3, <1>4, <1>5
<1> QED
  BY <1>1, <1>2, <1>3, <1>5, <1>6

\* Without what follows, without the first PDU, with the next PDU of the server.
LEMMA InStepPrefix ==
  ASSUME NEW u \in Seq(Unit), NEW v \in Seq(Unit), NEW s, NEW e \in Int, InStep(u \o v, s, e)
  PROVE  InStep(u, s, e)
<1>1. \A i \in DOMAIN u : i \in DOMAIN (u \o v) /\ (u \o v)[i] = u[i]
  OBVIOUS
<1> QED
  BY <1>1 DEF InStep

\* The end of a stream in step is in step from a later PDU on.
LEMMA InStepDrop ==
  ASSUME NEW u \in Seq(Unit), NEW v \in Seq(Unit), NEW s, NEW e \in Int, InStep(u \o v, s, e),
         Len(u) = PduSize
  PROVE  InStep(v, s, e + 1)
<1> SUFFICES ASSUME NEW i \in DOMAIN v
             PROVE  v[i][1] = s /\ i = (v[i][2] - (e + 1)) * PduSize + v[i][3]
  BY DEF InStep
<1>0. i \in 1 .. Len(v) /\ PduSize \in Nat
  BY PduSizeType
<1>1. i + PduSize \in DOMAIN (u \o v) /\ (u \o v)[i + PduSize] = v[i]
  BY <1>0, ConcatProperties
<1>2. v[i][1] = s /\ i + PduSize = (v[i][2] - e) * PduSize + v[i][3]
  BY <1>1 DEF InStep
<1>3. v[i] \in Unit
  OBVIOUS
<1>4. v[i][2] \in 1 .. MaxPdu /\ v[i][3] \in 1 .. PduSize /\ MaxPdu \in Nat
  BY <1>3, UnitIs, ClientConstants
<1>5. PICK p \in Int, c \in Int : p = v[i][2] /\ c = v[i][3]
  BY <1>0, <1>4
<1>6. i + PduSize = (p - e) * PduSize + c
  BY <1>2, <1>5
<1>7. i = (p - (e + 1)) * PduSize + c
  BY <1>0, <1>6
<1> QED
  BY <1>2, <1>5, <1>7

Pdu(s, n) == [k \in 1 .. HeadSize + BodySize |-> <<s, n, k>>]

\* A stream in step stays so when its next PDU is appended.
LEMMA InStepSend ==
  ASSUME NEW w \in Seq(Unit), NEW s \in Session, NEW e \in Int, NEW n \in 1 .. MaxPdu,
         InStep(w, s, e), Len(w) = (n - e) * PduSize
  PROVE  /\ InStep(w \o Pdu(s, n), s, e)
         /\ Len(w \o Pdu(s, n)) = (n + 1 - e) * PduSize
<1>0. /\ PduSize \in Nat /\ Len(w) \in Nat /\ n \in Int
      /\ Pdu(s, n) \in Seq(Unit) /\ Len(Pdu(s, n)) = PduSize
      /\ \A k \in 1 .. PduSize : Pdu(s, n)[k] = <<s, n, k>>
  BY PduSizeType, PduType DEF Pdu, PduSize
<1>1. Len(w \o Pdu(s, n)) = (n - e) * PduSize + PduSize
  BY <1>0, ConcatProperties
<1>2. (n - e) * PduSize + PduSize = (n + 1 - e) * PduSize
  BY <1>0
<1>3. ASSUME NEW i \in DOMAIN (w \o Pdu(s, n))
      PROVE  /\ (w \o Pdu(s, n))[i][1] = s
             /\ i = ((w \o Pdu(s, n))[i][2] - e) * PduSize + (w \o Pdu(s, n))[i][3]
  <2>1. i \in 1 .. Len(w) + PduSize
    BY <1>0, ConcatProperties
  <2>2. CASE i \in 1 .. Len(w)
    <3>1. (w \o Pdu(s, n))[i] = w[i] /\ i \in DOMAIN w
      BY <1>0, <2>2
    <3> QED
      BY <3>1 DEF InStep
  <2>3. CASE i > Len(w)
    <3>1. PICK k \in 1 .. PduSize : i = Len(w) + k
      <4>1. i - Len(w) \in 1 .. PduSize /\ i = Len(w) + (i - Len(w))
        BY <1>0, <2>1, <2>3
      <4> QED
        BY <4>1
    <3>2. (w \o Pdu(s, n))[i] = Pdu(s, n)[i - Len(w)]
      BY <1>0, <2>1, <2>3, ConcatProperties
    <3>3. i - Len(w) = k
      BY <1>0, <3>1
    <3>4. (w \o Pdu(s, n))[i] = <<s, n, k>>
      BY <1>0, <3>2, <3>3
    <3> QED
      BY <3>1, <3>4
  <2> QED
    BY <1>0, <2>1, <2>2, <2>3
<1> QED
  BY <1>1, <1>2, <1>3 DEF InStep

------------------------------------------------------------------------------
(* The invariant of the stream.                                            *)

Damaged == \E j \in DOMAIN delivered : Spans(delivered[j])
LastPdu == delivered[Len(delivered)]

\* The PDU of the session that has to be delivered next.
Expected ==
  IF delivered # <<>> /\ LastPdu[1][1] = inst THEN LastPdu[1][2] + 1 ELSE 1

\* All that has left the server on the connection and is not delivered.
Backlog == (recv \o recvBuf) \o stream[inst]

\* As long as nothing is lost, what is assembled begins the backlog, and the
\* backlog is what the server has sent since the last PDU delivered.
OnTrack ==
  /\ Len(recv) <= PduSize /\ (mux # "receive" => Len(recv) < PduSize)
  /\ InStep(Backlog, inst, Expected)
  /\ inst \notin lost => Len(Backlog) = (sent[inst] + 1 - Expected) * PduSize

\* After a connection was lost within a PDU, _biRecv keeps its beginning: the
\* next units are of another session ...
Stale ==
  /\ recv # <<>> /\ recv[1][1] < inst /\ recv[1][3] = 1
  /\ Len(recv) >= HeadSize => recv[2][3] = 2
  /\ Len(recv) < PduSize

\* ... and are mixed with it; it has the magic number and will be delivered.
Mixed == recv # <<>> /\ recv[1][3] = 1 /\ Spans(recv)

\* The buffer is empty between two calls of OnRecvReady, and its units are of
\* the current session.
BufferOwn ==
  /\ mux # "receive" => recvBuf = <<>>
  /\ \A k \in DOMAIN recvBuf : recvBuf[k][1] = inst

LastOwn == delivered # <<>> => LastPdu # <<>> /\ LastPdu[1][1] <= inst

Undamaged == BufferOwn /\ LastOwn /\ (inst # NoInst => OnTrack \/ Stale \/ Mixed)

\* A stream has units of its session only, and none before the connection.
StreamsOwn ==
  \A s \in Session :
     /\ \A k \in DOMAIN stream[s] : stream[s][k][1] = s
     /\ s > inst => stream[s] = <<>> /\ sent[s] = 0

NoneYet == inst = NoInst => recv = <<>> /\ recvBuf = <<>> /\ delivered = <<>>

FInv == StreamsOwn /\ NoneYet /\ (Damaged \/ Undamaged) /\ FramesIntact

\* The mux thread works on the one connection there is.
LEMMA OneConnection ==
  ASSUME IInv
  PROVE  /\ \A s \in muxList \cup live : s = inst /\ inst \in Session
         /\ mux # "idle" => inst \in Session
         /\ inst \in Nat
BY ClientConstants DEF IInv, ControlType, Place, Existing, Registered, MuxLocked

\* The first n units and the rest make up a sequence.
LEMMA FirstRest ==
  ASSUME NEW S, NEW q \in Seq(S), NEW n \in 0 .. Len(q)
  PROVE  /\ First(q, n) \in Seq(S) /\ Rest(q, n) \in Seq(S)
         /\ First(q, n) \o Rest(q, n) = q
         /\ Len(First(q, n)) = n /\ Len(Rest(q, n)) = Len(q) - n
         /\ \A i \in 1 .. n : First(q, n)[i] = q[i]
         /\ \A i \in 1 .. Len(q) - n : Rest(q, n)[i] = q[n + i]
<1>1. First(q, n) \in Seq(S) /\ Rest(q, n) \in Seq(S)
  BY Pieces
<1>2. \A i \in 1 .. Len(q) : q[i] \in S
  OBVIOUS
<1>3. Len(First(q, n)) = n /\ \A i \in 1 .. n : First(q, n)[i] = q[i]
  <2>1. \A i \in 1 .. n : q[i] \in S
    BY <1>2
  <2> QED
    BY <2>1, SubSeqProperties DEF First
<1>4. Len(Rest(q, n)) = Len(q) - n /\ \A i \in 1 .. Len(q) - n : Rest(q, n)[i] = q[n + i]
  <2>1. \A i \in n + 1 .. Len(q) : q[i] \in S
    BY <1>2
  <2>2. /\ Len(Rest(q, n)) = IF n + 1 <= Len(q) THEN Len(q) - (n + 1) + 1 ELSE 0
        /\ \A i \in 1 .. Len(q) - (n + 1) + 1 : Rest(q, n)[i] = q[(n + 1) + i - 1]
    BY <2>1, SubSeqProperties DEF Rest
  <2> QED
    BY <2>2
<1>5. First(q, n) \o Rest(q, n) = q
  <2>1. /\ First(q, n) \o Rest(q, n) \in Seq(S)
        /\ Len(First(q, n) \o Rest(q, n)) = Len(q)
        /\ \A i \in 1 .. Len(q) :
             (First(q, n) \o Rest(q, n))[i] = IF i <= n THEN First(q, n)[i] ELSE Rest(q, n)[i - n]
    BY <1>1, <1>3, <1>4, ConcatProperties
  <2>2. \A i \in 1 .. Len(q) : (First(q, n) \o Rest(q, n))[i] = q[i]
    BY <2>1, <1>3, <1>4
  <2> QED
    BY <2>1, <2>2, SeqEqual
<1> QED
  BY <1>1, <1>3, <1>4, <1>5

\* Concatenations of units.
LEMMA Concat3 ==
  ASSUME NEW a \in Seq(Unit), NEW b \in Seq(Unit), NEW c \in Seq(Unit)
  PROVE  /\ a \o b \in Seq(Unit) /\ b \o c \in Seq(Unit) /\ (a \o b) \o c \in Seq(Unit)
         /\ (a \o b) \o c = a \o (b \o c)
         /\ a \o <<>> = a /\ <<>> \o a = a
<1>1. a \o b \in Seq(Unit)
  BY ConcatProperties
<1>2. b \o c \in Seq(Unit)
  BY ConcatProperties
<1>3. (a \o b) \o c \in Seq(Unit)
  BY <1>1, ConcatProperties
<1>4. (a \o b) \o c = a \o (b \o c)
  BY ConcatAssociative
<1>5. a \o <<>> = a /\ <<>> \o a = a
  BY ConcatEmptySeq
<1> QED
  BY <1>1, <1>2, <1>3, <1>4, <1>5

\* What steps that leave the stream alone preserve.
LEMMA Quiet ==
  ASSUME FInv, UNCHANGED <<recv, recvBuf, stream, sent, delivered, inst, lost>>,
         mux' = mux \/ (mux # "receive" /\ mux' # "receive")
  PROVE  FInv'
<1>1. StreamsOwn' /\ NoneYet' /\ FramesIntact' /\ (Damaged => Damaged')
  BY DEF FInv, StreamsOwn, NoneYet, Damaged, FramesIntact, InOrder, Whole, Spans
<1>2. Expected' = Expected /\ Backlog' = Backlog
  BY DEF Expected, Backlog, LastPdu
<1>3. OnTrack => OnTrack'
  BY <1>2 DEF OnTrack, InStep
<1>4. (Stale => Stale') /\ (Mixed => Mixed')
  BY DEF Stale, Mixed, Spans
<1>5. Undamaged => Undamaged'
  BY <1>3, <1>4 DEF Undamaged, BufferOwn, LastOwn, LastPdu
<1> QED
  BY <1>1, <1>5 DEF FInv

\* The work thread: a new connection starts a new session, with _biRecv as it
\* was left.
LEMMA WorkFrames ==
  ASSUME IInv, StreamType, FInv, WorkStep
  PROVE  FInv'
<1>1. CASE ConnectOut
  <2>1. /\ inst \in Nat /\ inst' = inst + 1 /\ inst' \in Session
        /\ UNCHANGED <<recv, recvBuf, stream, sent, delivered, lost, mux>>
        /\ mux # "receive"
    <3>1. worker = "connect" /\ inst < MaxSession
      BY <1>1 DEF ConnectOut, WorkerAt
    <3>2. mux = "idle"
      BY <3>1 DEF IInv, Place, MuxLocked, Registered
    <3> QED
      BY <1>1, <3>1, <3>2, OneConnection, ClientConstants
         DEF ConnectOut, WorkerAt, mainVars, muxVars, endVars, sendVars, netVars
  <2>2. StreamsOwn' /\ NoneYet' /\ FramesIntact' /\ (Damaged => Damaged')
    BY <2>1 DEF FInv, StreamsOwn, NoneYet, Damaged, FramesIntact, InOrder, Whole, Spans
  <2>3. ASSUME Undamaged PROVE Undamaged'
    <3>1. recvBuf = <<>>
      BY <2>1, <2>3 DEF Undamaged, BufferOwn
    <3>2. BufferOwn'
      BY <2>1, <3>1 DEF BufferOwn
    <3>3. delivered # <<>> => LastPdu # <<>> /\ LastPdu[1][1] <= inst /\ LastPdu[1] \in Unit
      <4>1. delivered # <<>> => LastPdu \in Seq(Unit)
        BY DEF StreamType, LastPdu
      <4> QED
        BY <2>3, <4>1 DEF Undamaged, LastOwn
    <3>4. delivered # <<>> => LastPdu[1][1] \in Int
      BY <3>3, UnitIs, ClientConstants
    <3>5. LastOwn' /\ Expected' = 1
      BY <2>1, <3>3, <3>4 DEF LastOwn, LastPdu, Expected
    <3>6. stream'[inst'] = <<>> /\ sent'[inst'] = 0
      BY <2>1 DEF FInv, StreamsOwn
    <3>7. CASE recv = <<>>
      <4>1. Backlog' = <<>>
        BY <2>1, <3>1, <3>6, <3>7 DEF Backlog
      <4>2. InStep(Backlog, inst, Expected)'
        BY <4>1 DEF InStep
      <4>3. Len(Backlog)' = (sent[inst] + 1 - Expected)' * PduSize
        <5>1. Len(Backlog)' = 0 /\ (sent[inst] + 1 - Expected)' = 0
          BY <3>5, <3>6, <4>1
        <5>2. 0 * PduSize = 0
          BY PduSizeType
        <5> QED
          BY <5>1, <5>2
      <4>4. Len(recv)' < PduSize /\ Len(recv)' <= PduSize
        BY <2>1, <3>7, PduSizeType
      <4>5. OnTrack'
        BY <4>2, <4>3, <4>4 DEF OnTrack
      <4> QED
        BY <3>2, <3>5, <4>5 DEF Undamaged
    <3>8. CASE recv # <<>>
      <4>1. recv \in Seq(Unit) /\ recv[1] \in Unit
        BY <3>8 DEF StreamType
      <4>2. recv[1][1] \in Int
        BY <4>1, UnitIs, ClientConstants
      <4>3. inst # NoInst
        BY <3>8 DEF FInv, NoneYet
      <4>4. CASE OnTrack
        <5>1. Backlog = recv \o stream[inst] /\ stream[inst] \in Seq(Unit)
          <6>1. stream[inst] \in Seq(Unit)
            BY <4>3 DEF StreamType, IInv, ControlType
          <6> QED
            BY <3>1, <4>1, <6>1 DEF Backlog
        <5>2. Expected \in Int
          BY <3>3, UnitIs, ClientConstants DEF Expected
        <5>3. InStep(recv, inst, Expected)
          BY <4>1, <4>4, <5>1, <5>2, InStepPrefix DEF OnTrack
        <5>4. Len(recv) < PduSize /\ 1 \in DOMAIN recv
          BY <2>1, <3>8, <4>1, <4>4 DEF OnTrack
        <5>5. recv[1] = <<inst, Expected, 1>>
          BY <4>1, <5>2, <5>3, <5>4, InStepFirst, PduSizeType
        <5>6. Len(recv) >= HeadSize => recv[2] = <<inst, Expected, 2>>
          BY <4>1, <5>2, <5>3, <5>4, InStepFirst, PduSizeType
        <5>7. Stale'
          BY <2>1, <3>8, <5>4, <5>5, <5>6 DEF Stale
        <5> QED
          BY <3>2, <3>5, <5>7 DEF Undamaged
      <4>5. CASE Stale
        <5>1. Stale'
          BY <2>1, <4>2, <4>5 DEF Stale
        <5> QED
          BY <3>2, <3>5, <5>1 DEF Undamaged
      <4>6. CASE Mixed
        <5>1. Mixed'
          BY <2>1, <4>6 DEF Mixed, Spans
        <5> QED
          BY <3>2, <3>5, <5>1 DEF Undamaged
      <4> QED
        BY <2>3, <4>3, <4>4, <4>5, <4>6 DEF Undamaged
    <3> QED
      BY <3>7, <3>8
  <2> QED
    BY <2>2, <2>3 DEF FInv
<1>2. CASE ~ConnectOut
  <2>1. UNCHANGED <<recv, recvBuf, stream, sent, delivered, inst, lost, mux>>
    BY <1>2 DEF WorkStep, muxVars, netVars, WorkTest, ConnectFail, WorkPublish, WorkRegister,
       WorkInner, WorkWait, WorkCheck, WorkStop, WorkForget, WorkFinish
  <2> QED
    BY <2>1, Quiet
<1> QED
  BY <1>1, <1>2

\* What is being assembled is the beginning of the expected PDU.
LEMMA TrackIs ==
  ASSUME IInv, StreamType, LastOwn, inst \in Session
  PROVE  /\ Expected \in Int /\ sent[inst] \in 0 .. MaxPdu
         /\ recv \in Seq(Unit) /\ recvBuf \in Seq(Unit) /\ stream[inst] \in Seq(Unit)
         /\ recv \o recvBuf \in Seq(Unit) /\ Backlog \in Seq(Unit)
         /\ Backlog = recv \o (recvBuf \o stream[inst])
         /\ OnTrack => \A k \in DOMAIN recv : recv[k] = <<inst, Expected, k>>
<1>1. delivered # <<>> => LastPdu # <<>> /\ LastPdu \in Seq(Unit)
  BY DEF LastOwn, StreamType, LastPdu
<1>2. Expected \in Int
  <2>1. delivered # <<>> => LastPdu[1] \in Unit
    BY <1>1
  <2> QED
    BY <2>1, UnitIs, ClientConstants DEF Expected
<1>3. /\ recv \in Seq(Unit) /\ recvBuf \in Seq(Unit) /\ stream[inst] \in Seq(Unit)
      /\ sent[inst] \in 0 .. MaxPdu
  BY DEF StreamType
<1>4. /\ recv \o recvBuf \in Seq(Unit) /\ Backlog \in Seq(Unit)
      /\ Backlog = recv \o (recvBuf \o stream[inst]) /\ recvBuf \o stream[inst] \in Seq(Unit)
  <2>1. PICK r \in Seq(Unit), b \in Seq(Unit), t \in Seq(Unit) :
          r = recv /\ b = recvBuf /\ t = stream[inst]
    BY <1>3
  <2>2. r \o b \in Seq(Unit) /\ b \o t \in Seq(Unit)
    BY <2>1, Concat3
  <2>3. (r \o b) \o t \in Seq(Unit)
    BY <2>1, Concat3
  <2>4. (r \o b) \o t = r \o (b \o t)
    <3>1. r \in Seq(Unit) /\ b \in Seq(Unit) /\ t \in Seq(Unit)
      BY <2>1
    <3> QED
      BY <3>1, ConcatAssociative
  <2> QED
    BY <2>1, <2>2, <2>3, <2>4 DEF Backlog
<1>5. ASSUME OnTrack, NEW k \in DOMAIN recv PROVE recv[k] = <<inst, Expected, k>>
  <2>1. InStep(recv, inst, Expected)
    BY <1>2, <1>3, <1>4, <1>5, InStepPrefix DEF OnTrack
  <2>2. k <= PduSize
    BY <1>3, <1>5, PduSizeType DEF OnTrack
  <2> QED
    BY <1>2, <1>3, <2>1, <2>2, InStepFirst
<1> QED
  BY <1>2, <1>3, <1>4, <1>5

\* Where the units of the two pieces were in the sequence.
LEMMA SplitPositions ==
  ASSUME NEW S, NEW q \in Seq(S), NEW f \in Seq(S), NEW g \in Seq(S),
         NEW n \in 0 .. Len(q), f = First(q, n), g = Rest(q, n)
  PROVE  /\ \A i \in DOMAIN f : i \in DOMAIN q /\ f[i] = q[i]
         /\ \A i \in DOMAIN g : n + i \in DOMAIN q /\ g[i] = q[n + i]
<1>1. PICK m \in Nat : m = Len(q) /\ n \in 0 .. m
  OBVIOUS
<1>2. DOMAIN f = 1 .. n /\ DOMAIN g = 1 .. m - n /\ DOMAIN q = 1 .. m
  BY <1>1, FirstRest
<1>3. \A i \in 1 .. n : i \in 1 .. m
  BY <1>1
<1>4. \A i \in 1 .. m - n : n + i \in 1 .. m
  BY <1>1
<1>5. \A i \in 1 .. n : f[i] = q[i]
  BY FirstRest
<1>6. \A i \in 1 .. m - n : g[i] = q[n + i]
  BY <1>1, FirstRest
<1>7. \A i \in DOMAIN f : i \in DOMAIN q /\ f[i] = q[i]
  BY <1>2, <1>3, <1>5
<1>8. \A i \in DOMAIN g : n + i \in DOMAIN q /\ g[i] = q[n + i]
  BY <1>2, <1>4, <1>6
<1> QED
  BY <1>7, <1>8

\* How much of the PDU is missing, when its first units are of one session.
LEMMA MissingIs ==
  ASSUME StreamType
  PROVE  /\ Missing \in Int
         /\ (Len(recv) >= HeadSize => recv[2][3] = 2) =>
               Missing = IF HeaderRead THEN PduSize - Len(recv) ELSE HeadSize - Len(recv)
<1>1. Len(recv) \in Nat /\ HeadSize \in Nat /\ BodySize \in Nat /\ Garbage \in Nat
  BY ClientConstants DEF StreamType, HeadSize
<1>2. WBodySize \in Nat
  BY <1>1 DEF WBodySize
<1>3. Missing \in Int
  BY <1>1, <1>2 DEF Missing
<1>4. ASSUME Len(recv) >= HeadSize => recv[2][3] = 2
      PROVE  Missing = IF HeaderRead THEN PduSize - Len(recv) ELSE HeadSize - Len(recv)
  BY <1>1, <1>4 DEF Missing, HeaderRead, WBodySize, PduSize
<1> QED
  BY <1>3, <1>4

\* Receive moves the beginning of the stream to the buffer.
LEMMA ReceiveFrames ==
  ASSUME IInv, StreamType, FInv, Receive
  PROVE  FInv'
<1>1. /\ mux = "idle" /\ mux' = "receive"
      /\ UNCHANGED <<recv, sent, delivered, inst, lost>>
  BY DEF Receive, workVars
<1>2. PICK s \in muxList : \E n \in 1 .. Len(stream[s]) :
         recvBuf' = First(stream[s], n) /\ stream' = [stream EXCEPT ![s] = Rest(@, n)]
  BY DEF Receive
<1>3. s = inst /\ inst \in Session
  BY <1>2, OneConnection
<1>4. PICK n \in 1 .. Len(stream[inst]) :
         recvBuf' = First(stream[inst], n) /\ stream' = [stream EXCEPT ![inst] = Rest(@, n)]
  BY <1>2, <1>3
<1>5. stream \in [Session -> Seq(Unit)] /\ stream[inst] \in Seq(Unit) /\ n \in 0 .. Len(stream[inst])
  BY <1>3, <1>4 DEF StreamType
<1>6. PICK f \in Seq(Unit), g \in Seq(Unit) :
        f = First(stream[inst], n) /\ g = Rest(stream[inst], n)
  BY <1>5, FirstRest
<1>10. /\ f \o g = stream[inst]
       /\ \A i \in DOMAIN f : i \in DOMAIN stream[inst] /\ f[i] = stream[inst][i]
       /\ \A i \in DOMAIN g : n + i \in DOMAIN stream[inst] /\ g[i] = stream[inst][n + i]
  <2>1. f \o g = stream[inst]
    BY <1>5, <1>6, FirstRest
  <2>2. /\ \A i \in DOMAIN f : i \in DOMAIN stream[inst] /\ f[i] = stream[inst][i]
        /\ \A i \in DOMAIN g : n + i \in DOMAIN stream[inst] /\ g[i] = stream[inst][n + i]
    BY <1>5, <1>6, SplitPositions
  <2> QED
    BY <2>1, <2>2
<1>11. /\ recvBuf' = f /\ stream'[inst] = g
       /\ \A r \in Session : r # inst => stream'[r] = stream[r]
  BY <1>3, <1>4, <1>5, <1>6
<1>7. StreamsOwn' /\ NoneYet' /\ FramesIntact' /\ (Damaged => Damaged')
  <2>1. \A k \in DOMAIN g : g[k][1] = inst
    BY <1>3, <1>10 DEF FInv, StreamsOwn
  <2>2. StreamsOwn'
    BY <1>1, <1>3, <1>11, <2>1 DEF FInv, StreamsOwn
  <2>3. NoneYet'
    BY <1>1, <1>3 DEF NoneYet
  <2> QED
    BY <1>1, <2>2, <2>3 DEF FInv, Damaged, FramesIntact, InOrder, Whole, Spans
<1>8. ASSUME Undamaged PROVE Undamaged'
  <2>1. recvBuf = <<>>
    BY <1>1, <1>8 DEF Undamaged, BufferOwn
  <2>2. BufferOwn'
    <3>1. \A k \in DOMAIN f : f[k][1] = inst
      BY <1>3, <1>10 DEF FInv, StreamsOwn
    <3> QED
      BY <1>1, <1>11, <3>1 DEF BufferOwn
  <2>3. LastOwn' /\ Expected' = Expected
    BY <1>1, <1>8 DEF Undamaged, LastOwn, LastPdu, Expected
  <2>4. Backlog' = Backlog
    <3>1. recv \in Seq(Unit)
      BY DEF StreamType
    <3>2. Backlog = recv \o stream[inst]
      BY <1>5, <2>1, <3>1, Concat3 DEF Backlog
    <3>3. Backlog' = (recv \o f) \o g
      BY <1>1, <1>11 DEF Backlog
    <3>4. (recv \o f) \o g = recv \o (f \o g)
      BY <1>6, <3>1, Concat3
    <3> QED
      BY <1>10, <3>2, <3>3, <3>4
  <2>5. OnTrack => OnTrack'
    BY <1>1, <2>3, <2>4 DEF OnTrack, InStep
  <2>6. (Stale => Stale') /\ (Mixed => Mixed')
    BY <1>1 DEF Stale, Mixed, Spans
  <2> QED
    BY <1>1, <1>8, <2>2, <2>3, <2>5, <2>6 DEF Undamaged
<1> QED
  BY <1>7, <1>8 DEF FInv

\* Fill moves the beginning of the buffer to the PDU: of the same session, or
\* of another one, which is then mixed with the first.
LEMMA FillFrames ==
  ASSUME IInv, StreamType, FInv, Fill
  PROVE  FInv'
<1>1. /\ mux = "receive" /\ mux' = "receive" /\ Missing > 0 /\ recvBuf # <<>>
      /\ UNCHANGED <<stream, sent, delivered, inst, lost>> /\ inst \in Session
  BY OneConnection DEF Fill, workVars, netVars
<1>2. PICK n \in Nat : n = Least(Missing, Len(recvBuf)) /\ n \in 1 .. Len(recvBuf) /\ n <= Missing
  <2>1. Missing \in Int /\ Missing > 0 /\ Len(recvBuf) \in Nat /\ Len(recvBuf) > 0
    BY <1>1, MissingIs DEF StreamType
  <2> QED
    BY <2>1 DEF Least
<1>3. recv' = recv \o First(recvBuf, n) /\ recvBuf' = Rest(recvBuf, n)
  BY <1>2 DEF Fill
<1>4. /\ recv \in Seq(Unit) /\ recvBuf \in Seq(Unit) /\ stream[inst] \in Seq(Unit)
      /\ n \in 0 .. Len(recvBuf)
  BY <1>1, <1>2 DEF StreamType
<1>5. PICK f \in Seq(Unit), g \in Seq(Unit) : f = First(recvBuf, n) /\ g = Rest(recvBuf, n)
  BY <1>4, FirstRest
<1>10. /\ recv' = recv \o f /\ recvBuf' = g /\ f \o g = recvBuf
       /\ Len(f) = n /\ Len(g) = Len(recvBuf) - n
       /\ \A i \in 1 .. n : f[i] = recvBuf[i]
       /\ \A i \in 1 .. Len(recvBuf) - n : g[i] = recvBuf[n + i]
  BY <1>3, <1>4, <1>5, FirstRest
<1>6. /\ Len(recv') = Len(recv) + n /\ recv' # <<>>
      /\ \A k \in DOMAIN recv : k \in DOMAIN recv' /\ recv'[k] = recv[k]
      /\ Len(recv) + 1 \in DOMAIN recv' /\ recv'[Len(recv) + 1] = recvBuf[1]
  <2>1. /\ recv' \in Seq(Unit) /\ Len(recv') = Len(recv) + n
        /\ \A i \in 1 .. Len(recv) + n :
             recv'[i] = IF i <= Len(recv) THEN recv[i] ELSE f[i - Len(recv)]
    <3>1. PICK r \in Seq(Unit) : r = recv
      BY <1>4
    <3>2. /\ r \o f \in Seq(Unit) /\ Len(r \o f) = Len(r) + Len(f)
          /\ \A i \in 1 .. Len(r) + Len(f) :
               (r \o f)[i] = IF i <= Len(r) THEN r[i] ELSE f[i - Len(r)]
      BY <1>5, <3>1, ConcatProperties
    <3> QED
      BY <1>10, <3>1, <3>2
  <2>2. Len(recv) \in Nat /\ n >= 1 /\ n \in Nat /\ (Len(recv) + 1) - Len(recv) = 1
    BY <1>2, <1>4
  <2>3. recv'[Len(recv) + 1] = f[1] /\ f[1] = recvBuf[1]
    BY <1>10, <2>1, <2>2
  <2>4. \A k \in 1 .. Len(recv) : k \in 1 .. Len(recv') /\ recv'[k] = recv[k]
    BY <2>1, <2>2
  <2> QED
    BY <1>4, <2>1, <2>2, <2>3, <2>4
<1>7. StreamsOwn' /\ NoneYet' /\ FramesIntact' /\ (Damaged => Damaged')
  <2>1. NoneYet'
    BY <1>1 DEF NoneYet
  <2> QED
    BY <1>1, <2>1 DEF FInv, StreamsOwn, Damaged, FramesIntact, InOrder, Whole, Spans
<1>8. ASSUME Undamaged PROVE Undamaged'
  <2>1. BufferOwn'
    <3>1. \A k \in DOMAIN g : n + k \in DOMAIN recvBuf /\ g[k] = recvBuf[n + k]
      BY <1>4, <1>5, SplitPositions
    <3>2. \A k \in DOMAIN g : g[k][1] = inst
      BY <1>8, <3>1 DEF Undamaged, BufferOwn
    <3> QED
      BY <1>1, <1>10, <3>2 DEF BufferOwn
  <2>2. LastOwn' /\ Expected' = Expected /\ LastOwn
    BY <1>1, <1>8 DEF Undamaged, LastOwn, LastPdu, Expected
  <2>3. CASE OnTrack
    <3>1. Backlog' = Backlog
      <4>1. (recv \o f) \o g = recv \o (f \o g)
        BY <1>4, <1>5, Concat3
      <4>2. recv' \o recvBuf' = recv \o recvBuf
        BY <1>10, <4>1
      <4> QED
        BY <1>1, <4>2 DEF Backlog
    <3>2. \A k \in DOMAIN recv : recv[k] = <<inst, Expected, k>>
      BY <1>1, <2>2, <2>3, TrackIs
    <3>3. Len(recv) >= HeadSize => recv[2][3] = 2
      BY <1>4, <3>2, PduSizeType
    <3>4. Len(recv') <= PduSize
      BY <1>2, <1>4, <1>6, <3>3, MissingIs, PduSizeType
    <3>5. OnTrack'
      BY <1>1, <2>2, <2>3, <3>1, <3>4 DEF OnTrack, InStep
    <3> QED
      BY <2>1, <2>2, <3>5 DEF Undamaged
  <2>4. CASE Stale
    <3>1. /\ recv # <<>> /\ recv[1][1] < inst /\ recv[1][3] = 1
          /\ 1 \in DOMAIN recv /\ recv[1] \in Unit
      BY <1>4, <2>4 DEF Stale
    <3>2. recvBuf[1][1] = inst
      BY <1>1, <1>4, <1>8 DEF Undamaged, BufferOwn
    <3>3. recv[1][1] \in Int /\ inst \in Int
      BY <1>1, <3>1, UnitIs, ClientConstants
    <3>4. Spans(recv')
      BY <1>6, <3>1, <3>2, <3>3 DEF Spans
    <3>5. Mixed'
      BY <1>6, <3>1, <3>4 DEF Mixed, Spans
    <3> QED
      BY <2>1, <2>2, <3>5 DEF Undamaged
  <2>5. CASE Mixed
    <3>1. recv # <<>> /\ recv[1][3] = 1 /\ 1 \in DOMAIN recv
      BY <1>4, <2>5 DEF Mixed
    <3>2. Mixed'
      BY <1>6, <2>5, <3>1 DEF Mixed, Spans
    <3> QED
      BY <2>1, <2>2, <3>2 DEF Undamaged
  <2> QED
    BY <1>1, <1>8, <2>3, <2>4, <2>5 DEF Undamaged
<1> QED
  BY <1>7, <1>8 DEF FInv

\* A call of OnRecvReady ends with the PDU incomplete and nothing left over.
LEMMA DoneFrames ==
  ASSUME IInv, StreamType, FInv, ReceiveDone
  PROVE  FInv'
<1>1. /\ mux = "receive" /\ mux' = "idle" /\ Missing > 0 /\ recvBuf = <<>>
      /\ UNCHANGED <<recv, recvBuf, stream, sent, delivered, inst, lost>> /\ inst \in Session
  BY OneConnection DEF ReceiveDone, workVars, netVars
<1>2. StreamsOwn' /\ NoneYet' /\ FramesIntact' /\ (Damaged => Damaged')
  BY <1>1 DEF FInv, StreamsOwn, NoneYet, Damaged, FramesIntact, InOrder, Whole, Spans
<1>3. ASSUME Undamaged PROVE Undamaged'
  <2>1. BufferOwn' /\ LastOwn' /\ LastOwn /\ Expected' = Expected /\ Backlog' = Backlog
    BY <1>1, <1>3 DEF Undamaged, BufferOwn, LastOwn, LastPdu, Expected, Backlog
  <2>2. CASE OnTrack
    <3>1. /\ recv \in Seq(Unit)
          /\ \A k \in DOMAIN recv : recv[k] = <<inst, Expected, k>>
      BY <1>1, <2>1, <2>2, TrackIs
    <3>2. Len(recv) >= HeadSize => recv[2][3] = 2
      BY <3>1, PduSizeType
    <3>3. Len(recv) < PduSize
      BY <1>1, <3>1, <3>2, MissingIs, PduSizeType DEF HeaderRead
    <3>4. OnTrack'
      BY <1>1, <2>1, <2>2, <3>3 DEF OnTrack, InStep
    <3> QED
      BY <2>1, <3>4 DEF Undamaged
  <2>3. (Stale => Stale') /\ (Mixed => Mixed')
    BY <1>1 DEF Stale, Mixed, Spans
  <2> QED
    BY <1>1, <1>3, <2>1, <2>2, <2>3 DEF Undamaged
<1> QED
  BY <1>2, <1>3 DEF FInv

\* Without damage the buffer that a failing Recv empties is empty, and no magic
\* number is bad.
LEMMA SuspendFrames ==
  ASSUME IInv, StreamType, FInv, ReceiveFails \/ BadMagic
  PROVE  FInv'
<1>1. /\ mux' = "suspend" /\ UNCHANGED <<recv, stream, sent, delivered, inst, lost>>
      /\ inst \in Session
  BY OneConnection DEF ReceiveFails, BadMagic, workVars, netVars
<1>2. StreamsOwn' /\ NoneYet' /\ FramesIntact' /\ (Damaged => Damaged')
  BY <1>1 DEF FInv, StreamsOwn, NoneYet, Damaged, FramesIntact, InOrder, Whole, Spans
<1>3. ASSUME Undamaged PROVE Undamaged'
  <2>1. CASE ReceiveFails
    <3>1. mux = "idle" /\ recvBuf' = <<>> /\ recvBuf = <<>>
      BY <1>3, <2>1 DEF ReceiveFails, Undamaged, BufferOwn
    <3>2. UNCHANGED <<recv, recvBuf, stream, sent, delivered, inst, lost>>
      BY <1>1, <3>1
    <3>3. BufferOwn' /\ LastOwn' /\ Expected' = Expected /\ Backlog' = Backlog
      BY <1>1, <1>3, <3>1, <3>2
         DEF Undamaged, BufferOwn, LastOwn, LastPdu, Expected, Backlog
    <3>4. OnTrack => OnTrack'
      BY <1>1, <3>1, <3>2, <3>3 DEF OnTrack, InStep
    <3>5. (Stale => Stale') /\ (Mixed => Mixed')
      BY <3>2 DEF Stale, Mixed, Spans
    <3> QED
      BY <1>1, <1>3, <3>3, <3>4, <3>5 DEF Undamaged
  <2>2. CASE BadMagic
    <3>1. recv \in Seq(Unit) /\ Len(recv) >= HeadSize /\ recv[1][3] # 1
      BY <2>2 DEF BadMagic, HeaderRead, MagicGood, StreamType
    <3>2. OnTrack
      BY <1>1, <1>3, <3>1 DEF Undamaged, Stale, Mixed
    <3>3. recv[1] = <<inst, Expected, 1>>
      BY <1>1, <1>3, <3>1, <3>2, TrackIs, PduSizeType DEF Undamaged
    <3> QED
      BY <3>1, <3>3
  <2> QED
    BY <2>1, <2>2
<1> QED
  BY <1>2, <1>3 DEF FInv

\* One more PDU is delivered: the next of its session, one that spans two, or
\* one after the damage.
LEMMA OneDelivered ==
  ASSUME StreamType, FramesIntact, delivered' = Append(delivered, recv),
         \/ /\ Whole(recv)
            /\ IF delivered # <<>> /\ LastPdu[1][1] = recv[1][1]
                 THEN recv[1][2] = LastPdu[1][2] + 1
                 ELSE recv[1][2] = 1
         \/ Spans(recv)
         \/ Damaged
  PROVE  FramesIntact' /\ (Damaged => Damaged') /\ (Spans(recv) => Damaged')
<1>1. PICK n \in Nat : n = Len(delivered)
  BY DEF StreamType
<1>2. /\ delivered \in Seq(Seq(Unit)) /\ recv \in Seq(Unit) /\ delivered' \in Seq(Seq(Unit))
      /\ Len(delivered') = n + 1 /\ delivered'[n + 1] = recv
      /\ \A i \in 1 .. n : delivered'[i] = delivered[i]
      /\ DOMAIN delivered = 1 .. n /\ DOMAIN delivered' = 1 .. n + 1
  BY <1>1, AppendProperties DEF StreamType
<1>3. (Damaged => Damaged') /\ (Spans(recv) => Damaged')
  <2>1. ASSUME NEW j \in 1 .. n, Spans(delivered[j]) PROVE Damaged'
    <3>1. j \in 1 .. n + 1 /\ Spans(delivered'[j])
      BY <1>2, <2>1
    <3> QED
      BY <1>2, <3>1 DEF Damaged, Spans
  <2>2. ASSUME Spans(recv) PROVE Damaged'
    <3>1. n + 1 \in 1 .. n + 1 /\ Spans(delivered'[n + 1])
      BY <1>1, <1>2, <2>2
    <3> QED
      BY <1>2, <3>1 DEF Damaged, Spans
  <2> QED
    BY <1>2, <2>1, <2>2 DEF Damaged
<1>4. ASSUME NEW i \in 1 .. n
      PROVE  InOrder(i)' \/ \E j \in 1 .. i : Spans(delivered'[j])
  <2>1. InOrder(i) \/ \E j \in 1 .. i : Spans(delivered[j])
    BY <1>2 DEF FramesIntact
  <2>2. \A j \in 1 .. i : delivered'[j] = delivered[j]
    BY <1>1, <1>2
  <2>3. i > 1 => i - 1 \in 1 .. i
    OBVIOUS
  <2>4. delivered'[i] = delivered[i] /\ (i > 1 => delivered'[i - 1] = delivered[i - 1])
    BY <1>2, <2>2, <2>3
  <2>5. InOrder(i) => InOrder(i)'
    BY <2>4 DEF InOrder, Whole
  <2>6. \A j \in 1 .. i : Spans(delivered[j]) => Spans(delivered'[j])
    BY <2>2
  <2> QED
    BY <2>1, <2>5, <2>6
<1>5. InOrder(n + 1)' \/ \E j \in 1 .. n + 1 : Spans(delivered'[j])
  <2>1. CASE Spans(recv)
    BY <1>1, <1>2, <2>1
  <2>2. CASE Damaged
    <3>1. PICK j \in 1 .. n : Spans(delivered[j])
      BY <1>2, <2>2 DEF Damaged
    <3>2. j \in 1 .. n + 1 /\ Spans(delivered'[j])
      BY <1>2, <3>1
    <3> QED
      BY <3>2
  <2>3. CASE /\ Whole(recv)
             /\ IF delivered # <<>> /\ LastPdu[1][1] = recv[1][1]
                  THEN recv[1][2] = LastPdu[1][2] + 1
                  ELSE recv[1][2] = 1
    <3>1. (n + 1) - 1 = n /\ (n + 1 > 1 <=> delivered # <<>>)
      BY <1>1, <1>2
    <3>2. delivered # <<>> => delivered'[n] = LastPdu
      BY <1>1, <1>2 DEF LastPdu
    <3> QED
      BY <1>2, <2>3, <3>1, <3>2 DEF InOrder, Whole
  <2> QED
    BY <2>1, <2>2, <2>3
<1>6. \A i \in 1 .. n + 1 : i \in 1 .. n \/ i = n + 1
  BY <1>1
<1>7. FramesIntact'
  BY <1>2, <1>4, <1>5, <1>6 DEF FramesIntact, Spans
<1> QED
  BY <1>3, <1>7

\* Deliver: on track the whole expected PDU, mixed the one that spans.
LEMMA DeliverFrames ==
  ASSUME IInv, StreamType, FInv, Deliver
  PROVE  FInv'
<1>1. /\ mux = "receive" /\ mux' = "receive" /\ inst \in Session /\ inst \in Nat
      /\ HeaderRead /\ MagicGood /\ Missing <= 0
      /\ delivered' = Append(delivered, recv) /\ recv' = <<>>
      /\ UNCHANGED <<recvBuf, stream, sent, inst, lost>>
  BY OneConnection DEF Deliver, workVars, netVars
<1>2. StreamsOwn' /\ NoneYet'
  BY <1>1 DEF FInv, StreamsOwn, NoneYet
<1>3. recv \in Seq(Unit) /\ Len(recv) >= HeadSize
  BY <1>1 DEF HeaderRead, StreamType
<1>4. CASE Damaged
  BY <1>1, <1>2, <1>4, OneDelivered DEF FInv
<1>5. CASE Spans(recv)
  BY <1>1, <1>2, <1>5, OneDelivered DEF FInv
<1>6. ASSUME Undamaged, Stale PROVE FALSE
  <2>1. Missing = PduSize - Len(recv) /\ Len(recv) < PduSize
    BY <1>1, <1>6, MissingIs DEF Stale
  <2> QED
    BY <1>1, <1>3, <2>1, PduSizeType
<1>7. ASSUME Undamaged, OnTrack PROVE FInv'
  <2>1. LastOwn
    BY <1>7 DEF Undamaged
  <2>2. /\ \A k \in DOMAIN recv : recv[k] = <<inst, Expected, k>>
        /\ Expected \in Int /\ sent[inst] \in 0 .. MaxPdu
        /\ recvBuf \in Seq(Unit) /\ stream[inst] \in Seq(Unit) /\ Backlog \in Seq(Unit)
        /\ Backlog = recv \o (recvBuf \o stream[inst])
    BY <1>1, <1>7, <2>1, TrackIs
  <2>3. recv[1] = <<inst, Expected, 1>> /\ recv[2] = <<inst, Expected, 2>> /\ recv # <<>>
    BY <1>3, <2>2, PduSizeType
  <2>4. Len(recv) = PduSize
    <3>1. Missing = PduSize - Len(recv)
      BY <1>1, <2>3, MissingIs
    <3>2. Len(recv) <= PduSize
      BY <1>7 DEF OnTrack
    <3> QED
      BY <1>1, <1>3, <3>1, <3>2, PduSizeType
  <2>5. Whole(recv)
    BY <1>3, <2>2, <2>3, <2>4 DEF Whole, PduSize
  <2>6. IF delivered # <<>> /\ LastPdu[1][1] = recv[1][1]
          THEN recv[1][2] = LastPdu[1][2] + 1
          ELSE recv[1][2] = 1
    BY <2>3 DEF Expected
  <2>7. FramesIntact'
    BY <1>1, <2>5, <2>6, OneDelivered DEF FInv
  <2>8. delivered' # <<>> /\ LastPdu' = recv
    BY <1>1, <1>3, AppendProperties DEF StreamType, LastPdu
  <2>9. Expected' = Expected + 1
    BY <1>1, <2>3, <2>8 DEF Expected
  <2>10. LastOwn' /\ BufferOwn'
    BY <1>1, <1>7, <2>3, <2>8 DEF Undamaged, BufferOwn, LastOwn
  <2>11. PICK b \in Seq(Unit), t \in Seq(Unit), v \in Seq(Unit) :
            b = recvBuf /\ t = stream[inst] /\ v = b \o t
    <3>1. \A b \in Seq(Unit), t \in Seq(Unit) : b \o t \in Seq(Unit)
      BY Concat3
    <3> QED
      BY <2>2, <3>1
  <2>12. Backlog = recv \o v /\ Backlog' = v
    <3>1. Backlog' = (<<>> \o b) \o t
      BY <1>1, <2>11 DEF Backlog
    <3>2. <<>> \o b = b
      BY <2>11, ConcatEmptySeq
    <3> QED
      BY <2>2, <2>11, <3>1, <3>2
  <2>13. InStep(v, inst, Expected + 1)
    <3>1. v \in Seq(Unit)
      BY <2>11
    <3>2. InStep(recv \o v, inst, Expected)
      BY <1>7, <2>12 DEF OnTrack
    <3> QED
      BY <1>3, <2>2, <2>4, <3>1, <3>2, InStepDrop
  <2>14. inst \notin lost => Len(v) = (sent[inst] + 1 - (Expected + 1)) * PduSize
    <3>1. Len(recv \o v) = PduSize + Len(v) /\ Len(v) \in Nat
      <4>1. PICK r \in Seq(Unit) : r = recv
        BY <1>3
      <4>2. Len(r \o v) = Len(r) + Len(v) /\ Len(v) \in Nat
        BY <2>11, <4>1, ConcatProperties
      <4> QED
        BY <2>4, <4>1, <4>2
    <3>0. PICK m \in Int, e \in Int : m = sent[inst] /\ e = Expected
      BY <2>2, ClientConstants
    <3>2. PICK x \in Int : x = sent[inst] + 1 - Expected
      BY <3>0
    <3>3. inst \notin lost => PduSize + Len(v) = x * PduSize
      BY <1>7, <2>12, <3>1, <3>2 DEF OnTrack
    <3>4. (x - 1) * PduSize = x * PduSize - PduSize /\ x * PduSize \in Int
      BY PduSizeType
    <3>5. sent[inst] + 1 - (Expected + 1) = x - 1
      <4>1. x = m + 1 - e
        BY <3>0, <3>2
      <4>2. m + 1 - (e + 1) = x - 1
        BY <4>1
      <4> QED
        BY <3>0, <4>2
    <3>6. inst \notin lost => Len(v) = (x - 1) * PduSize
      BY <3>1, <3>3, <3>4, PduSizeType
    <3> QED
      BY <3>5, <3>6
  <2>15. OnTrack'
    <3>1. InStep(Backlog, inst, Expected)'
      BY <1>1, <2>9, <2>12, <2>13 DEF InStep
    <3>2. Len(recv') = 0 /\ Len(recv') <= PduSize
      BY <1>1, PduSizeType
    <3> QED
      BY <1>1, <2>9, <2>12, <2>14, <3>1, <3>2 DEF OnTrack
  <2> QED
    BY <1>2, <2>7, <2>10, <2>15 DEF FInv, Undamaged
<1> QED
  BY <1>1, <1>4, <1>5, <1>6, <1>7 DEF FInv, Undamaged, Mixed

\* The server sends the next PDU.
LEMMA SendFrames ==
  ASSUME IInv, StreamType, FInv, NEW s \in Session, ServerSend(s)
  PROVE  FInv'
<1>1. /\ s = inst /\ inst \in Session /\ inst \notin lost /\ sent[inst] < MaxPdu
      /\ UNCHANGED <<recv, recvBuf, delivered, inst, lost, mux>>
      /\ sent' = [sent EXCEPT ![inst] = @ + 1]
      /\ stream' = [stream EXCEPT ![inst] = @ \o Pdu(inst, sent[inst] + 1)]
  BY OneConnection DEF ServerSend, workVars, muxVars, Pdu
<1>2. /\ stream \in [Session -> Seq(Unit)] /\ sent \in [Session -> 0 .. MaxPdu]
      /\ MaxPdu \in Nat /\ sent[inst] \in 0 .. MaxPdu
  BY <1>1, ClientConstants DEF StreamType
<1>3. PICK n \in 1 .. MaxPdu : n = sent[inst] + 1
  <2>1. sent[inst] + 1 \in 1 .. MaxPdu
    BY <1>1, <1>2
  <2> QED
    BY <2>1
<1>4. PICK p \in Seq(Unit) : p = Pdu(inst, n)
  BY <1>1, PduType DEF Pdu
<1>5. /\ stream'[inst] = stream[inst] \o p /\ sent'[inst] = n
      /\ \A r \in Session : r # inst => stream'[r] = stream[r] /\ sent'[r] = sent[r]
  BY <1>1, <1>2, <1>3, <1>4
<1>6. PICK t \in Seq(Unit) : t = stream[inst]
  BY <1>1, <1>2
<1>7. StreamsOwn'
  <2>1. \A k \in DOMAIN p : p[k][1] = inst
    BY <1>4 DEF Pdu
  <2>2. \A k \in DOMAIN t : t[k][1] = inst
    BY <1>1, <1>6 DEF FInv, StreamsOwn
  <2>3. \A k \in DOMAIN (t \o p) : (t \o p)[k][1] = inst
    <3>1. /\ DOMAIN (t \o p) = 1 .. Len(t) + Len(p)
          /\ \A k \in 1 .. Len(t) + Len(p) :
               (t \o p)[k] = IF k <= Len(t) THEN t[k] ELSE p[k - Len(t)]
      BY <1>4, <1>6, ConcatProperties
    <3>2. \A k \in 1 .. Len(t) + Len(p) :
             IF k <= Len(t) THEN k \in DOMAIN t ELSE k - Len(t) \in DOMAIN p
      BY <1>4, <1>6
    <3> QED
      BY <2>1, <2>2, <3>1, <3>2
  <2>4. ASSUME NEW r \in Session
        PROVE  /\ \A k \in DOMAIN stream'[r] : stream'[r][k][1] = r
               /\ r > inst => stream'[r] = <<>> /\ sent'[r] = 0
    <3>1. CASE r = inst
      <4>1. ~(r > inst)
        BY <1>1, <3>1, ClientConstants
      <4>2. stream'[r] = t \o p
        BY <1>5, <1>6, <3>1
      <4> QED
        BY <2>3, <3>1, <4>1, <4>2
    <3>2. CASE r # inst
      BY <1>5, <3>2 DEF FInv, StreamsOwn
    <3> QED
      BY <3>1, <3>2
  <2> QED
    BY <1>1, <2>4 DEF StreamsOwn
<1>8. NoneYet' /\ FramesIntact' /\ (Damaged => Damaged')
  BY <1>1 DEF FInv, NoneYet, Damaged, FramesIntact, InOrder, Whole, Spans
<1>9. ASSUME Undamaged PROVE Undamaged'
  <2>1. BufferOwn' /\ LastOwn' /\ LastOwn /\ Expected' = Expected
    BY <1>1, <1>9 DEF Undamaged, BufferOwn, LastOwn, LastPdu, Expected
  <2>2. PICK w \in Seq(Unit), e \in Int, rb \in Seq(Unit) :
          w = Backlog /\ e = Expected /\ rb = recv \o recvBuf
    BY <1>1, <2>1, TrackIs
  <2>3. w = rb \o t /\ Backlog' = rb \o (t \o p)
    BY <1>1, <1>5, <1>6, <2>2 DEF Backlog
  <2>4. Backlog' = w \o p
    <3>1. rb \in Seq(Unit) /\ t \in Seq(Unit) /\ p \in Seq(Unit)
      BY <1>4, <1>6, <2>2
    <3>2. (rb \o t) \o p = rb \o (t \o p)
      BY <3>1, ConcatAssociative
    <3> QED
      BY <2>3, <3>2
  <2>5. CASE OnTrack
    <3>1. InStep(w, inst, e) /\ Len(w) = (n - e) * PduSize
      <4>1. InStep(Backlog, inst, Expected)
        BY <2>5 DEF OnTrack
      <4>2. Len(Backlog) = (sent[inst] + 1 - Expected) * PduSize
        BY <1>1, <2>5 DEF OnTrack
      <4>3. InStep(w, inst, e)
        BY <2>2, <4>1
      <4>4. Len(w) = (n - e) * PduSize
        <5>1. PICK m \in Int : m = sent[inst]
          BY <1>2
        <5>2. n = m + 1
          BY <1>3, <5>1
        <5>3. Len(w) = (m + 1 - e) * PduSize
          BY <2>2, <4>2, <5>1
        <5> QED
          BY <5>2, <5>3
      <4> QED
        BY <4>3, <4>4
    <3>2. InStep(w \o p, inst, e) /\ Len(w \o p) = (n + 1 - e) * PduSize
      BY <1>1, <1>4, <2>2, <3>1, InStepSend
    <3>3. InStep(Backlog, inst, Expected)'
      BY <1>1, <2>1, <2>2, <2>4, <3>2 DEF InStep
    <3>4. OnTrack'
      BY <1>1, <1>5, <2>1, <2>2, <2>4, <2>5, <3>2, <3>3 DEF OnTrack
    <3> QED
      BY <2>1, <3>4 DEF Undamaged
  <2>6. (Stale => Stale') /\ (Mixed => Mixed')
    BY <1>1 DEF Stale, Mixed, Spans
  <2> QED
    BY <1>1, <1>9, <2>1, <2>5, <2>6 DEF Undamaged
<1> QED
  BY <1>7, <1>8, <1>9 DEF FInv

\* What is lost with a connection is the end of the backlog.
LEMMA LostFrames ==
  ASSUME IInv, StreamType, FInv, NEW s \in Session, ConnectionLost(s)
  PROVE  FInv'
<1>1. /\ s = inst /\ inst \in Session /\ inst \in lost'
      /\ UNCHANGED <<recv, recvBuf, delivered, sent, inst, mux>>
  BY OneConnection DEF ConnectionLost, workVars, muxVars
<1>2. PICK n \in 0 .. Len(stream[inst]) : stream' = [stream EXCEPT ![inst] = First(@, n)]
  BY <1>1 DEF ConnectionLost
<1>3. stream \in [Session -> Seq(Unit)] /\ stream[inst] \in Seq(Unit)
  BY <1>1 DEF StreamType
<1>4. PICK f \in Seq(Unit), g \in Seq(Unit), t \in Seq(Unit) :
        t = stream[inst] /\ f = First(t, n) /\ g = Rest(t, n)
  BY <1>2, <1>3, FirstRest
<1>5. f \o g = t /\ Len(f) = n /\ \A i \in 1 .. n : f[i] = t[i]
  BY <1>2, <1>4, FirstRest
<1>6. stream'[inst] = f /\ \A r \in Session : r # inst => stream'[r] = stream[r]
  BY <1>1, <1>2, <1>3, <1>4
<1>7. StreamsOwn'
  <2>1. \A k \in DOMAIN f : k \in DOMAIN t /\ f[k] = t[k]
    <3>1. DOMAIN f = 1 .. n /\ DOMAIN t = 1 .. Len(t) /\ n \in 0 .. Len(t)
      BY <1>2, <1>4, <1>5
    <3> QED
      BY <1>5, <3>1
  <2>2. \A k \in DOMAIN f : f[k][1] = inst
    BY <1>1, <1>4, <2>1 DEF FInv, StreamsOwn
  <2> QED
    BY <1>1, <1>6, <2>2 DEF FInv, StreamsOwn
<1>8. NoneYet' /\ FramesIntact' /\ (Damaged => Damaged')
  BY <1>1 DEF FInv, NoneYet, Damaged, FramesIntact, InOrder, Whole, Spans
<1>9. ASSUME Undamaged PROVE Undamaged'
  <2>1. BufferOwn' /\ LastOwn' /\ LastOwn /\ Expected' = Expected
    BY <1>1, <1>9 DEF Undamaged, BufferOwn, LastOwn, LastPdu, Expected
  <2>2. PICK e \in Int, rb \in Seq(Unit) : e = Expected /\ rb = recv \o recvBuf
    BY <1>1, <2>1, TrackIs
  <2>3. Backlog = rb \o t /\ Backlog' = rb \o f
    BY <1>1, <1>4, <1>6, <2>2 DEF Backlog
  <2>4. CASE OnTrack
    <3>1. (rb \o f) \o g = rb \o t /\ rb \o f \in Seq(Unit)
      <4>1. rb \in Seq(Unit) /\ f \in Seq(Unit) /\ g \in Seq(Unit)
        BY <1>4, <2>2
      <4>2. (rb \o f) \o g = rb \o (f \o g)
        BY <4>1, ConcatAssociative
      <4>3. rb \o f \in Seq(Unit)
        BY <4>1, ConcatProperties
      <4> QED
        BY <1>5, <4>2, <4>3
    <3>2. InStep((rb \o f) \o g, inst, e)
      BY <2>2, <2>3, <2>4, <3>1 DEF OnTrack
    <3>3. InStep(rb \o f, inst, e)
      BY <1>4, <2>2, <3>1, <3>2, InStepPrefix
    <3>4. InStep(Backlog, inst, Expected)'
      BY <1>1, <2>1, <2>2, <2>3, <3>3 DEF InStep
    <3>5. OnTrack'
      BY <1>1, <2>4, <3>4 DEF OnTrack
    <3> QED
      BY <2>1, <3>5 DEF Undamaged
  <2>5. (Stale => Stale') /\ (Mixed => Mixed')
    BY <1>1 DEF Stale, Mixed, Spans
  <2> QED
    BY <1>1, <1>9, <2>1, <2>4, <2>5 DEF Undamaged
<1> QED
  BY <1>7, <1>8, <1>9 DEF FInv

\* However many sessions there are, however long a PDU is and however the
\* stream is cut into pieces and lost, PDUs are delivered whole, in order and
\* without a gap up to the first one begun in one session and ended in another.
THEOREM FramesStayIntact == Spec => []FramesIntact
<1>1. Init => FInv
  BY DEF Init, FInv, StreamsOwn, NoneYet, Undamaged, BufferOwn, LastOwn, FramesIntact
<1>2. IInv /\ StreamType /\ FInv /\ [Next]_vars => FInv'
  <2> SUFFICES ASSUME IInv, StreamType, FInv, [Next]_vars PROVE FInv'
    OBVIOUS
  <2>1. CASE MuxStep
    <3>1. CASE Suspend \/ Signal
      BY <3>1, Quiet DEF Suspend, Signal, workVars, netVars
    <3> QED
      BY <2>1, <3>1, ReceiveFrames, FillFrames, DoneFrames, SuspendFrames, DeliverFrames
         DEF MuxStep
  <2>2. CASE MainStep \/ (\E c \in Sender : SendLock(c) \/ SendReturns(c)) \/ UNCHANGED vars
    <3>1. UNCHANGED <<recv, recvBuf, stream, sent, delivered, inst, lost, mux>>
      BY <2>2 DEF MainStep, SendReturns, Load, Unload, UnloadQuit, UnloadPost, UnloadJoin,
         SendLock, SendRefused, SendStart, SendEnd, vars, workVars, muxVars, netVars
    <3> QED
      BY <3>1, Quiet
  <2> QED
    BY <2>1, <2>2, WorkFrames, SendFrames, LostFrames DEF Next
<1>3. Spec => []StreamType
  BY TypeCorrect, PTL DEF TypeOK, StreamType
<1>4. FInv => FramesIntact
  BY DEF FInv
<1> QED
  BY <1>1, <1>2, <1>3, <1>4, IInvariant, PTL DEF Spec
==============================================================================
