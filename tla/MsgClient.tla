------------------------------ MODULE MsgClient ------------------------------
(***************************************************************************)
(* The message client of the tablet (net/MsgClient.cpp with MyMsgClient of *)
(* main-jni.cpp): one thread connects to the message server, starts a      *)
(* session on the connection, frees it when the session has ended and      *)
(* connects again.  The mux thread receives for the session and assembles  *)
(* the stream into PDUs (net/TransStreamHandler.cpp); threads of Java send *)
(* over it; nativeQuit stops it all.                                       *)
(*                                                                         *)
(* A connection is a Session, numbered as they are made.  What MuxServer   *)
(* says of select and of descriptors is not repeated: here the mux thread  *)
(* takes _MuxLock and dispatches in one step.  A stream is a sequence of   *)
(* units <<session, PDU, part>>: part 1 is the magic number, part 2 the    *)
(* rest of the header, the others are the body.                            *)
(***************************************************************************)
EXTENDS Integers, Sequences

CONSTANTS
  Sender,      \* threads of Java that call SendDbMsg
  MaxSession,  \* connections the server accepts
  MaxPdu,      \* PDUs it sends on each of them
  BodySize,    \* units in a body
  Garbage,     \* what wBodySize reads as when it is not a header's second part
  NoSender

ASSUME ClientConstants ==
  /\ {MaxSession, MaxPdu, BodySize, Garbage} \subseteq Nat
  /\ NoSender \notin Sender

Session == 1 .. MaxSession
NoInst == 0
HeadSize == 2   \* units in a PDU_COMM_HDR

VARIABLES
  main,      \* the thread that calls nativeConnect and nativeQuit
  worker,    \* WorkThread: where it is ...
  inst,      \* ... and its pTrans, the last connection made
  live,      \* _TransList: connections that are not deleted
  trans,     \* _pTransInst of the handler
  muxList,   \* _MuxList
  ignore,    \* _bIgnore of a connection
  ended,     \* _bSessionEnd of the handler, which serves all sessions
  wake,      \* _hWakeEvent
  quit,      \* _bQuit
  mux,       \* the mux thread: it holds _MuxLock unless it is idle
  recv,      \* _biRecv: the PDU being assembled
  recvBuf,   \* _biRecvBuf: received and not yet looked at
  sender,    \* each sender: where it is
  target,    \* the connection it sends on
  transLock, \* the holder of _TransLock
  stream,    \* on its way from the server
  sent,      \* PDUs the server has sent on a connection
  lost,      \* connections the server or the network has closed
  delivered  \* history: the PDUs given to ProcessPDU

vars == <<main, worker, inst, live, trans, muxList, ignore, ended, wake, quit, mux,
          recv, recvBuf, sender, target, transLock, stream, sent, lost, delivered>>

workVars == <<worker, inst, live, trans, muxList>>
muxVars == <<mux, recv, recvBuf, delivered>>
endVars == <<ignore, ended, wake>>
sendVars == <<sender, target, transLock>>
netVars == <<stream, sent, lost>>
mainVars == <<main, quit>>

Unit == Session \X (1 .. MaxPdu) \X (1 .. HeadSize + BodySize)

TypeOK ==
  /\ main \in {"init", "up", "unload", "wake", "join", "down"}
  /\ worker \in {"absent", "test", "connect", "publish", "register", "inner", "wait",
                 "check", "stop", "forget", "finish", "exited"}
  /\ inst \in Session \cup {NoInst} /\ trans \in Session \cup {NoInst}
  /\ live \subseteq Session /\ muxList \subseteq Session /\ lost \subseteq Session
  /\ ignore \in [Session -> BOOLEAN] /\ ended \in BOOLEAN
  /\ wake \in Nat /\ quit \in BOOLEAN
  /\ mux \in {"idle", "receive", "suspend", "signal"}
  /\ recv \in Seq(Unit) /\ recvBuf \in Seq(Unit)
  /\ sender \in [Sender -> {"idle", "locked", "send"}]
  /\ target \in [Sender -> Session \cup {NoInst}]
  /\ transLock \in Sender \cup {NoSender}
  /\ stream \in [Session -> Seq(Unit)] /\ sent \in [Session -> 0 .. MaxPdu]
  /\ delivered \in Seq(Seq(Unit))

Init ==
  /\ main = "init" /\ worker = "absent" /\ inst = NoInst /\ trans = NoInst
  /\ live = {} /\ muxList = {} /\ lost = {}
  /\ ignore = [s \in Session |-> FALSE] /\ ended = FALSE /\ wake = 0 /\ quit = FALSE
  /\ mux = "idle" /\ recv = <<>> /\ recvBuf = <<>> /\ delivered = <<>>
  /\ sender = [c \in Sender |-> "idle"] /\ target = [c \in Sender |-> NoInst]
  /\ transLock = NoSender
  /\ stream = [s \in Session |-> <<>>] /\ sent = [s \in Session |-> 0]

WorkerAt(from, to) == worker = from /\ worker' = to
MuxLocked == mux # "idle"
First(s, n) == SubSeq(s, 1, n)
Rest(s, n) == SubSeq(s, n + 1, Len(s))
Least(a, b) == IF a < b THEN a ELSE b

------------------------------------------------------------------------------
(* The server and the network.                                             *)

\* Notify sends a PDU on a connection.
ServerSend(s) ==
  /\ s \in live \ lost /\ sent[s] < MaxPdu
  /\ sent' = [sent EXCEPT ![s] = @ + 1]
  /\ stream' = [stream EXCEPT ![s] =
                  @ \o [k \in 1 .. HeadSize + BodySize |-> <<s, sent[s] + 1, k>>]]
  /\ UNCHANGED <<mainVars, workVars, muxVars, endVars, sendVars, lost>>

\* A connection is closed, or lost with the rest of what was sent.
ConnectionLost(s) ==
  /\ s \in live \ lost
  /\ lost' = lost \cup {s}
  /\ \E n \in 0 .. Len(stream[s]) : stream' = [stream EXCEPT ![s] = First(@, n)]
  /\ UNCHANGED <<mainVars, workVars, muxVars, endVars, sendVars, sent>>

------------------------------------------------------------------------------
(* WorkThread.                                                             *)

WorkTest ==
  /\ WorkerAt("test", IF quit THEN "exited" ELSE "connect")
  /\ UNCHANGED <<mainVars, inst, live, trans, muxList, muxVars, endVars, sendVars, netVars>>

\* ConnectOut fails; after a second the loop is tried again.
ConnectFail ==
  /\ WorkerAt("connect", "test")
  /\ UNCHANGED <<mainVars, inst, live, trans, muxList, muxVars, endVars, sendVars, netVars>>

ConnectOut ==
  /\ inst < MaxSession
  /\ WorkerAt("connect", "publish")
  /\ inst' = inst + 1
  /\ live' = live \cup {inst + 1}
  /\ UNCHANGED <<mainVars, trans, muxList, muxVars, endVars, sendVars, netVars>>

\* _pTransInst is set, without _TransLock.  Start calls OnStarted, which
\* MyMsgClient overrides: _biRecv is left as it is.
WorkPublish ==
  /\ WorkerAt("publish", "register")
  /\ trans' = inst
  /\ UNCHANGED <<mainVars, inst, live, muxList, muxVars, endVars, sendVars, netVars>>

WorkRegister ==
  /\ ~MuxLocked
  /\ WorkerAt("register", "inner")
  /\ muxList' = muxList \cup {inst}
  /\ UNCHANGED <<mainVars, inst, live, trans, muxVars, endVars, sendVars, netVars>>

WorkInner ==
  /\ WorkerAt("inner", IF quit THEN "stop" ELSE "wait")
  /\ UNCHANGED <<mainVars, inst, live, trans, muxList, muxVars, endVars, sendVars, netVars>>

WorkWait ==
  /\ WorkerAt("wait", "check")
  /\ wake > 0
  /\ wake' = wake - 1
  /\ UNCHANGED <<mainVars, inst, live, trans, muxList, muxVars, ignore, ended, sendVars, netVars>>

\* IsSessionEnd, a flag that is never cleared.
WorkCheck ==
  /\ WorkerAt("check", IF ended THEN "stop" ELSE "inner")
  /\ UNCHANGED <<mainVars, inst, live, trans, muxList, muxVars, endVars, sendVars, netVars>>

\* Stop: Unregister waits for the mux thread to leave the session; OnStopped.
WorkStop ==
  /\ ~MuxLocked
  /\ WorkerAt("stop", "forget")
  /\ muxList' = muxList \ {inst}
  /\ UNCHANGED <<mainVars, inst, live, trans, muxVars, endVars, sendVars, netVars>>

\* _pTransInst is cleared under _TransLock: no sender is using it.
WorkForget ==
  /\ transLock = NoSender
  /\ WorkerAt("forget", "finish")
  /\ trans' = NoInst
  /\ UNCHANGED <<mainVars, inst, live, muxList, muxVars, endVars, sendVars, netVars>>

\* FinishTransInst deletes the connection.
WorkFinish ==
  /\ WorkerAt("finish", "test")
  /\ live' = live \ {inst}
  /\ UNCHANGED <<mainVars, inst, trans, muxList, muxVars, endVars, sendVars, netVars>>

------------------------------------------------------------------------------
(* The mux thread in OnRecvReady.                                          *)

\* select reports a connection that is registered and not suspended; Recv
\* returns what has arrived, or some of it.
Receive ==
  /\ mux = "idle" /\ mux' = "receive"
  /\ \E s \in muxList :
       /\ ~ignore[s] /\ stream[s] # <<>>
       /\ \E n \in 1 .. Len(stream[s]) :
            /\ recvBuf' = First(stream[s], n)
            /\ stream' = [stream EXCEPT ![s] = Rest(@, n)]
  /\ UNCHANGED <<mainVars, workVars, recv, delivered, endVars, sendVars, sent, lost>>

\* Mutant: a suspended connection is selected too.
ReceiveFailsAgain ==
  /\ mux = "idle" /\ mux' = "suspend"
  /\ \E s \in muxList : stream[s] = <<>> /\ s \in lost
  /\ ended' = TRUE
  /\ recvBuf' = <<>>
  /\ UNCHANGED <<mainVars, workVars, recv, delivered, ignore, wake, sendVars, netVars>>

\* Recv finds the connection closed.
ReceiveFails ==
  /\ mux = "idle" /\ mux' = "suspend"
  /\ \E s \in muxList : ~ignore[s] /\ stream[s] = <<>> /\ s \in lost
  /\ ended' = TRUE
  /\ recvBuf' = <<>>
  /\ UNCHANGED <<mainVars, workVars, recv, delivered, ignore, wake, sendVars, netVars>>

HeaderRead == Len(recv) >= HeadSize
MagicGood == recv[1][3] = 1
WBodySize == IF recv[2][3] = 2 THEN BodySize ELSE Garbage

\* What is still missing of the header, then of the PDU.
Missing ==
  IF HeaderRead THEN HeadSize + WBodySize - Len(recv) ELSE HeadSize - Len(recv)

\* Mutant: the bytes that were copied are not pulled.
FillNoPull ==
  /\ mux = "receive" /\ recvBuf # <<>>
  /\ HeaderRead => MagicGood
  /\ Missing > 0
  /\ LET n == Least(Missing, Len(recvBuf))
     IN recv' = recv \o First(recvBuf, n) /\ recvBuf' = Rest(recvBuf, n - 1)
  /\ UNCHANGED <<mainVars, workVars, mux, delivered, endVars, sendVars, netVars>>

\* Copy from one buffer to the other up to the end of the header or the PDU.
Fill ==
  /\ mux = "receive" /\ recvBuf # <<>>
  /\ HeaderRead => MagicGood
  /\ Missing > 0
  /\ LET n == Least(Missing, Len(recvBuf))
     IN recv' = recv \o First(recvBuf, n) /\ recvBuf' = Rest(recvBuf, n)
  /\ UNCHANGED <<mainVars, workVars, mux, delivered, endVars, sendVars, netVars>>

\* Nothing is left to copy.
ReceiveDone ==
  /\ mux = "receive" /\ recvBuf = <<>>
  /\ HeaderRead => MagicGood
  /\ Missing > 0
  /\ mux' = "idle"
  /\ UNCHANGED <<mainVars, workVars, recv, recvBuf, delivered, endVars, sendVars, netVars>>

\* A bad magic number ends the session; _biRecv keeps it.
BadMagic ==
  /\ mux = "receive" /\ mux' = "suspend"
  /\ HeaderRead /\ ~MagicGood
  /\ ended' = TRUE
  /\ UNCHANGED <<mainVars, workVars, recv, recvBuf, delivered, ignore, wake, sendVars, netVars>>

\* ProcessPDU, and _biRecv is reset.
Deliver ==
  /\ mux = "receive"
  /\ HeaderRead /\ MagicGood /\ Missing <= 0
  /\ delivered' = Append(delivered, recv)
  /\ recv' = <<>>
  /\ UNCHANGED <<mainVars, workVars, mux, recvBuf, endVars, sendVars, netVars>>

\* The rest of EndSession: Suspend through the handler's _pTransInst ...
Suspend ==
  /\ mux = "suspend" /\ mux' = "signal"
  /\ ignore' = [ignore EXCEPT ![trans] = TRUE]
  /\ UNCHANGED <<mainVars, workVars, recv, recvBuf, delivered, ended, wake, sendVars, netVars>>

\* Mutant: the work thread is not woken.
SignalNot ==
  /\ mux = "signal" /\ mux' = "idle"
  /\ UNCHANGED <<mainVars, workVars, recv, recvBuf, delivered, endVars, sendVars, netVars>>

\* ... and the post.
Signal ==
  /\ mux = "signal" /\ mux' = "idle"
  /\ wake' = wake + 1
  /\ UNCHANGED <<mainVars, workVars, recv, recvBuf, delivered, ignore, ended, sendVars, netVars>>

------------------------------------------------------------------------------
(* SendDbMsg, as CmdUpdated, UpdateSysInfo and the others call it.         *)

SendLock(c) ==
  /\ main # "down" /\ sender[c] = "idle" /\ transLock = NoSender
  /\ transLock' = c
  /\ sender' = [sender EXCEPT ![c] = "locked"]
  /\ UNCHANGED <<mainVars, workVars, muxVars, endVars, target, netVars>>

\* Without a connection: ERROR_NOT_CONNECTED.
SendRefused(c) ==
  /\ sender[c] = "locked" /\ trans = NoInst
  /\ transLock' = NoSender
  /\ sender' = [sender EXCEPT ![c] = "idle"]
  /\ UNCHANGED <<mainVars, workVars, muxVars, endVars, target, netVars>>

\* _biSend is filled and SendPDU called on the connection ...
SendStart(c) ==
  /\ sender[c] = "locked" /\ trans # NoInst
  /\ target' = [target EXCEPT ![c] = trans]
  /\ sender' = [sender EXCEPT ![c] = "send"]
  /\ UNCHANGED <<mainVars, workVars, muxVars, endVars, transLock, netVars>>

\* ... and returns: sent, timed out or failed, which changes nothing here.
SendEnd(c) ==
  /\ sender[c] = "send"
  /\ transLock' = NoSender
  /\ target' = [target EXCEPT ![c] = NoInst]
  /\ sender' = [sender EXCEPT ![c] = "idle"]
  /\ UNCHANGED <<mainVars, workVars, muxVars, endVars, netVars>>

------------------------------------------------------------------------------
(* The thread of Java that connects and quits.                             *)

\* nativeConnect: Load creates the thread, or fails to.
Load ==
  /\ main = "init" /\ main' = "up"
  /\ worker' \in {"test", "absent"}
  /\ UNCHANGED <<quit, inst, live, trans, muxList, muxVars, endVars, sendVars, netVars>>

\* nativeQuit: Unload, which does nothing without a thread ...
Unload ==
  /\ main = "up"
  /\ main' = IF worker = "absent" THEN "join" ELSE "unload"
  /\ UNCHANGED <<quit, workVars, muxVars, endVars, sendVars, netVars>>

UnloadQuit ==
  /\ main = "unload" /\ main' = "wake"
  /\ quit' = TRUE
  /\ UNCHANGED <<workVars, muxVars, endVars, sendVars, netVars>>

UnloadPost ==
  /\ main = "wake" /\ main' = "join"
  /\ wake' = wake + 1
  /\ UNCHANGED <<quit, workVars, muxVars, ignore, ended, sendVars, netVars>>

\* ... and the join; the client is deleted when no sender is in it.
UnloadJoin ==
  /\ main = "join" /\ main' = "down"
  /\ worker \in {"absent", "exited"}
  /\ \A c \in Sender : sender[c] = "idle"
  /\ UNCHANGED <<quit, workVars, muxVars, endVars, sendVars, netVars>>

------------------------------------------------------------------------------

WorkStep ==
  \/ WorkTest \/ ConnectFail \/ ConnectOut \/ WorkPublish \/ WorkRegister \/ WorkInner
  \/ WorkWait \/ WorkCheck \/ WorkStop \/ WorkForget \/ WorkFinish

MuxStep ==
  \/ Receive \/ ReceiveFails \/ Fill \/ ReceiveDone \/ BadMagic \/ Deliver
  \/ Suspend \/ Signal

SendReturns(c) == SendRefused(c) \/ SendStart(c) \/ SendEnd(c)
MainStep == Load \/ Unload \/ UnloadQuit \/ UnloadPost \/ UnloadJoin

Next ==
  \/ WorkStep \/ MuxStep \/ MainStep
  \/ \E c \in Sender : SendLock(c) \/ SendReturns(c)
  \/ \E s \in Session : ServerSend(s) \/ ConnectionLost(s)

Spec == Init /\ [][Next]_vars

\* The threads run and calls of send return; connecting need not succeed, and
\* nobody has to send or to quit.  The work thread needs strong fairness for
\* _TransLock, which senders release again and again, and for _MuxLock.
Fairness ==
  /\ SF_vars(WorkStep) /\ WF_vars(MuxStep)
  /\ \A c \in Sender : WF_vars(SendReturns(c))
  /\ WF_vars(UnloadQuit \/ UnloadPost)

FairSpec == Spec /\ Fairness

------------------------------------------------------------------------------
(* Properties.                                                             *)

\* Connections are deleted by one thread while two others use them: a sender
\* never sends on one that is deleted; while the mux thread handles a session
\* the handler's _pTransInst is that session's connection (the assertion of
\* EndSession, TransHandler.cpp:55), registered and alive; and when the client
\* is gone no connection is left (the assertion at TransCenter.cpp:39).
UsesLive ==
  /\ \A c \in Sender : sender[c] = "send" => target[c] \in live
  /\ MuxLocked => muxList = {trans} /\ trans \in live
  /\ main = "down" => live = {}

\* A session is stopped only because it has ended or the client is unloaded,
\* although _bSessionEnd stays set after the first one and a post too many
\* would stop every later session as soon as it has started.
StopsOnlyEnded == worker = "stop" => ignore[inst] \/ quit

\* The life of a session across the work thread, the mux thread and the
\* senders: used only while it lives, stopped only when it is over.
SessionsSound == UsesLive /\ StopsOnlyEnded

\* A PDU that arrives as it was sent, and one with units of two sessions.
Whole(p) ==
  /\ Len(p) = HeadSize + BodySize
  /\ \A k \in DOMAIN p : p[k] = <<p[1][1], p[1][2], k>>
Spans(p) == \E k \in DOMAIN p : p[k][1] # p[1][1]

\* The i-th PDU delivered is whole and the next one of its session.
InOrder(i) ==
  LET p == delivered[i]
  IN /\ Whole(p)
     /\ IF i > 1 /\ delivered[i - 1][1][1] = p[1][1]
          THEN p[1][2] = delivered[i - 1][1][2] + 1
          ELSE p[1][2] = 1

\* However the stream is cut into pieces, the PDUs of a session are delivered
\* whole, in order and without a gap, until a connection is lost within a PDU:
\* all damage starts with a PDU that was begun in one session and completed in
\* a later one, as OnStarted does not reset _biRecv (main-jni.cpp:79).
FramesIntact ==
  \A i \in DOMAIN delivered : InOrder(i) \/ \E j \in 1 .. i : Spans(delivered[j])

\* A session that has ended is stopped and its connection deleted, whichever
\* session of the handler it is; so is the last one after Unload, however the posts of
\* EndSession and Unload and the thread's look at the flags interleave.
SessionFinishes ==
  \A s \in Session : (s \in live /\ (ignore[s] \/ quit)) ~> s \notin live
==============================================================================
