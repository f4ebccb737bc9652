---------------------------- MODULE MCLockOrder ------------------------------
(* The threads of LockOrder for TLC, three at a time: those that are there *)
(* when devices come and go, those that queue and execute commands, and    *)
(* those that handle connections.                                          *)
EXTENDS LockOrder

CONSTANTS t1, t2, t3

Crew(a, b, c) == [t \in Threads |-> IF t = t1 THEN a ELSE IF t = t2 THEN b ELSE c]

MCCrews ==
  {Crew(<<"MonThread">>, <<"WorkThread", 1>>, <<"Main">>),
   Crew(<<"CmdMonThread">>, <<"MuxThread">>, <<"WorkThread", 1>>),
   Crew(<<"MuxThread">>, <<"AcceptThread">>, <<"Main">>),
   Crew(<<"MuxThread">>, <<"CleanupThread">>, <<"Main">>),
   Crew(<<"AcceptThread">>, <<"CleanupThread">>, <<"Main">>)}
==============================================================================
