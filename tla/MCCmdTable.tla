----------------------------- MODULE MCCmdTable -----------------------------
(***************************************************************************)
(* Instances of CmdTable for TLC.  The two objects have one serial number: *)
(* the device is unplugged and plugged in again.                           *)
(***************************************************************************)
EXTENDS CmdTable

CONSTANTS d1, d2, q1, r1, r2

SameId == [d \in Device |-> "tablet"]
AllName == [r \in Row |-> "tablet"]
OneQueue == [r \in Row |-> q1]
=============================================================================
