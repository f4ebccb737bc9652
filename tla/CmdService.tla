----------------------------- MODULE CmdService -----------------------------
(***************************************************************************)
(* What the command executor of libdevmgr promises its callers (QueueCmd   *)
(* of inc/SmartDevice.h and the four callbacks of inc/CmdObserver.h),      *)
(* without threads, locks or semaphores.                                   *)
(*                                                                         *)
(* Every device has one FIFO lane per queue.  A command handed to a lane   *)
(* is reported exactly once as finished: cancelled when its turn comes and *)
(* the device is not in its main state, otherwise executing and then       *)
(* executed or failed.  A lane executes one command at a time, in the      *)
(* order of submission; lanes are independent of each other.               *)
(***************************************************************************)
EXTENDS Sequences

CONSTANTS Device, Queue, Cmd, NoCmd,
          LaneOf    \* the queue a command code is mapped to

VARIABLES pending,  \* pending[d][q]: submitted, not yet started
          active,   \* active[d][q]: the command being executed, or NoCmd
          outcome   \* outcome[k]: what the submitter has been told

svars == <<pending, active, outcome>>

SInit ==
  /\ pending = [d \in Device |-> [q \in Queue |-> <<>>]]
  /\ active = [d \in Device |-> [q \in Queue |-> NoCmd]]
  /\ outcome = [k \in Cmd |-> "new"]

\* QueueCmd accepts k for device d.
Submit(d, k) ==
  /\ outcome[k] = "new"
  /\ outcome' = [outcome EXCEPT ![k] = "queued"]
  /\ pending' = [pending EXCEPT ![d][LaneOf[k]] = Append(@, k)]
  /\ UNCHANGED active

\* QueueCmd reports that there is no memory for the command.
Refuse(k) ==
  /\ outcome[k] = "new"
  /\ outcome' = [outcome EXCEPT ![k] = "refused"]
  /\ UNCHANGED <<pending, active>>

\* OnExecuting for the oldest pending command of an idle lane.
Begin(d, q) ==
  /\ active[d][q] = NoCmd
  /\ pending[d][q] # <<>>
  /\ active' = [active EXCEPT ![d][q] = Head(pending[d][q])]
  /\ outcome' = [outcome EXCEPT ![Head(pending[d][q])] = "executing"]
  /\ pending' = [pending EXCEPT ![d][q] = Tail(@)]

\* OnCancelled for the oldest pending command of an idle lane.
Cancel(d, q) ==
  /\ active[d][q] = NoCmd
  /\ pending[d][q] # <<>>
  /\ outcome' = [outcome EXCEPT ![Head(pending[d][q])] = "cancelled"]
  /\ pending' = [pending EXCEPT ![d][q] = Tail(@)]
  /\ UNCHANGED active

\* OnExecuted or OnFailed for the command being executed.
Finish(d, q) ==
  /\ active[d][q] # NoCmd
  /\ \E o \in {"executed", "failed"} :
        outcome' = [outcome EXCEPT ![active[d][q]] = o]
  /\ active' = [active EXCEPT ![d][q] = NoCmd]
  /\ UNCHANGED pending

SNext ==
  \/ \E d \in Device, k \in Cmd : Submit(d, k)
  \/ \E k \in Cmd : Refuse(k)
  \/ \E d \in Device, q \in Queue : Begin(d, q) \/ Cancel(d, q) \/ Finish(d, q)

ServiceSpec == SInit /\ [][SNext]_svars
=============================================================================
