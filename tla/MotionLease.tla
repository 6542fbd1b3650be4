------------------------------ MODULE MotionLease ------------------------------
(***************************************************************************)
(* What a machine behaviour server promises to the clients of its Actions  *)
(* and to the machine: every goal is refused or gets the one lease, only   *)
(* the goal that holds it moves the machine, and the Result is given once  *)
(* the lease is back.  A Result that confirms quiescence does so only when *)
(* no command of the goal is in force at the machine any more.             *)
(*                                                                         *)
(* LiveBehavior implements it (live_machine_behavior_server.py), and       *)
(* MissionCycle relies on it.                                              *)
(***************************************************************************)
CONSTANT Goals

VARIABLES
  status,        \* per goal: "waiting", "refused", "holding" or "closed"
  claim,         \* per goal: its Result confirmed quiescence
  force          \* per goal: one of its motion commands is in force

leaseVars == <<status, claim, force>>

LeaseInit ==
  /\ status = [g \in Goals |-> "waiting"]
  /\ claim = [g \in Goals |-> FALSE]
  /\ force = [g \in Goals |-> FALSE]

Refuse(g) ==
  /\ status[g] = "waiting"
  /\ status' = [status EXCEPT ![g] = "refused"]
  /\ UNCHANGED <<claim, force>>

Grant(g) ==
  /\ status[g] = "waiting"
  /\ \A h \in Goals : status[h] # "holding"
  /\ status' = [status EXCEPT ![g] = "holding"]
  /\ UNCHANGED <<claim, force>>

Move(g) ==
  /\ status[g] = "holding"
  /\ force' = [force EXCEPT ![g] = TRUE]
  /\ UNCHANGED <<status, claim>>

\* Commands run out, whenever they do.
Subside ==
  /\ force' \in [Goals -> BOOLEAN]
  /\ \A g \in Goals : force'[g] => force[g]
  /\ UNCHANGED <<status, claim>>

Close(g) ==
  /\ status[g] = "holding"
  /\ status' = [status EXCEPT ![g] = "closed"]
  /\ \/ ~force[g] /\ claim' = [claim EXCEPT ![g] = TRUE]
     \/ UNCHANGED claim
  /\ UNCHANGED force

LeaseNext ==
  \/ \E g \in Goals : Refuse(g) \/ Grant(g) \/ Move(g) \/ Close(g)
  \/ Subside

LeaseSpec == LeaseInit /\ [][LeaseNext]_leaseVars
================================================================================
