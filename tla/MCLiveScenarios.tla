---------------------------- MODULE MCLiveScenarios ----------------------------
(***************************************************************************)
(* Three small instances of LiveBehavior in one run.                       *)
(***************************************************************************)
EXTENDS MCLiveBehavior

NoJog == jogHb = NoHeartbeat /\ \A g \in Jogs : pc[g] = "idle"
OneId == \A i \in DOMAIN planned : planned[i].id = "t"

\* Two Follow goals with the trajectory of one publication.
TwoFollows == NoJog /\ journalOk /\ context /\ Latest <= 2

\* One, and the end of the node after several Machine States.
OneFollow == NoJog /\ journalOk /\ pc[f2] = "idle" /\ OneId

\* The end of the node, or of the journal, in the middle of a Follow or a jog.
FollowOrJog ==
  Latest <= 1 /\ pc[f2] = "idle" /\ OneId /\ (pc[f1] = "idle" \/ \A g \in Jogs : pc[g] = "idle")

ThreeScenarios == TwoFollows \/ OneFollow \/ FollowOrJog
================================================================================
