---------------------------- MODULE MCLiveBehavior -----------------------------
(***************************************************************************)
(* Small instances of LiveBehavior for TLC.                                *)
(***************************************************************************)
EXTENDS LiveBehavior, TLC

CONSTANTS f1, f2, d1, j1

\* Two Follow goals carry the same trajectory; it may be published under its
\* trajectory_id or under another one (the digest does not cover the id).
SharedDigest == [g \in Follows |-> "d"]
SharedId     == [g \in Goals |-> "t"]
SharedPlans  == {[digest |-> "d", id |-> i] : i \in {"t", "u"}}

\* A trajectory and a session of its own for every goal.
OwnDigest    == [g \in Follows |-> g]
OwnId        == [g \in Goals |-> g]
OwnPlans     == {[digest |-> g, id |-> g] : g \in Follows}
================================================================================
