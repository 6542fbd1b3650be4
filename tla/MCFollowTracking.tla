---------------------------- MODULE MCFollowTracking ----------------------------
(***************************************************************************)
(* The Machine States alone, with everything that may go wrong on their    *)
(* way; one Follow on a stream that is only delayed; one fixed action; and *)
(* how its profile gets to the servers of commissioning and of production. *)
(***************************************************************************)
EXTENDS FollowTracking, FixedAction, ActionEvidence

VARIABLE scenario

\* At most one waypoint is within the tolerance.
MCTips == {{}, {1}, {2}}
\* The Orin's clock is behind or ahead.
MCSkews == {-1, 0, 1}
\* The boom down, then the bucket in.
MCAxes  == {"boom", "bucket"}
MCPoses == {[boom |-> 0, bucket |-> 0], [boom |-> 1, bucket |-> 0], [boom |-> 1, bucket |-> 1]}
MCSteps == << [boom |-> 1, bucket |-> 0], [boom |-> 0, bucket |-> 1] >>

\* Two profiles that differ in where a fixed action may start.
MCContracts ==
  {[machine |-> 1, urdf |-> 1, power |-> 1, envelope |-> e] : e \in {{"near"}, {"near", "far"}}}

\* What the other scenarios leave alone is as it is first.
MCInit ==
  /\ Init /\ FixedInit /\ EvidenceInit /\ scenario \in {"stream", "follow", "fixed", "evidence"}
  /\ scenario # "evidence" => "far" \notin disk.pin.envelope
  /\ scenario = "evidence" => skew = 0

\* The fixed action gets its time in full, and states that are not delayed.
Bounds ==
  /\ scenario = "stream" => skew' \in {0, 1} /\ now' <= 9 /\ sent' <= 4
  /\ scenario = "follow" => skew' \in {-1, 1} /\ now' <= 10 /\ phase # "ended"
  /\ scenario = "fixed" => skew' = 0 /\ place # "ended"

FollowTurn ==
  FollowStarts \/ TakesState \/ StateStale \/ TipMissing \/ SampleIgnored \/ SampleTaken \/ Interrupted

Delayed == OrinSends \/ StartReceiver \/ (Receive /\ flight' = Tail(flight))

MCNext ==
  /\ \/ scenario = "stream" /\ StreamNext /\ UNCHANGED <<followVars, fixedVars, evidenceVars>>
     \/ scenario = "follow" /\ UNCHANGED <<fixedVars, evidenceVars>>
        /\ (FollowTurn \/ Tick \/ (Delayed /\ UNCHANGED followVars))
     \/ scenario = "fixed" /\ UNCHANGED <<followVars, evidenceVars>>
        /\ (FixedStep \/ (FixedTick /\ flight = << >>) \/ (Delayed /\ UNCHANGED fixedVars))
     \/ scenario = "evidence" /\ EvidenceNext /\ UNCHANGED <<streamVars, followVars, fixedVars>>
  /\ UNCHANGED scenario /\ Bounds

MCSpec == MCInit /\ [][MCNext]_<<streamVars, followVars, fixedVars, evidenceVars, scenario>>
==================================================================================
