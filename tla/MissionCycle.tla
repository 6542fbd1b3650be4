------------------------------ MODULE MissionCycle ------------------------------
(***************************************************************************)
(* Full Mission (mission/runtime_ros/excavation_cycle_action_server.py):   *)
(* one Action that runs six child Actions in a row, together with what it  *)
(* needs of the Action servers it calls and of the operator panel whose    *)
(* heartbeat a live Follow has to see                                      *)
(* (airy_mission_panel/src/excavation_panel.cpp).                          *)
(*                                                                         *)
(* The children are the Plan server and the machine behaviour server; the  *)
(* latter is reduced to what MotionLease promises.  Goal, cancel and       *)
(* result messages take time: every answer is a step of its own.           *)
(***************************************************************************)
EXTENDS Naturals, SequencesExt

CONSTANTS
  Missions,      \* goals sent to /mission/run_cycle
  Supervisors,   \* missions whose Follow goals another node supervises
  Faults         \* the faults a run lets happen

ASSUME MissionAssumption ==
  /\ Supervisors \subseteq Missions
  /\ Faults \subseteq {"server", "exit"}

\* The stages in the order of _execute(), and the server that runs each.
Stages == <<"PLAN_DIG", "FOLLOW_DIG", "EXECUTE_DIG",
            "PLAN_DUMP", "FOLLOW_DUMP", "EXECUTE_DUMP">>

LastStage  == Len(Stages)
IsPlan(k)   == Stages[k] \in {"PLAN_DIG", "PLAN_DUMP"}
IsFollow(k) == Stages[k] \in {"FOLLOW_DIG", "FOLLOW_DUMP"}
Servers     == {"plan", "behavior"}
Server(k)   == IF IsPlan(k) THEN "plan" ELSE "behavior"

VARIABLES
  phase,         \* per mission: where its thread is
  children,      \* per mission: the stage goals it sent, the last one current
  cancel,        \* per mission: is_cancel_requested
  outcome,       \* per mission: outcome of the Result
  quiet,         \* per mission: quiescence_confirmed of the Result
  datagrams,     \* per mission: action_datagrams of the Result
  late,          \* per mission: stages sent after its cancel was accepted
  reserved,      \* _reserved
  up,            \* the Action servers that are running
  lease,         \* holder of the behaviour lease: <<>>, <<"other">> or <<m, k>>
  heartbeat,     \* session of the operator heartbeat: <<>>, <<"panel">> or <<m, k>>
  context        \* rclpy.ok() of the mission node

missionVars == <<phase, cancel, outcome, quiet, datagrams, late, reserved>>
worldVars   == <<up, lease, heartbeat, context>>
vars == <<missionVars, children, worldVars>>

Nobody == << >>

\* A stage goal and, once it has ended, its Result.
Child == [status    : {"sent", "refused", "active", "ended", "lost"},
          cancelled : BOOLEAN,           \* a cancel request reached the server
          unsupervised : BOOLEAN,        \* refused for want of a heartbeat
          outcome   : {"", "succeeded", "cancelled", "failed"},
          quiet     : BOOLEAN,           \* quiescence_confirmed
          count     : 0 .. 1]            \* action_datagrams
NewChild == [status |-> "sent", cancelled |-> FALSE, unsupervised |-> FALSE,
             outcome |-> "", quiet |-> FALSE, count |-> 0]

Stage(m)   == Len(children[m])
Current(m) == Last(children[m])
Status(m)  == IF children[m] = << >> THEN "none" ELSE Current(m).status
Executing(m) == phase[m] \in {"server", "sending", "running", "ending"}

Init ==
  /\ phase = [m \in Missions |-> "idle"] /\ children = [m \in Missions |-> << >>]
  /\ cancel = [m \in Missions |-> FALSE] /\ outcome = [m \in Missions |-> ""]
  /\ quiet = [m \in Missions |-> FALSE] /\ datagrams = [m \in Missions |-> 0]
  /\ late = [m \in Missions |-> 0] /\ reserved = FALSE
  /\ up = Servers /\ lease = Nobody /\ heartbeat = Nobody /\ context = TRUE

-----------------------------------------------------------------------------
(* The mission's goal callback and its execute callback. *)

Goto(m, label) == phase' = [phase EXCEPT ![m] = label]

\* MUTANT: the reservation is not looked at.
OnGoalUnlocked(m) ==
  /\ phase[m] = "idle" /\ context
  /\ reserved' = TRUE /\ Goto(m, "server")
  /\ UNCHANGED <<cancel, outcome, quiet, datagrams, late, children, worldVars>>

\* _on_goal(): targets that do not belong together, or another mission runs.
OnGoal(m) ==
  /\ phase[m] = "idle" /\ context
  /\ \/ Goto(m, "rejected") /\ UNCHANGED reserved
     \/ ~reserved /\ reserved' = TRUE /\ Goto(m, "server")
  /\ UNCHANGED <<cancel, outcome, quiet, datagrams, late, children, worldVars>>

\* The cancel request is always accepted.
OnCancel(m) ==
  /\ phase[m] \in {"server", "sending", "running"} /\ ~cancel[m]
  /\ cancel' = [cancel EXCEPT ![m] = TRUE]
  /\ UNCHANGED <<phase, outcome, quiet, datagrams, late, reserved, children, worldVars>>

\* MUTANTS: the datagrams of the last stage are added twice, or not at all.
FinishTwice(m, verdict, confirmed, count) ==
  /\ Goto(m, "ending")
  /\ outcome' = [outcome EXCEPT ![m] = verdict]
  /\ quiet' = [quiet EXCEPT ![m] = confirmed]
  /\ datagrams' = [datagrams EXCEPT ![m] = @ + 2 * count]
  /\ UNCHANGED <<cancel, late, reserved>>
FinishUncounted(m, verdict, confirmed, count) ==
  /\ Goto(m, "ending")
  /\ outcome' = [outcome EXCEPT ![m] = verdict]
  /\ quiet' = [quiet EXCEPT ![m] = confirmed]
  /\ UNCHANGED <<cancel, late, reserved, datagrams>>

\* The terminal transition, its Result, and the finally clause of _execute().
Finish(m, verdict, confirmed, count) ==
  /\ Goto(m, "ending")
  /\ outcome' = [outcome EXCEPT ![m] = verdict]
  /\ quiet' = [quiet EXCEPT ![m] = confirmed]
  /\ datagrams' = [datagrams EXCEPT ![m] = @ + count]
  /\ UNCHANGED <<cancel, late, reserved>>

Unreserve(m) ==
  /\ phase[m] = "ending"
  /\ reserved' = FALSE /\ Goto(m, "done")
  /\ UNCHANGED <<cancel, outcome, quiet, datagrams, late, children, worldVars>>

\* _run_child(): wait one second for the server, then send the goal.  Nothing
\* here looks at the cancel request.
SendGoal(m) ==
  /\ phase[m] = "server" /\ Server(Stage(m) + 1) \in up
  /\ children' = [children EXCEPT ![m] = Append(@, NewChild)]
  /\ late' = [late EXCEPT ![m] = IF cancel[m] THEN @ + 1 ELSE @]
  /\ Goto(m, "sending")
  /\ UNCHANGED <<cancel, outcome, quiet, datagrams, reserved, worldVars>>

ServerUnavailable(m) ==
  /\ phase[m] = "server" /\ Server(Stage(m) + 1) \notin up
  /\ Finish(m, "failed", FALSE, 0)
  /\ UNCHANGED <<children, worldVars>>

\* MUTANT: nothing was sent this time, so the machine must be quiet.
GoalRefusedQuiet(m) ==
  /\ phase[m] = "sending" /\ Status(m) = "refused"
  /\ Finish(m, "failed", TRUE, 0)
  /\ UNCHANGED <<children, worldVars>>

GoalRefused(m) ==
  /\ phase[m] = "sending" /\ Status(m) = "refused"
  /\ Finish(m, "failed", FALSE, 0)
  /\ UNCHANGED <<children, worldVars>>

\* MUTANT: a refused goal is waited for.
GoalAcceptedAny(m) ==
  /\ phase[m] = "sending" /\ Status(m) \in {"active", "ended", "refused"}
  /\ Goto(m, "running")
  /\ UNCHANGED <<cancel, outcome, quiet, datagrams, late, reserved, children, worldVars>>

GoalAccepted(m) ==
  /\ phase[m] = "sending" /\ Status(m) \in {"active", "ended"}
  /\ Goto(m, "running")
  /\ UNCHANGED <<cancel, outcome, quiet, datagrams, late, reserved, children, worldVars>>

\* MUTANT: the mission ends without waiting for the child it cancels.
ForwardCancelAndEnd(m) ==
  /\ phase[m] = "running" /\ Status(m) = "active" /\ cancel[m]
  /\ children' = [children EXCEPT ![m][Stage(m)].cancelled = TRUE]
  /\ Finish(m, "cancelled", FALSE, 0)
  /\ UNCHANGED worldVars

\* _wait_future(): poll the result future and pass a cancel request on, once.
ForwardCancel(m) ==
  /\ phase[m] = "running" /\ Status(m) = "active"
  /\ cancel[m] /\ ~Current(m).cancelled
  /\ children' = [children EXCEPT ![m][Stage(m)].cancelled = TRUE]
  /\ UNCHANGED <<missionVars, worldVars>>

\* The node is shut down while it waits for an answer.
TransportError(m) ==
  /\ phase[m] \in {"sending", "running"} /\ ~context
  /\ IF phase[m] = "sending" THEN Status(m) \in {"sent", "lost"}
                             ELSE Status(m) \in {"active", "lost"}
  /\ Finish(m, "transport", FALSE, 0)
  /\ UNCHANGED <<children, worldVars>>

\* MUTANT: quiescence_confirmed is not looked at.
StageSucceededLoud(k, result) == result.outcome = "succeeded"

\* _plan_phase(), _follow_phase(), _fixed_phase(): the Result that counts as
\* success of stage k, and what a failed one says about quiescence.
StageSucceeded(k, result) ==
  /\ result.outcome = "succeeded"
  /\ IF IsPlan(k) THEN result.count = 0 ELSE result.quiet

StageQuiet(k, result) == IF IsPlan(k) THEN result.count = 0 ELSE result.quiet

\* MUTANT: no look at the cancel request between two stages.
ResultArrivesUnchecked(m) ==
  LET k == Stage(m) result == Current(m) IN
  /\ phase[m] = "running" /\ Status(m) = "ended"
  /\ IF StageSucceeded(k, result) /\ k < LastStage
       THEN /\ Goto(m, "server")
            /\ datagrams' = [datagrams EXCEPT ![m] = @ + result.count]
            /\ UNCHANGED <<cancel, outcome, quiet, late, reserved>>
       ELSE Finish(m, result.outcome, StageQuiet(k, result), result.count)
  /\ UNCHANGED <<children, worldVars>>

ResultArrives(m) ==
  LET k == Stage(m) result == Current(m) IN
  /\ phase[m] = "running" /\ Status(m) = "ended"
  /\ CASE cancel[m] -> Finish(m, "cancelled", result.quiet, result.count)
       [] ~cancel[m] /\ ~StageSucceeded(k, result) ->
            Finish(m, "failed", StageQuiet(k, result), IF IsPlan(k) THEN 0 ELSE result.count)
       [] ~cancel[m] /\ StageSucceeded(k, result) /\ k = LastStage ->
            Finish(m, "succeeded", TRUE, result.count)
       [] OTHER ->
            /\ Goto(m, "server")
            /\ datagrams' = [datagrams EXCEPT ![m] = @ + result.count]
            /\ UNCHANGED <<cancel, outcome, quiet, late, reserved>>
  /\ UNCHANGED <<children, worldVars>>

-----------------------------------------------------------------------------
(* The servers of the children. *)

SetChild(m, child) == children' = [children EXCEPT ![m][Stage(m)] = child]

\* Busy, invalid goal, gate closed, trajectory not published, ...
ServerRefuses(m) ==
  /\ Status(m) = "sent"
  /\ SetChild(m, [Current(m) EXCEPT !.status = "refused"])
  /\ UNCHANGED <<missionVars, worldVars>>

\* _on_follow_goal(): no fresh heartbeat for this trajectory.
FollowUnsupervised(m) ==
  /\ Status(m) = "sent" /\ IsFollow(Stage(m)) /\ heartbeat # <<m, Stage(m)>>
  /\ SetChild(m, [Current(m) EXCEPT !.status = "refused", !.unsupervised = TRUE])
  /\ UNCHANGED <<missionVars, worldVars>>

ServerAccepts(m) ==
  /\ Status(m) = "sent"
  /\ IsFollow(Stage(m)) => heartbeat = <<m, Stage(m)>>
  /\ IF IsPlan(Stage(m)) THEN UNCHANGED lease
                         ELSE lease = Nobody /\ lease' = <<m, Stage(m)>>
  /\ SetChild(m, [Current(m) EXCEPT !.status = "active"])
  /\ UNCHANGED <<missionVars, up, heartbeat, context>>

\* Plan never sends a datagram; the behaviour server gives its Result after it
\* has released the lease, with quiescence confirmed or not.
ServerEnds(m) ==
  /\ Status(m) = "active"
  /\ \E verdict \in {"succeeded", "cancelled", "failed"}, confirmed \in BOOLEAN, n \in 0 .. 1 :
       /\ verdict = "cancelled" => Current(m).cancelled
       /\ IsPlan(Stage(m)) => ~confirmed /\ n = 0
       /\ SetChild(m, [Current(m) EXCEPT !.status = "ended", !.outcome = verdict,
                                         !.quiet = confirmed, !.count = n])
  /\ lease' = IF lease = <<m, Stage(m)>> THEN Nobody ELSE lease
  /\ UNCHANGED <<missionVars, up, heartbeat, context>>

\* Another client of the behaviour server: a jog, a Follow of its own, ...
OtherGoal == lease = Nobody /\ lease' = <<"other">>
             /\ UNCHANGED <<missionVars, children, up, heartbeat, context>>
OtherEnds == lease = <<"other">> /\ lease' = Nobody
             /\ UNCHANGED <<missionVars, children, up, heartbeat, context>>

\* A server process dies with the goals it has.
ServerDies(s) ==
  /\ "server" \in Faults /\ s \in up
  /\ up' = up \ {s}
  /\ children' = [m \in Missions |->
       IF Status(m) \in {"sent", "active"} /\ Server(Stage(m)) = s
         THEN [children[m] EXCEPT ![Stage(m)].status = "lost"]
         ELSE children[m]]
  /\ lease' = IF s = "behavior" THEN Nobody ELSE lease
  /\ UNCHANGED <<missionVars, heartbeat, context>>

ContextDown ==
  /\ "exit" \in Faults /\ context
  /\ context' = FALSE
  /\ UNCHANGED <<missionVars, children, up, lease, heartbeat>>

-----------------------------------------------------------------------------
(* Operator heartbeats. *)

\* publishOperatorHeartbeat(): the session is set by sendFollow() for the Plan +
\* Follow operation of the panel, and only there.
PanelHeartbeat ==
  /\ heartbeat' = <<"panel">>
  /\ UNCHANGED <<missionVars, children, up, lease, context>>

\* Any other node may publish the heartbeat of the trajectory of a Follow stage.
SupervisorHeartbeat(m) ==
  /\ m \in Supervisors
  /\ phase[m] \in {"sending", "running"} /\ IsFollow(Stage(m))
  /\ heartbeat' = <<m, Stage(m)>>
  /\ UNCHANGED <<missionVars, children, up, lease, context>>

HeartbeatExpires ==
  /\ heartbeat # Nobody /\ heartbeat' = Nobody
  /\ UNCHANGED <<missionVars, children, up, lease, context>>

-----------------------------------------------------------------------------

Mission(m) ==
  \/ Unreserve(m) \/ SendGoal(m) \/ ServerUnavailable(m) \/ GoalRefused(m)
  \/ GoalAccepted(m) \/ ForwardCancel(m) \/ TransportError(m) \/ ResultArrives(m)

Serve(m) ==
  ServerRefuses(m) \/ FollowUnsupervised(m) \/ ServerAccepts(m) \/ ServerEnds(m)

Next ==
  \/ \E m \in Missions : OnGoal(m) \/ OnCancel(m) \/ Mission(m) \/ Serve(m)
                           \/ SupervisorHeartbeat(m)
  \/ OtherGoal \/ OtherEnds \/ PanelHeartbeat \/ HeartbeatExpires
  \/ \E s \in Servers : ServerDies(s)
  \/ ContextDown

Spec == Init /\ [][Next]_vars

\* The mission's thread runs, and a server that is up answers every goal
\* (LiveBehavior: EveryGoalEnds).
FairSpec == Spec /\ \A m \in Missions : WF_vars(Mission(m)) /\ WF_vars(Serve(m))

-----------------------------------------------------------------------------

Holders == {Nobody, <<"other">>, <<"panel">>} \cup (Missions \X (1 .. LastStage))

TypeOK ==
  /\ phase \in [Missions -> {"idle", "rejected", "server", "sending", "running",
                             "ending", "done"}]
  /\ children \in [Missions -> Seq(Child)]
  /\ \A m \in Missions : Len(children[m]) <= LastStage
  /\ cancel \in [Missions -> BOOLEAN] /\ quiet \in [Missions -> BOOLEAN]
  /\ outcome \in [Missions -> {"", "succeeded", "cancelled", "failed", "transport"}]
  /\ datagrams \in [Missions -> 0 .. 4] /\ late \in [Missions -> Nat]
  /\ reserved \in BOOLEAN /\ context \in BOOLEAN
  /\ up \subseteq Servers
  /\ lease \in Holders /\ heartbeat \in Holders

\* The reservation and the execute callbacks agree: a rejected goal never gives
\* back, and a finishing one never keeps, the reservation of another.
OneMission ==
  /\ \A m, n \in Missions : Executing(m) /\ Executing(n) => m = n
  /\ reserved <=> \E m \in Missions : Executing(m)

\* A stage is sent only when every earlier one ended, succeeded and, if it moves
\* the machine, was confirmed quiet: two stages never move it at the same time.
StagesInOrder ==
  \A m \in Missions : \A j \in 1 .. Stage(m) - 1 :
    /\ children[m][j].status = "ended" /\ children[m][j].outcome = "succeeded"
    /\ IsPlan(j) \/ children[m][j].quiet

\* While the mission node is up, a mission with a Result has no goal left that
\* could still move the machine.
NoOrphan ==
  \A m \in Missions : phase[m] \in {"ending", "done"} /\ context
                        => Status(m) \notin {"sent", "active"}

\* A mission that confirms quiescence has no goal in progress, and every goal
\* that may have moved the machine confirmed quiescence itself.
QuietIsReal ==
  \A m \in Missions : quiet[m] =>
    \A k \in 1 .. Stage(m) : /\ children[m][k].status = "ended"
                             /\ children[m][k].count > 0 => children[m][k].quiet

\* SUCCEEDED is reported only for six stages that succeeded, the moving ones
\* confirmed quiet, whatever was cancelled or failed on the way.
SuccessIsComplete ==
  \A m \in Missions : outcome[m] = "succeeded" =>
    /\ Stage(m) = Len(Stages)
    /\ \A k \in DOMAIN children[m] : /\ children[m][k].outcome = "succeeded"
                                     /\ IsPlan(k) \/ children[m][k].quiet

\* The datagrams of stage k, by its Result.
DatagramsOf(m, k) == IF k <= Stage(m) THEN children[m][k].count ELSE 0

\* No datagram of any stage is left out of the Result or counted twice,
\* whichever way the mission ends, unless the node was shut down.
DatagramsAddUp ==
  \A m \in Missions : outcome[m] \notin {"", "transport"} =>
    datagrams[m] = DatagramsOf(m, 1) + DatagramsOf(m, 2) + DatagramsOf(m, 3)
                   + DatagramsOf(m, 4) + DatagramsOf(m, 5) + DatagramsOf(m, 6)

\* At most one more stage goal goes out after a cancel request was accepted.
CancelBounded == \A m \in Missions : late[m] <= 1

\* Every mission comes to an end and gives the reservation back, unless the
\* server of its stage has died; then it waits until its own node goes down.
MissionEnds ==
  \A m \in Missions : phase[m] = "server" ~> phase[m] = "done" \/ (Status(m) = "lost" /\ context)

\* Full Mission needs no supervisor but the panel that started it: the panel's
\* tooltip and the operator's manual have it run Follow like the panel does.
FollowStageSupervised ==
  \A m \in Missions : \A k \in 1 .. Stage(m) : ~children[m][k].unsupervised
================================================================================
