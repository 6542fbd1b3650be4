----------------------------- MODULE PanelOperation -----------------------------
(***************************************************************************)
(* The operation an operator's panel owns: buttons, goal and result        *)
(* callbacks, cancel and the heartbeats that stand for the operator's hand *)
(* (airy_mission_panel/src/excavation_panel.cpp), in front of Action       *)
(* servers that refuse, accept and end goals as they like.                 *)
(*                                                                         *)
(* Two threads: the Qt thread (buttons, timers) and the one that runs the  *)
(* ROS callbacks.  What a handler does under mutex_ is one step; sending   *)
(* a goal, a cancel request or a heartbeat comes after it, unlocked.       *)
(***************************************************************************)
EXTENDS Naturals

CONSTANTS
  Configs,       \* how the runtime may be configured
  MaxOperations  \* bound: operations the operator starts

Operations == {"PlanFollow", "ExecuteDig", "ExecuteDump", "FullMission", "ReturnHome", "ManualJog"}

Config == [mode : {"shadow", "control"}, stage : {"none", "commissioning", "production"},
           canary : BOOLEAN, validated : BOOLEAN, jog : BOOLEAN]

ASSUME PanelAssumption ==
  Configs \subseteq Config /\ Configs # {} /\ MaxOperations \in Nat

\* The Action goals, named for the Action; the operation an Action serves.
Actions == {"Plan", "Follow"} \union (Operations \ {"PlanFollow"})
OperationOf(a) == IF a \in {"Plan", "Follow"} THEN "PlanFollow" ELSE a

VARIABLES
  config,         \* of the runtime, as RuntimeStatus shows it
  owned,          \* owned_operation_
  cancelRequested, \* cancel_requested_
  handles,        \* the goal handles that are set
  followBeat,     \* follow_heartbeat_active_
  followSession,  \* follow_session_id_ is set
  jogBeat,        \* jog_heartbeat_active_
  ui,             \* where the Qt thread is, and the Action it is about
  cb,             \* where the callback thread is, and the Action it is about
  goal,           \* per Action, the last goal sent
  alive,          \* the panel has not been closed
  started,        \* operations started so far
  late,           \* history: heartbeats after the operation was cancelled or over
  verdict         \* result_text_

panelVars == <<config, owned, cancelRequested, handles, followBeat, followSession, jogBeat,
               ui, cb, goal, alive, started, late, verdict>>

At(place, a) == [at |-> place, on |-> a]
Free == At("free", "none")

\* A goal on its way to the server ("sent"), with it ("running"), over ("ended", with
\* what it ended as) or refused; asked: a cancel request went out; told: the callbacks
\* the panel has had.
Result == [code : {"succeeded", "cancelled", "stopped", "failed"}, quiet : BOOLEAN]
NoResult == [code |-> "failed", quiet |-> FALSE]
NoGoal == [at |-> "none", asked |-> FALSE, told |-> "none", result |-> NoResult]

Init ==
  /\ config \in Configs
  /\ owned = "Idle" /\ cancelRequested = FALSE /\ handles = {}
  /\ followBeat = FALSE /\ followSession = FALSE /\ jogBeat = FALSE
  /\ ui = Free /\ cb = Free
  /\ goal = [a \in Actions |-> NoGoal]
  /\ alive = TRUE /\ started = 0 /\ late = 0 /\ verdict = "none"

-----------------------------------------------------------------------------
(* What the operator may start: derive_panel_view().  Whether the status is   *)
(* fresh and safe, the servers are ready and the targets known is left open.  *)

FixedReady ==
  \/ config.stage = "commissioning"
  \/ config.stage = "production" /\ config.validated

Enabled(op) ==
  /\ owned = "Idle"
  /\ \/ op = "PlanFollow" /\ (config.mode = "shadow" \/ config.canary)
     \/ op = "ReturnHome" /\ config.mode = "shadow"
     \/ op \in {"ExecuteDig", "ExecuteDump"} /\ config.mode = "control" /\ FixedReady
     \/ op = "FullMission" /\ config.mode = "control"
                           /\ config.stage = "production" /\ config.validated
     \/ op = "ManualJog" /\ config.mode = "control" /\ config.jog

\* The assignments every start makes.
Own(op) ==
  /\ owned' = op /\ cancelRequested' = FALSE
  /\ started' = started + 1 /\ late' = 0 /\ verdict' = "none"

Idle == alive /\ ui = Free /\ started < MaxOperations

StartExecuteDig ==
  /\ Idle /\ Enabled("ExecuteDig") /\ Own("ExecuteDig")
  /\ ui' = At("send", "ExecuteDig")
  /\ UNCHANGED <<config, handles, followBeat, followSession, jogBeat, cb, goal, alive>>

StartExecuteDump ==
  /\ Idle /\ Enabled("ExecuteDump") /\ Own("ExecuteDump")
  /\ ui' = At("send", "ExecuteDump")
  /\ UNCHANGED <<config, handles, followBeat, followSession, jogBeat, cb, goal, alive>>

StartFullMission ==
  /\ Idle /\ Enabled("FullMission") /\ Own("FullMission")
  /\ ui' = At("send", "FullMission")
  /\ UNCHANGED <<config, handles, followBeat, followSession, jogBeat, cb, goal, alive>>

StartReturnHome ==
  /\ Idle /\ Enabled("ReturnHome") /\ Own("ReturnHome")
  /\ ui' = At("send", "ReturnHome")
  /\ UNCHANGED <<config, handles, followBeat, followSession, jogBeat, cb, goal, alive>>

\* The session is named, the first heartbeat goes out or, if the button is up or the
\* focus gone already, the jog is stopped; the goal is sent all the same.
StartManualJog ==
  /\ Idle /\ Enabled("ManualJog")
  /\ owned' = "ManualJog" /\ started' = started + 1 /\ late' = 0 /\ verdict' = "none"
  /\ \E down \in BOOLEAN : jogBeat' = down /\ cancelRequested' = ~down
  /\ ui' = At("send", "ManualJog")
  /\ UNCHANGED <<config, handles, followBeat, followSession, cb, goal, alive>>

\* startClickedPlanFollow(), up to startPlanFollow(): supervision begins.
ClickPlanFollow ==
  /\ Idle /\ owned = "Idle"
  /\ IF config.canary THEN followBeat' = TRUE /\ followSession' = FALSE
     ELSE UNCHANGED <<followBeat, followSession>>
  /\ ui' = At("plan", "Plan")
  /\ UNCHANGED <<config, owned, cancelRequested, handles, jogBeat, cb, goal, alive, started, late, verdict>>

\* startPlanFollow() looks at the view again.
StartPlanFollow ==
  /\ ui.at = "plan"
  /\ \/ Enabled("PlanFollow") /\ Own("PlanFollow") /\ ui' = At("send", "Plan")
     \/ ui' = At("settle", "Plan") /\ UNCHANGED <<owned, cancelRequested, started, late, verdict>>
  /\ UNCHANGED <<config, handles, followBeat, followSession, jogBeat, cb, goal, alive>>

\* Its end: supervision only lasts if the operation is there.
SettlePlanFollow ==
  /\ ui.at = "settle"
  /\ followBeat' = (followBeat /\ owned = "PlanFollow")
  /\ ui' = Free
  /\ UNCHANGED <<config, owned, cancelRequested, handles, followSession, jogBeat, cb, goal, alive, started,
                 late, verdict>>

Sent(a) == goal' = [goal EXCEPT ![a] = [NoGoal EXCEPT !.at = "sent"]]

\* async_send_goal() of a start.
SendGoal ==
  /\ ui.at = "send" /\ Sent(ui.on)
  /\ ui' = IF ui.on = "Plan" THEN At("settle", "Plan") ELSE Free
  /\ UNCHANGED <<config, owned, cancelRequested, handles, followBeat, followSession, jogBeat, cb, alive,
                 started, late, verdict>>

-----------------------------------------------------------------------------
(* Cancel and heartbeats, on the Qt thread. *)

\* MUTANT: the heartbeat is not switched off by a cancel.
CancelOwnedBeating ==
  /\ alive /\ ui = Free /\ owned # "Idle"
  /\ cancelRequested' = TRUE
  /\ IF handles = {} THEN ui' = Free ELSE \E a \in handles : ui' = At("cancel", a)
  /\ UNCHANGED <<config, owned, handles, followBeat, followSession, jogBeat, cb, goal, alive, started, late,
                 verdict>>

\* MUTANT: the operation counts as over once its cancel is sent.
CancelOwnedFinishes ==
  /\ alive /\ ui = Free /\ owned # "Idle"
  /\ owned' = "Idle" /\ cancelRequested' = FALSE
  /\ handles' = {} /\ followBeat' = FALSE /\ followSession' = FALSE /\ jogBeat' = FALSE
  /\ IF handles = {} THEN ui' = Free ELSE \E a \in handles : ui' = At("cancel", a)
  /\ UNCHANGED <<config, cb, goal, alive, started, late, verdict>>

\* cancelOwnedOperation(), under the lock: at most one handle is set.
CancelOwned ==
  /\ alive /\ ui = Free /\ owned # "Idle"
  /\ cancelRequested' = TRUE
  /\ jogBeat' = (jogBeat /\ owned # "ManualJog")
  /\ followBeat' = (followBeat /\ owned # "PlanFollow")
  /\ followSession' = (followSession /\ owned # "PlanFollow")
  /\ IF handles = {} THEN ui' = Free ELSE \E a \in handles : ui' = At("cancel", a)
  /\ UNCHANGED <<config, owned, handles, cb, goal, alive, started, late, verdict>>

\* stopManualJog(), likewise: the button is released.
StopManualJog ==
  /\ alive /\ ui = Free /\ owned = "ManualJog"
  /\ jogBeat' = FALSE /\ cancelRequested' = TRUE
  /\ ui' = IF "ManualJog" \in handles THEN At("cancel", "ManualJog") ELSE Free
  /\ UNCHANGED <<config, owned, handles, followBeat, followSession, cb, goal, alive, started, late, verdict>>

\* async_cancel_goal().  A goal whose Result the client has had is unknown to it:
\* the request is not sent.
Ask(a) ==
  goal' = IF goal[a].told = "response" THEN [goal EXCEPT ![a].asked = TRUE] ELSE goal

UiCancels ==
  /\ ui.at = "cancel" /\ Ask(ui.on) /\ ui' = Free
  /\ UNCHANGED <<config, owned, cancelRequested, handles, followBeat, followSession, jogBeat, cb, alive,
                 started, late, verdict>>

\* publishOperatorHeartbeat() and publishJogHeartbeat() take the session under the
\* lock and publish it after.
OperatorBeat ==
  /\ alive /\ ui = Free /\ followBeat /\ followSession
  /\ ui' = At("beat", "Follow")
  /\ UNCHANGED <<config, owned, cancelRequested, handles, followBeat, followSession, jogBeat, cb, goal, alive,
                 started, late, verdict>>

JogBeat ==
  /\ alive /\ ui = Free /\ jogBeat
  /\ ui' = At("beat", "ManualJog")
  /\ UNCHANGED <<config, owned, cancelRequested, handles, followBeat, followSession, jogBeat, cb, goal, alive,
                 started, late, verdict>>

Published(a) ==
  late' = IF cancelRequested \/ owned # OperationOf(a) THEN late + 1 ELSE late

UiPublishes ==
  /\ ui.at = "beat" /\ Published(ui.on) /\ ui' = Free
  /\ UNCHANGED <<config, owned, cancelRequested, handles, followBeat, followSession, jogBeat, cb, goal, alive,
                 started, verdict>>

\* ~ExcavationPanel() waits for a callback that runs; none runs after it.
Close ==
  /\ alive /\ ui = Free /\ cb = Free
  /\ alive' = FALSE
  /\ UNCHANGED <<config, owned, cancelRequested, handles, followBeat, followSession, jogBeat, ui, cb, goal,
                 started, late, verdict>>

-----------------------------------------------------------------------------
(* The callbacks. *)

\* finishOperationLocked() and failOperationLocked().
FinishOperation(text) ==
  /\ owned' = "Idle" /\ cancelRequested' = FALSE /\ handles' = {}
  /\ followBeat' = FALSE /\ followSession' = FALSE /\ jogBeat' = FALSE
  /\ verdict' = text

\* MUTANT: a refusal leaves the operation owned.
GoalRefusedKept(a) ==
  /\ verdict' = "failed" /\ cb' = Free
  /\ UNCHANGED <<owned, cancelRequested, handles, followBeat, followSession, jogBeat>>

GoalRefused(a) == FinishOperation("failed") /\ cb' = Free

\* MUTANT: the callback does not look at cancel_requested_.
GoalAcceptedBlind(a) ==
  /\ handles' = handles \union {a} /\ cb' = Free
  /\ UNCHANGED <<owned, cancelRequested, followBeat, followSession, jogBeat, verdict>>

GoalAccepted(a) ==
  /\ handles' = handles \union {a}
  /\ cb' = IF cancelRequested THEN At("cancel", a) ELSE Free
  /\ UNCHANGED <<owned, cancelRequested, followBeat, followSession, jogBeat, verdict>>

\* goal_response_callback, the same for each Action.
GoalResponse(a) ==
  /\ alive /\ cb = Free
  /\ goal[a].at \in {"refused", "running", "ended"} /\ goal[a].told = "none"
  /\ goal' = [goal EXCEPT ![a].told = "response"]
  /\ IF goal[a].at = "refused" THEN GoalRefused(a) ELSE GoalAccepted(a)
  /\ UNCHANGED <<config, ui, alive, started, late>>

CbCancels ==
  /\ cb.at = "cancel" /\ Ask(cb.on) /\ cb' = Free
  /\ UNCHANGED <<config, owned, cancelRequested, handles, followBeat, followSession, jogBeat, ui, alive,
                 started, late, verdict>>

\* What the result callbacks make of a Result.
Succeeded(r) == r.code = "succeeded" /\ r.quiet
Cancelled(r) == cancelRequested /\ r.code = "cancelled" /\ r.quiet

FollowText(r) ==
  IF Succeeded(r) THEN "succeeded"
  ELSE IF Cancelled(r) THEN "cancelled"
  ELSE IF r.code = "stopped" /\ r.quiet THEN "stopped" ELSE "failed"

ExecuteDigText(r) ==
  IF Succeeded(r) THEN "succeeded" ELSE IF Cancelled(r) THEN "cancelled" ELSE "failed"

ExecuteDumpText(r) ==
  IF Succeeded(r) THEN "succeeded" ELSE IF Cancelled(r) THEN "cancelled" ELSE "failed"

FullMissionText(r) ==
  IF Succeeded(r) THEN "succeeded" ELSE IF Cancelled(r) THEN "cancelled" ELSE "failed"

\* Its servers send no datagram, which the callback checks.
ReturnHomeText(r) ==
  IF Succeeded(r) THEN "succeeded" ELSE IF Cancelled(r) THEN "cancelled" ELSE "failed"

\* A jog ends well when it was cancelled, by whomever, or held to its limit.
ManualJogText(r) ==
  IF r.quiet /\ r.code \in {"succeeded", "cancelled"} THEN "stopped" ELSE "failed"

Text(a, r) ==
  CASE a = "Follow"      -> FollowText(r)
    [] a = "ExecuteDig"  -> ExecuteDigText(r)
    [] a = "ExecuteDump" -> ExecuteDumpText(r)
    [] a = "FullMission" -> FullMissionText(r)
    [] a = "ReturnHome"  -> ReturnHomeText(r)
    [] a = "ManualJog"   -> ManualJogText(r)

ResultDue(a) ==
  /\ alive /\ cb = Free
  /\ goal[a].at = "ended" /\ goal[a].told = "response"

\* The result callback of every Action but Plan.
GoalResult(a) ==
  /\ a # "Plan" /\ ResultDue(a)
  /\ goal' = [goal EXCEPT ![a].told = "result"]
  /\ FinishOperation(Text(a, goal[a].result)) /\ cb' = Free
  /\ UNCHANGED <<config, ui, alive, started, late>>

\* With a cancel requested, no Follow.
PlanSuppressed == cancelRequested

\* The result callback of Plan: suppressed, failed, or on to the Follow if the
\* trajectory is of this target and scope and has not expired.
PlanResult ==
  LET r == goal["Plan"].result IN
  /\ ResultDue("Plan")
  /\ goal' = [goal EXCEPT !["Plan"].told = "result"]
  /\ \/ /\ PlanSuppressed /\ cb' = Free
        /\ FinishOperation(IF r.code \in {"cancelled", "succeeded"} THEN "cancelled" ELSE "failed")
     \/ /\ ~PlanSuppressed /\ cb' = Free
        /\ FinishOperation("failed")
     \/ /\ ~PlanSuppressed /\ r.code = "succeeded"
        /\ handles' = handles \ {"Plan"} /\ cb' = At("follow", "Follow")
        /\ UNCHANGED <<owned, cancelRequested, followBeat, followSession, jogBeat, verdict>>
  /\ UNCHANGED <<config, ui, alive, started, late>>

\* sendFollow(): no server, or supervision released meanwhile.
FollowNotSent ==
  /\ cb.at = "follow" /\ cb' = Free
  /\ FinishOperation("failed")
  /\ UNCHANGED <<config, ui, goal, alive, started, late>>

\* sendFollow(), under the lock: the trajectory names the supervised session.
FollowSupervised ==
  /\ cb.at = "follow" /\ (config.canary => followBeat)
  /\ followSession' = config.canary
  /\ cb' = At("firstBeat", "Follow")
  /\ UNCHANGED <<config, owned, cancelRequested, handles, followBeat, jogBeat, ui, goal, alive, started, late,
                 verdict>>

\* Its publishOperatorHeartbeat(), under the lock.
FirstBeat ==
  /\ cb.at = "firstBeat"
  /\ cb' = At(IF followBeat /\ followSession THEN "beat" ELSE "send", "Follow")
  /\ UNCHANGED <<config, owned, cancelRequested, handles, followBeat, followSession, jogBeat, ui, goal, alive,
                 started, late, verdict>>

CbPublishes ==
  /\ cb.at = "beat" /\ Published("Follow") /\ cb' = At("send", "Follow")
  /\ UNCHANGED <<config, owned, cancelRequested, handles, followBeat, followSession, jogBeat, ui, goal, alive,
                 started, verdict>>

SendFollow ==
  /\ cb.at = "send" /\ Sent("Follow") /\ cb' = Free
  /\ UNCHANGED <<config, owned, cancelRequested, handles, followBeat, followSession, jogBeat, ui, alive,
                 started, late, verdict>>

-----------------------------------------------------------------------------
(* The servers, as the callbacks see them. *)

panelOnly == <<config, owned, cancelRequested, handles, followBeat, followSession, jogBeat, ui, cb, alive,
               started, late, verdict>>

ServerAnswers(a) ==
  /\ goal[a].at = "sent"
  /\ \E at \in {"refused", "running"} : goal' = [goal EXCEPT ![a].at = at]
  /\ UNCHANGED panelOnly

\* Only a goal that was asked to ends as cancelled.
ServerEnds(a) ==
  /\ goal[a].at = "running"
  /\ \E r \in Result :
       /\ r.code = "cancelled" => goal[a].asked
       /\ goal' = [goal EXCEPT ![a].at = "ended", ![a].result = r]
  /\ UNCHANGED panelOnly

ServerDies(a) ==
  /\ goal[a].at \in {"sent", "running"}
  /\ goal' = [goal EXCEPT ![a].at = "lost"]
  /\ UNCHANGED panelOnly

QtStep ==
  \/ StartPlanFollow \/ SettlePlanFollow \/ SendGoal \/ UiCancels \/ UiPublishes

Operator ==
  \/ StartExecuteDig \/ StartExecuteDump \/ StartFullMission \/ StartReturnHome \/ StartManualJog
  \/ ClickPlanFollow \/ CancelOwned \/ StopManualJog \/ OperatorBeat \/ JogBeat \/ Close

CallbackStep ==
  \/ \E a \in Actions : GoalResponse(a) \/ GoalResult(a)
  \/ PlanResult \/ CbCancels \/ FollowNotSent \/ FollowSupervised \/ FirstBeat \/ CbPublishes \/ SendFollow

ServerStep == \E a \in Actions : ServerAnswers(a) \/ ServerEnds(a)

Next == Operator \/ QtStep \/ CallbackStep \/ ServerStep \/ \E a \in Actions : ServerDies(a)

Spec == Init /\ [][Next]_panelVars

\* Threads that run and servers that answer (LiveBehavior shows EveryGoalEnds,
\* MissionCycle MissionEnds); nothing is assumed of the operator.
FairSpec ==
  Spec /\ WF_panelVars(QtStep) /\ WF_panelVars(CallbackStep) /\ WF_panelVars(ServerStep)

-----------------------------------------------------------------------------

UiPlaces == {"free", "plan", "send", "settle", "cancel", "beat"}
CbPlaces == {"free", "cancel", "follow", "firstBeat", "beat", "send"}

\* Types.
PanelTypeOK ==
  /\ config \in Configs /\ owned \in Operations \union {"Idle"} /\ cancelRequested \in BOOLEAN
  /\ handles \subseteq Actions
  /\ followBeat \in BOOLEAN /\ followSession \in BOOLEAN /\ jogBeat \in BOOLEAN
  /\ ui \in [at : UiPlaces, on : Actions \union {"none"}]
  /\ cb \in [at : CbPlaces, on : Actions \union {"none"}]
  /\ goal \in [Actions -> [at : {"none", "sent", "refused", "running", "ended", "lost"}, asked : BOOLEAN,
                           told : {"none", "response", "result"}, result : Result]]
  /\ alive \in BOOLEAN /\ started \in Nat /\ late \in Nat
  /\ verdict \in {"none", "succeeded", "cancelled", "stopped", "failed"}

\* A goal whose end the panel has yet to hear of.
Open(a) ==
  \/ goal[a].at = "sent"
  \/ goal[a].at \in {"refused", "lost"} /\ goal[a].told = "none"
  \/ goal[a].at \in {"running", "ended", "lost"} /\ goal[a].told # "result"

\* README of the panel: Cancel is for the operation the panel owns.  Once it has been
\* requested, and whatever answer is under way at that moment - between the click and
\* the goal's acceptance, or between the Plan's Result and the Follow goal - every goal
\* the panel knows to be accepted has been asked to stop, or a thread is about to.
CancelReaches ==
  cancelRequested /\ alive =>
    \A a \in Actions :
      Open(a) /\ goal[a].told = "response" => goal[a].asked \/ ui = At("cancel", a) \/ cb = At("cancel", a)

\* The panel has at most one goal open, of the operation it owns: an operation it
\* reports as over leaves no goal behind that still runs on a server.
NothingLeft ==
  \A a \in Actions : Open(a) =>
    /\ owned = OperationOf(a)
    /\ \A b \in Actions : Open(b) => b = a

\* The heartbeat is the operator's hand on the machine: after a cancel, a release of the
\* button or the end of the operation, at most the one that was being published goes out.
HeartbeatStops == late <= 1

\* With servers that answer, every operation comes to an end and the panel is free
\* again, cancelled or not; only the death of a server with the goal keeps it.
OperationEnds == owned # "Idle" ~> owned = "Idle" \/ ~alive \/ \E a \in Actions : goal[a].at = "lost"
=================================================================================
