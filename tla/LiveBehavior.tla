----------------------------- MODULE LiveBehavior ------------------------------
(***************************************************************************)
(* The live machine behaviour server                                       *)
(* (runtime_bridge/apps/live_machine_behavior_server.py): the node that    *)
(* may move the excavator.  Goal callbacks, execute callbacks, topic       *)
(* callbacks, the Machine State receiver and the main thread in            *)
(* destroy_node() run concurrently; what they share is the behaviour lease *)
(* _active_behavior, the caches behind _lock, and the command sink.        *)
(*                                                                         *)
(* A goal is an instance of one of the four Actions: Follow, ExecuteDig,   *)
(* ExecuteDump, HoldToJog.  Every goal has a thread of its own: first its  *)
(* goal callback, then, when it was accepted, its execute callback.        *)
(*                                                                         *)
(* Time advances in ticks.  The machine is represented by one number per   *)
(* goal: for how many ticks a non-zero command of that goal may still be   *)
(* in force at the Orin.  It covers every delay, loss, duplication and     *)
(* reordering of datagrams, because a command is void valid_for_ms after   *)
(* it was stamped, whatever happened to the zeros sent after it.           *)
(***************************************************************************)
EXTENDS Integers, Sequences, FiniteSets

CONSTANTS
  Follows,       \* Follow goals
  Digs,          \* ExecuteDig goals
  Dumps,         \* ExecuteDump goals
  Jogs,          \* HoldToJog goals
  DigestOf,      \* the trajectory digest a Follow goal carries
  IdOf,          \* the session of a goal: trajectory_id or jog session_id
  Plans,         \* the trajectories a Plan server publishes: digest and id
  Production,    \* control_stage is production (else commissioning)
  PlanCap,       \* published trajectories remembered (8 in the code)
  TipCap,        \* bucket-tip poses remembered (32 in the code)
  MaxAge,        \* machine_state_timeout_ms, in ticks
  HbTimeout,     \* heartbeat_timeout_ms, in ticks
  MaxHold,       \* max_hold_ms of a jog, in ticks
  ValidTicks,    \* action_valid_ms, in ticks
  StopTicks,     \* the 0.6 s of terminal zeros, in ticks
  DrainTicks,    \* action_valid_ms + 20 ms of silence after them, in ticks
  MaxStates,     \* bound: Machine States received
  MaxPlans,      \* bound: plan publications
  Faults         \* the faults a run lets happen

Goals  == Follows \cup Digs \cup Dumps \cup Jogs
Fixeds == Digs \cup Dumps

ASSUME LiveAssumption ==
  /\ Follows \cap Fixeds = {} /\ Follows \cap Jogs = {} /\ Fixeds \cap Jogs = {}
  /\ Digs \cap Dumps = {}
  /\ Production \in BOOLEAN
  /\ {PlanCap, TipCap} \subseteq Nat \ {0}
  /\ {MaxAge, HbTimeout, MaxHold, ValidTicks, StopTicks, DrainTicks} \subseteq Nat
  /\ {MaxStates, MaxPlans} \subseteq Nat
  /\ DrainTicks >= ValidTicks
  /\ Faults \subseteq {"journal", "transport", "exit"}

VARIABLES
  gates,         \* per received Machine State: "open", "closed" or "actuator"
  ages,          \* per received Machine State: ticks since it was received
  tips,          \* states whose bucket-tip pose is cached
  opHb,          \* last operator heartbeat: session and age
  jogHb,         \* last jog heartbeat: session and age
  planned,       \* _planned_trajectories, oldest publication first
  published,     \* how many plan publications were taken in
  active,        \* _active_behavior
  disarmed,      \* MotionCommandSink._disarmed
  lastStateSeq,  \* MotionCommandSink._last_state_seq
  journalOk,     \* RecordedUdpSender.is_healthy
  pc,            \* per goal: where its thread is
  cancel,        \* per goal: is_cancel_requested
  last,          \* per goal: the state its loop works on (last_sample)
  pend,          \* per goal: pending_physical: "none", "zero" or "motion"
  fresh,         \* per goal: the age check of the send under way
  ending,        \* per goal: the outcome it is heading for
  timer,         \* per goal: ticks left of the period it is in
  quiet,         \* per goal: result.quiescence_confirmed
  context,       \* rclpy.ok()
  node,          \* progress of destroy_node()
  nodeTimer,     \* ticks left of the period destroy_node() is in
  live,          \* per goal: ticks its last motion command may stay in force
  blind          \* motion sent since the newest state stopped allowing it

stateVars == <<gates, ages>>
cacheVars == <<tips, opHb, jogHb, planned, published>>
sinkVars  == <<disarmed, lastStateSeq, journalOk>>
loopVars  == <<last, pend, fresh, timer>>
goalVars  == <<pc, cancel, ending, quiet, loopVars>>
nodeVars  == <<context, node, nodeTimer>>
machine   == <<live, blind>>
vars == <<stateVars, cacheVars, active, sinkVars, goalVars, nodeVars, machine>>

None == "none"
NoHeartbeat == [session |-> None, age |-> 0]

Behavior(g) == CASE g \in Follows -> "Follow"
                 [] g \in Digs    -> "ExecuteDig"
                 [] g \in Dumps   -> "ExecuteDump"
                 [] OTHER         -> "HoldToJog"

Latest    == Len(gates)
StateFresh(s) == s > 0 /\ ages[s] <= MaxAge
HbFresh(hb, g) == hb.session = IdOf[g] /\ hb.age <= HbTimeout

\* Where a thread holds the lease: from _reserve() to the release.
Looping == {"begin", "start", "first", "top", "wait", "tip", "decide", "emit"}
Stopping == {"zero", "stopping", "drain", "release"}
Owning  == Looping \cup Stopping
Owner(g) == pc[g] \in Owning

Goto(g, label) == pc' = [pc EXCEPT ![g] = label]

Init ==
  /\ gates = << >> /\ ages = << >> /\ tips = {}
  /\ opHb = NoHeartbeat /\ jogHb = NoHeartbeat
  /\ planned = << >> /\ published = 0
  /\ active = ""
  /\ disarmed = FALSE /\ lastStateSeq = 0 /\ journalOk = TRUE
  /\ pc = [g \in Goals |-> "idle"] /\ cancel = [g \in Goals |-> FALSE]
  /\ last = [g \in Goals |-> 0] /\ pend = [g \in Goals |-> "none"]
  /\ fresh = [g \in Goals |-> FALSE] /\ ending = [g \in Goals |-> ""]
  /\ timer = [g \in Goals |-> 0] /\ quiet = [g \in Goals |-> FALSE]
  /\ context = TRUE /\ node = "up" /\ nodeTimer = 0
  /\ live = [g \in Goals |-> 0] /\ blind = 0

-----------------------------------------------------------------------------
(* Inputs: Machine States, bucket tips, heartbeats, plan publications. *)

ReceiveState(gate) ==
  /\ node = "up" /\ Latest < MaxStates
  /\ gates' = Append(gates, gate)
  /\ ages' = Append(ages, 0)
  /\ blind' = IF gate = "open" THEN 0 ELSE blind
  /\ UNCHANGED <<cacheVars, active, sinkVars, goalVars, nodeVars, live>>

\* The FK node answers a state with a tip of the same stamp, or never.
OnTip(s) ==
  /\ \A t \in tips : t < s
  /\ LET kept == tips \cup {s}
     IN  tips' = IF Cardinality(kept) > TipCap
                   THEN {t \in kept : \E u \in kept : u < t}
                   ELSE kept
  /\ UNCHANGED <<stateVars, opHb, jogHb, planned, published, active, sinkVars,
                 goalVars, nodeVars, machine>>

OnOperatorHeartbeat(g) ==
  /\ opHb' = [session |-> IdOf[g], age |-> 0]
  /\ UNCHANGED <<stateVars, tips, jogHb, planned, published, active, sinkVars,
                 goalVars, nodeVars, machine>>

OnJogHeartbeat(g) ==
  /\ jogHb' = [session |-> IdOf[g], age |-> 0]
  /\ UNCHANGED <<stateVars, tips, opHb, planned, published, active, sinkVars,
                 goalVars, nodeVars, machine>>

\* dict(items[-7:]) updated with the new pair: a known digest keeps its place.
OnPlannedTrajectory(p) ==
  LET kept == IF Len(planned) < PlanCap THEN planned ELSE Tail(planned)
      at   == {i \in DOMAIN kept : kept[i].digest = p.digest}
  IN
  /\ published < MaxPlans
  /\ published' = published + 1
  /\ planned' = IF at = {} THEN Append(kept, p)
                ELSE [i \in DOMAIN kept |-> IF i \in at THEN p ELSE kept[i]]
  /\ UNCHANGED <<stateVars, tips, opHb, jogHb, active, sinkVars, goalVars,
                 nodeVars, machine>>

-----------------------------------------------------------------------------
(* Goal callbacks.  A callback may wait on the condition variable; it holds *)
(* no lease while it does.                                                  *)

Reject(g) == Goto(g, "rejected")

KeepGoal == UNCHANGED <<cancel, ending, quiet, loopVars>>

\* _on_follow_goal(), _on_fixed_goal(), _on_jog_goal(): an invalid request is
\* rejected at once, a valid one goes on to what its Action has to wait for.
GoalArrives(g) ==
  /\ pc[g] = "idle" /\ context
  /\ \/ Reject(g)
     \/ Goto(g, CASE g \in Follows -> "plan"
                  [] g \in Fixeds  -> "reserve"
                  [] OTHER         -> "heartbeat")
  /\ KeepGoal
  /\ UNCHANGED <<stateVars, cacheVars, active, sinkVars, nodeVars, machine>>

\* MUTANT: the digest is looked up, not popped.
PlanFoundKept(g) ==
  /\ pc[g] = "plan"
  /\ \E i \in DOMAIN planned :
       /\ planned[i].digest = DigestOf[g]
       /\ IF planned[i].id = IdOf[g] THEN Goto(g, "heartbeat") ELSE Reject(g)
  /\ KeepGoal
  /\ UNCHANGED <<stateVars, cacheVars, active, sinkVars, nodeVars, machine>>

\* The digest is popped as soon as it is found, whatever happens to the goal.
PlanFound(g) ==
  \E i \in DOMAIN planned :
    /\ pc[g] = "plan"
    /\ planned[i].digest = DigestOf[g]
    /\ planned' = [j \in 1 .. Len(planned) - 1 |-> planned[IF j < i THEN j ELSE j + 1]]
    /\ IF planned[i].id = IdOf[g] THEN Goto(g, "heartbeat") ELSE Reject(g)
    /\ KeepGoal
    /\ UNCHANGED <<stateVars, tips, opHb, jogHb, published, active, sinkVars,
                   nodeVars, machine>>

PlanTimeout(g) ==
  /\ pc[g] = "plan"
  /\ \A i \in DOMAIN planned : planned[i].digest # DigestOf[g]
  /\ Reject(g)
  /\ KeepGoal
  /\ UNCHANGED <<stateVars, cacheVars, active, sinkVars, nodeVars, machine>>

Heartbeat(g) == IF g \in Follows THEN opHb ELSE jogHb

\* A jog is also rejected when the newest state is inside the endpoint margin.
HeartbeatFound(g) ==
  /\ pc[g] = "heartbeat" /\ HbFresh(Heartbeat(g), g)
  /\ \/ Goto(g, "reserve")
     \/ g \in Jogs /\ Latest > 0 /\ Reject(g)
  /\ KeepGoal
  /\ UNCHANGED <<stateVars, cacheVars, active, sinkVars, nodeVars, machine>>

HeartbeatMissing(g) ==
  /\ pc[g] = "heartbeat" /\ ~HbFresh(Heartbeat(g), g)
  /\ Reject(g)
  /\ KeepGoal
  /\ UNCHANGED <<stateVars, cacheVars, active, sinkVars, nodeVars, machine>>

\* MUTANT: the lease is not looked at.
CanReserveBusy == journalOk /\ StateFresh(Latest) /\ gates[Latest] = "open"

\* _reserve(): every condition is read and the lease taken under _lock.
CanReserve ==
  /\ active = ""
  /\ journalOk
  /\ StateFresh(Latest)
  /\ gates[Latest] = "open"

Reserve(g) ==
  /\ pc[g] = "reserve"
  /\ IF CanReserve
       THEN active' = Behavior(g) /\ Goto(g, "begin")
       ELSE Reject(g) /\ UNCHANGED active
  /\ KeepGoal
  /\ UNCHANGED <<stateVars, cacheVars, sinkVars, nodeVars, machine>>

\* A cancel request is always accepted; the loop looks at it when it comes by.
OnCancel(g) ==
  /\ pc[g] \in Looping /\ ~cancel[g]
  /\ cancel' = [cancel EXCEPT ![g] = TRUE]
  /\ UNCHANGED <<pc, ending, quiet, loopVars, stateVars, cacheVars, active,
                 sinkVars, nodeVars, machine>>

-----------------------------------------------------------------------------
(* Execute callbacks. *)

\* The loop's own variables are gone once it is left.
ForgetLoop(g) ==
  /\ last' = [last EXCEPT ![g] = 0]
  /\ pend' = [pend EXCEPT ![g] = "none"]
  /\ fresh' = [fresh EXCEPT ![g] = FALSE]

\* Leave the loop: _finish_*() and its _stop_and_release().
Finish(g, outcome) ==
  /\ Goto(g, "zero")
  /\ ending' = [ending EXCEPT ![g] = outcome]
  /\ timer' = [timer EXCEPT ![g] = StopTicks]
  /\ ForgetLoop(g)
  /\ UNCHANGED <<cancel, quiet>>

\* _send_motion(): an actuator position outside its range sends a zero and
\* ends the behaviour; otherwise the state's age is taken and the command
\* handed to the sink.
SendMotion(g, s, what, outcome) ==
  IF gates[s] = "actuator"
    THEN Finish(g, "failed")
    ELSE /\ Goto(g, "emit")
         /\ last' = [last EXCEPT ![g] = s]
         /\ pend' = [pend EXCEPT ![g] = what]
         /\ fresh' = [fresh EXCEPT ![g] = StateFresh(s)]
         /\ ending' = [ending EXCEPT ![g] = outcome]
         /\ UNCHANGED <<cancel, quiet, timer>>

Others == UNCHANGED <<stateVars, cacheVars, active, sinkVars, nodeVars, machine>>

\* Any exception in a loop (policy, audit record, observation) ends it.
Raise(g) ==
  /\ pc[g] \in {"start", "first", "tip", "decide"} /\ Finish(g, "failed") /\ Others

Begin(g) ==
  /\ pc[g] = "begin"
  /\ Goto(g, IF g \in Fixeds THEN "start" ELSE "top")
  /\ last' = [last EXCEPT ![g] = Latest]
  /\ timer' = [timer EXCEPT ![g] = IF g \in Jogs THEN MaxHold ELSE 0]
  /\ UNCHANGED <<cancel, ending, quiet, pend, fresh>>
  /\ Others

\* The while condition: the context is gone, the callback returns nothing and
\* leaves the lease as it is.
LoopExits(g) ==
  /\ pc[g] \in {"first", "top"} /\ ~context
  /\ Goto(g, "exited")
  /\ ForgetLoop(g)
  /\ timer' = [timer EXCEPT ![g] = 0]
  /\ UNCHANGED <<cancel, ending, quiet>> /\ Others

Cancelled(g) ==
  /\ pc[g] \in {"first", "top"} /\ context
  /\ cancel[g] /\ (g \in Follows => HbFresh(opHb, g))
  /\ Finish(g, "cancelled") /\ Others

\* _run_fixed(): production wants the tip of the very state it starts from,
\* inside the target ball and the start envelope.
FixedStart(g) ==
  /\ pc[g] = "start"
  /\ Production => last[g] \in tips
  /\ Goto(g, "first") /\ KeepGoal /\ Others

FixedStartRefused(g) ==
  /\ pc[g] = "start" /\ Production
  /\ Finish(g, "failed") /\ Others

\* FixedActionExecutor.step() servoes, holds, gives up or completes; the
\* command goes out before its verdict is acted on.
FixedStep(g, s) ==
  \/ SendMotion(g, s, "motion", "")
  \/ \E outcome \in {"", "failed", "succeeded"} : SendMotion(g, s, "zero", outcome)

FixedFirst(g) ==
  /\ pc[g] = "first" /\ context /\ ~cancel[g]
  /\ FixedStep(g, last[g]) /\ Others

LoopTop(g) ==
  /\ pc[g] = "top" /\ context /\ g \notin Jogs
  /\ ~cancel[g] /\ (g \in Follows => HbFresh(opHb, g))
  /\ Goto(g, "wait") /\ KeepGoal /\ Others

SupervisionLost(g) ==
  /\ g \in Follows /\ ~HbFresh(opHb, g)
  /\ \/ pc[g] = "top" /\ context
     \/ /\ pc[g] = "wait" /\ (Latest = last[g] \/ node # "up")
        /\ StateFresh(last[g]) /\ pend[g] # "none"
     \/ pc[g] = "decide"
  /\ Finish(g, "failed") /\ Others

\* _wait_state(): a newer state ...
NewState(g) ==
  /\ pc[g] = "wait" /\ Latest > last[g] /\ node = "up"
  /\ IF g \in Fixeds
       THEN FixedStep(g, Latest)
       ELSE /\ Goto(g, "tip")
            /\ last' = [last EXCEPT ![g] = Latest]
            /\ UNCHANGED <<cancel, ending, quiet, pend, fresh, timer>>
  /\ Others

\* MUTANTS: the wait misses a newer state; a stale state ends nothing.
NoNewStateMissed(g) ==
  /\ pc[g] = "wait" /\ StateFresh(last[g]) /\ pend[g] # "none"
  /\ g \in Follows => HbFresh(opHb, g)
  /\ SendMotion(g, last[g], pend[g], "")
  /\ Others
NoNewStateForever(g) ==
  /\ pc[g] = "wait" /\ (Latest = last[g] \/ node # "up")
  /\ IF pend[g] = "none" \/ ~StateFresh(last[g]) THEN Goto(g, "top") /\ KeepGoal
     ELSE /\ g \in Follows => HbFresh(opHb, g)
          /\ SendMotion(g, last[g], pend[g], "")
  /\ Others

\* ... or none within 50 ms: stale, nothing to repeat yet, or repeat the
\* pending command on the strength of the last state.
NoNewState(g) ==
  /\ pc[g] = "wait" /\ (Latest = last[g] \/ node # "up")
  /\ IF ~StateFresh(last[g]) THEN Finish(g, "failed")
     ELSE IF pend[g] = "none" THEN Goto(g, "top") /\ KeepGoal
     ELSE /\ g \in Follows => HbFresh(opHb, g)
          /\ SendMotion(g, last[g], pend[g], "")
  /\ Others

TipMissing(g) ==
  /\ pc[g] = "tip" /\ (last[g] \notin tips \/ node # "up")
  /\ Finish(g, "failed") /\ Others

\* session.observe(): not a new sample, tracking timeout, trajectory complete,
\* or go on to the policy.
TipFound(g) ==
  /\ pc[g] = "tip" /\ last[g] \in tips
  /\ \/ Goto(g, "top") /\ KeepGoal
     \/ \E outcome \in {"failed", "succeeded"} : Finish(g, outcome)
     \/ /\ Goto(g, "decide")
        /\ pend' = [pend EXCEPT ![g] = "motion"]
        /\ UNCHANGED <<cancel, ending, quiet, last, fresh, timer>>
  /\ Others

Decide(g) ==
  /\ pc[g] = "decide" /\ HbFresh(opHb, g)
  /\ SendMotion(g, last[g], "motion", "")
  /\ Others

\* _execute_jog(): one turn of its loop, up to the send.
JogTurn(g) ==
  /\ pc[g] = "top" /\ g \in Jogs /\ context /\ ~cancel[g]
  /\ IF timer[g] = 0 THEN Finish(g, "succeeded")
     ELSE IF ~HbFresh(jogHb, g) THEN Finish(g, "failed")
     ELSE \/ Finish(g, "failed")                       \* endpoint margin
          \/ SendMotion(g, Latest, "motion", "")
  /\ Others

-----------------------------------------------------------------------------
(* MotionCommandSink, in one step per call (CommandSink shows why), and what *)
(* its caller does with the answer.                                          *)

SendMayFail == ~journalOk \/ node = "down" \/ "transport" \in Faults
SendMayPass == journalOk /\ node # "down"

SinkAllows(g) ==
  /\ ~disarmed
  /\ last[g] >= lastStateSeq
  /\ fresh[g]
  /\ gates[last[g]] = "open"

NoteState(g) == lastStateSeq' = IF last[g] > lastStateSeq THEN last[g] ELSE lastStateSeq

EmitAllowed(g) ==
  /\ pc[g] = "emit" /\ SinkAllows(g) /\ SendMayPass
  /\ NoteState(g)
  /\ IF pend[g] = "motion"
       THEN /\ live' = [live EXCEPT ![g] = ValidTicks]
            /\ blind' = IF gates[Latest] = "open" THEN blind ELSE blind + 1
       ELSE UNCHANGED machine
  /\ IF ending[g] = ""
       THEN /\ Goto(g, "top")
            /\ fresh' = [fresh EXCEPT ![g] = FALSE]
            /\ UNCHANGED <<cancel, ending, quiet, last, pend, timer>>
       ELSE Finish(g, ending[g])
  /\ UNCHANGED <<stateVars, cacheVars, active, disarmed, journalOk, nodeVars>>

EmitDenied(g) ==
  /\ pc[g] = "emit" /\ ~SinkAllows(g) /\ SendMayPass
  /\ NoteState(g)
  /\ Finish(g, "failed")
  /\ UNCHANGED <<stateVars, cacheVars, active, disarmed, journalOk, nodeVars, machine>>

EmitRaises(g) ==
  /\ pc[g] = "emit" /\ SendMayFail
  /\ NoteState(g)
  /\ Finish(g, "failed")
  /\ UNCHANGED <<stateVars, cacheVars, active, disarmed, journalOk, nodeVars, machine>>

-----------------------------------------------------------------------------
(* _stop_and_release(), the terminal transition of the goal. *)

\* The first terminal zero; the following ones change nothing any more.
StopZero(g) ==
  /\ pc[g] = "zero" /\ SendMayPass
  /\ Goto(g, "stopping") /\ KeepGoal /\ Others

\* MUTANTS: quiescence is confirmed although the zeros failed, or before the
\* silence that lets the last command run out.
StopFailsConfirmed(g) ==
  /\ pc[g] \in {"zero", "stopping"} /\ SendMayFail
  /\ Goto(g, "release")
  /\ quiet' = [quiet EXCEPT ![g] = TRUE]
  /\ UNCHANGED <<cancel, ending, loopVars>> /\ Others
StopDoneUndrained(g) ==
  /\ pc[g] = "stopping" /\ timer[g] = 0
  /\ Goto(g, "release")
  /\ quiet' = [quiet EXCEPT ![g] = TRUE]
  /\ UNCHANGED <<cancel, ending, loopVars>> /\ Others

\* A zero that cannot be sent ends the sequence: the lease goes at once.
StopFails(g) ==
  /\ pc[g] \in {"zero", "stopping"} /\ SendMayFail
  /\ Goto(g, "release") /\ KeepGoal /\ Others

StopDone(g) ==
  /\ pc[g] = "stopping" /\ timer[g] = 0
  /\ Goto(g, "drain")
  /\ timer' = [timer EXCEPT ![g] = DrainTicks]
  /\ UNCHANGED <<cancel, ending, quiet, last, pend, fresh>> /\ Others

Drained(g) ==
  /\ pc[g] = "drain" /\ timer[g] = 0
  /\ Goto(g, "release")
  /\ quiet' = [quiet EXCEPT ![g] = TRUE]
  /\ UNCHANGED <<cancel, ending, loopVars>> /\ Others

Release(g) ==
  /\ pc[g] = "release"
  /\ active' = ""
  /\ Goto(g, "report") /\ KeepGoal
  /\ UNCHANGED <<stateVars, cacheVars, sinkVars, nodeVars, machine>>

Report(g) ==
  /\ pc[g] = "report"
  /\ Goto(g, "done")
  /\ cancel' = [cancel EXCEPT ![g] = FALSE]
  /\ ending' = [ending EXCEPT ![g] = ""]
  /\ timer' = [timer EXCEPT ![g] = 0]
  /\ UNCHANGED <<quiet, last, pend, fresh>> /\ Others

-----------------------------------------------------------------------------
(* Faults and shutdown. *)

\* The journal writer fails for good (disk full, rotation failed, ...).
JournalFails ==
  /\ "journal" \in Faults /\ journalOk
  /\ journalOk' = FALSE
  /\ UNCHANGED <<stateVars, cacheVars, active, disarmed, lastStateSeq, goalVars,
                 nodeVars, machine>>

NodeStep(from, to) == node = from /\ node' = to

KeepServer == UNCHANGED <<stateVars, cacheVars, active, lastStateSeq, journalOk,
                          goalVars, machine>>

\* SIGINT or shutdown of the ROS context.
ContextDown ==
  /\ "exit" \in Faults /\ context
  /\ context' = FALSE
  /\ KeepServer /\ UNCHANGED <<node, nodeTimer, disarmed>>

\* destroy_node(): _stopping, receiver joined; disarm and its zero; 0.6 s of
\* zeros; silence; servers destroyed and the sender closed.
DestroyBegin ==
  /\ NodeStep("up", "disarming") /\ ~context
  /\ KeepServer /\ UNCHANGED <<context, nodeTimer, disarmed>>

\* MUTANT: zeros are sent, but the sink stays armed.
DestroyZeroOnly ==
  /\ NodeStep("disarming", "zeroing") /\ SendMayPass
  /\ nodeTimer' = StopTicks
  /\ KeepServer /\ UNCHANGED <<context, disarmed>>

DestroyDisarm ==
  /\ NodeStep("disarming", "zeroing") /\ SendMayPass
  /\ disarmed' = TRUE
  /\ nodeTimer' = StopTicks
  /\ KeepServer /\ UNCHANGED context

DestroyRaises ==
  /\ node \in {"disarming", "zeroing"} /\ SendMayFail
  /\ node' = "closing"
  /\ disarmed' = TRUE
  /\ nodeTimer' = 0
  /\ KeepServer /\ UNCHANGED context

DestroyZeroed ==
  /\ NodeStep("zeroing", "draining") /\ nodeTimer = 0
  /\ nodeTimer' = DrainTicks
  /\ KeepServer /\ UNCHANGED <<context, disarmed>>

DestroyDrained ==
  /\ NodeStep("draining", "quiet") /\ nodeTimer = 0
  /\ KeepServer /\ UNCHANGED <<context, nodeTimer, disarmed>>

DestroyEnd ==
  /\ node \in {"closing", "quiet"}
  /\ node' = "down"
  /\ KeepServer /\ UNCHANGED <<context, nodeTimer, disarmed>>

-----------------------------------------------------------------------------
(* Time. *)

Older(age, limit) == IF age > limit THEN age ELSE age + 1
Less(left) == IF left = 0 THEN 0 ELSE left - 1

\* A heartbeat past its timeout never counts again: it is as good as none.
AgedHeartbeat(hb) == IF hb.age < HbTimeout /\ hb # NoHeartbeat
                       THEN [hb EXCEPT !.age = @ + 1]
                       ELSE NoHeartbeat

Tick ==
  /\ ages' = [s \in DOMAIN ages |-> Older(ages[s], MaxAge)]
  /\ opHb' = AgedHeartbeat(opHb)
  /\ jogHb' = AgedHeartbeat(jogHb)
  /\ timer' = [g \in Goals |-> Less(timer[g])]
  /\ live' = [g \in Goals |-> Less(live[g])]
  /\ nodeTimer' = Less(nodeTimer)
  /\ UNCHANGED <<gates, tips, planned, published, active, sinkVars, pc, cancel,
                 last, pend, fresh, ending, quiet, context, node, blind>>

-----------------------------------------------------------------------------

Input ==
  \/ \E gate \in {"open", "closed", "actuator"} : ReceiveState(gate)
  \/ \E s \in 1 .. Latest : OnTip(s)
  \/ \E g \in Follows : OnOperatorHeartbeat(g)
  \/ \E g \in Jogs : OnJogHeartbeat(g)
  \/ \E p \in Plans : OnPlannedTrajectory(p)

GoalCallback(g) ==
  \/ GoalArrives(g) \/ PlanFound(g) \/ PlanTimeout(g)
  \/ HeartbeatFound(g) \/ HeartbeatMissing(g) \/ Reserve(g)

Loop(g) ==
  \/ Begin(g) \/ LoopExits(g) \/ Cancelled(g) \/ SupervisionLost(g) \/ Raise(g)
  \/ FixedStart(g) \/ FixedStartRefused(g) \/ FixedFirst(g)
  \/ LoopTop(g) \/ NewState(g) \/ NoNewState(g)
  \/ TipMissing(g) \/ TipFound(g) \/ Decide(g) \/ JogTurn(g)
  \/ EmitAllowed(g) \/ EmitDenied(g) \/ EmitRaises(g)

Stop(g) ==
  \/ StopZero(g) \/ StopFails(g) \/ StopDone(g) \/ Drained(g)
  \/ Release(g) \/ Report(g)

Destroy ==
  \/ DestroyBegin \/ DestroyDisarm \/ DestroyRaises
  \/ DestroyZeroed \/ DestroyDrained \/ DestroyEnd

Next ==
  \/ Input
  \/ \E g \in Goals : GoalCallback(g) \/ OnCancel(g) \/ Loop(g) \/ Stop(g)
  \/ JournalFails \/ ContextDown \/ Destroy
  \/ Tick

Spec == Init /\ [][Next]_vars

\* Time passes, and a thread that can go on does: every wait of the code has a
\* deadline and the executor has a thread for every callback.
Thread(g) == GoalCallback(g) \/ Loop(g) \/ Stop(g)
FairSpec  == Spec /\ WF_vars(Tick) /\ \A g \in Goals : WF_vars(Thread(g))

-----------------------------------------------------------------------------

HeartbeatType(hb) == hb.session \in {IdOf[g] : g \in Goals} \cup {None} /\ hb.age \in 0 .. HbTimeout

TypeOK ==
  /\ gates \in Seq({"open", "closed", "actuator"})
  /\ ages \in Seq(0 .. MaxAge + 1) /\ Len(ages) = Len(gates)
  /\ tips \subseteq 1 .. Len(gates)
  /\ HeartbeatType(opHb) /\ HeartbeatType(jogHb)
  /\ planned \in Seq(Plans) /\ published \in Nat
  /\ active \in {"", "Follow", "ExecuteDig", "ExecuteDump", "HoldToJog"}
  /\ disarmed \in BOOLEAN /\ journalOk \in BOOLEAN
  /\ lastStateSeq \in 0 .. Len(gates)
  /\ pc \in [Goals -> Owning \cup {"idle", "plan", "heartbeat", "reserve",
                                   "rejected", "report", "done", "exited"}]
  /\ cancel \in [Goals -> BOOLEAN] /\ quiet \in [Goals -> BOOLEAN]
  /\ last \in [Goals -> 0 .. Len(gates)]
  /\ pend \in [Goals -> {"none", "zero", "motion"}]
  /\ fresh \in [Goals -> BOOLEAN]
  /\ ending \in [Goals -> {"", "failed", "succeeded", "cancelled"}]
  /\ timer \in [Goals -> Nat] /\ live \in [Goals -> 0 .. ValidTicks]
  /\ context \in BOOLEAN /\ nodeTimer \in Nat /\ blind \in Nat
  /\ node \in {"up", "disarming", "zeroing", "draining", "closing", "quiet", "down"}

\* At most one goal has an execute callback that may still send, and the lease
\* string names it: no finishing goal ever clears a lease that is not its own.
HoldsLease(g) == Owner(g) \/ pc[g] = "exited"
LeaseExclusive ==
  /\ \A g, h \in Goals : HoldsLease(g) /\ HoldsLease(h) => g = h
  /\ \A g \in Goals : HoldsLease(g) => active = Behavior(g)
  /\ active # "" => \E g \in Goals : HoldsLease(g)

\* quiescence_confirmed is true only when no non-zero command of that goal can
\* still be in force at the Orin, even if every terminal zero was lost.
QuiescenceReal == \A g \in Goals : quiet[g] => live[g] = 0

\* When destroy_node() has drained without an error the machine is at rest.
ExitQuiet == node = "quiet" => \A g \in Goals : live[g] = 0

\* After a state that forbids motion came in, at most one more motion command leaves,
\* computed from the state before it; two when the node is going down, whose waits
\* return as if no state had come and have the last command repeated.
BlindMotionBounded == blind <= IF node = "up" THEN 1 ELSE 2

\* The successive owners of the lease never hand the sink a state older than
\* one it has seen.
StatesInOrder == \A g \in Goals : pc[g] = "emit" => last[g] >= lastStateSeq

\* A published trajectory admits at most one Follow goal.
PlanUsedOnce ==
  Cardinality({g \in Follows : Owner(g) \/ pc[g] \in {"heartbeat", "reserve", "report", "done"}})
    <= published

\* When the Machine States stop coming every goal that was sent is answered and
\* gives the lease back, even if its heartbeat goes on and nobody cancels it.
EveryGoalEnds ==
  \A g \in Goals : pc[g] # "idle" ~> pc[g] \in {"rejected", "done", "exited"}

\* Once disarmed the sink sends no motion, whoever is still in a loop.
DisarmIsFinal == [][disarmed => \A g \in Goals : live'[g] <= live[g]]_vars

\* Zero commands after cancel, failure and completion: a Result is given only
\* when the machine is at rest (Follow.action: "Result is published only after
\* the selected backend is quiescent and the behavior lease is released").
ResultAfterQuiescence == \A g \in Goals : pc[g] = "done" => live[g] = 0

\* The server keeps the promise of MotionLease: one holder at a time, nobody
\* else moves the machine, and quiescence is confirmed only when it is real.
LeaseStatus(g) ==
  CASE pc[g] \in {"idle", "plan", "heartbeat", "reserve"} -> "waiting"
    [] pc[g] = "rejected"                                 -> "refused"
    [] pc[g] \in {"report", "done"}                       -> "closed"
    [] OTHER                                              -> "holding"

Lease == INSTANCE MotionLease WITH
  status <- [g \in Goals |-> LeaseStatus(g)],
  claim  <- [g \in Goals |-> quiet[g] /\ pc[g] \in {"report", "done"}],
  force  <- [g \in Goals |-> live[g] > 0]
KeepsLease == Lease!LeaseSpec
================================================================================
