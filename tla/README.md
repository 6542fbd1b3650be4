# Excavator runtime: specifications, model checking and proofs

This directory holds TLA+ models of the excavator runtime in `src/`: the node
that may move the machine, the one sink through which it does so, and the
scheduler that strings motions into a digging cycle. Every module is translated
from the Python or C++ it names; `PROJECT.json` gives the lines each definition
stands for. TLC checks the models on small instances, and TLAPS proves the facts
about safety that matter most for every number of callers, goals and missions.

## 1. Inventory

```
 operator.launch.py ── starts and supervises every process below (profiles: fixture_shadow, live_shadow,
                       live_commissioning, live_production)

 operator panel (RViz plugin) ──Plan / Follow / Execute / Jog / Mission goals, heartbeats──┐
                                                                                          v
 mission scheduler /mission/run_cycle ──child goals──> plan servers (localmap)     live behaviour server
 rehearsal client (shadow runtimes) ───┴─child goals──────────────────────────>  (the only PC node that
                                                                                    sends motion), or the
                                                                                    shadow behaviour server
                                                              bucket tip (FK) ──>   │        ^
                                                                                    v        │ Machine State
                    audit journal, Follow audit <── command sink ────UDP──────────> Orin ──> machine
```

| Component | Source | State | Operations | Modelled by |
|---|---|---|---|---|
| Command sink and action journal | `runtime_bridge/live_control.py` 325-439, `runtime_bridge/action_journal.py` | disarmed flag, newest state seen, action number; bounded record queue, failure flag, writer thread | `send_velocity`, `send_zero`, `disarm`; `send`, `close`; the writer loop | `CommandSink`, abstractly `MotionPromise` |
| Live behaviour server | `runtime_bridge/apps/live_machine_behavior_server.py` | the behaviour lease `_active_behavior`, newest Machine State, bucket tips, two heartbeats, published trajectories | Goal, cancel and execute callbacks of Follow, ExecuteDig, ExecuteDump, HoldToJog; topic callbacks; the UDP receiver; `destroy_node` | `LiveBehavior`, abstractly `MotionLease` |
| Mission scheduler | `mission/runtime_ros/excavation_cycle_action_server.py` | reservation, stage, counters | `_on_goal`, `_execute`, the three phases, `_run_child`, `_wait_future` | `MissionCycle` |
| Operator panel | `airy_mission_panel/src/` | owned operation, cancel flag, goal handles, heartbeat sessions, log table | Plan + Follow, Execute, Return home, Full Mission, jog, cancel, their callbacks, the destructor | `PanelOperation`, `OperatorLog`; its heartbeat during a mission in `MissionCycle` |
| Machine State ingestion | `live_control.py` 296-322, `_receive_states` of the live server | last number and stamp, clock offset, newest state | provenance, order and age of states | `StateStream` |
| Follow session and tracker | `mission/follow.py`, `mission/trajectory_tracker.py` | waypoint, last stamp, dwell and timeout clocks | `observe`, `advance` | `FollowTracking`; its verdicts are choices in `LiveBehavior` |
| Fixed action profile and executor | `runtime_bridge/fixed_actions.py`, `runtime_bridge/runtime_config.py`, `_run_fixed` of the live server | the profile with its evidence; step, targets, servo and hold clocks | `load_fixed_action_profile`, `evaluate_start`, `step` | `ActionEvidence` for the load, `FixedAction` for the steps; its verdicts are choices in `LiveBehavior` |
| Follow audit | `runtime_bridge/follow_audit.py` | queue, failure, writer thread, journal and snapshot | `submit`, the writer loop, `close` | `FollowAudit` |
| Shadow behaviour server | `mission/runtime_ros/follow_action_server.py` | active goal, reservation, terminal transition; last status published | Follow and ReturnHome without motion, status timer | `ShadowBehavior` |
| Plan servers | `localmap/localmap_core/runtime_ros/`, `localmap/apps/planning/run_planning_once.py` | reservation, running planner, preview, published trajectory, output files | `Plan`: freeze, planner commands, replacement of files, publication, cancel; the CLI preview | `PlanServer` |
| Rehearsal client | `mission/runtime_ros/run_plan_follow_shadow.py` | accepted goals, statuses heard | Plan, wait, Follow, cleanup | `PlanFollowShadow` |
| Launch files and process supervision | `airy_excavator_bringup/launch/operator.launch.py`, `localmap/apps/perception/run_perception_stack.sh`, `process_lifecycle.sh` | processes, the claimed port and endpoint, process groups | start, required exit, shutdown, signals | `OperatorStack` |
| Mission state machine, replay | `mission/state_machine.py`, `mission/replay.py`, `mission/contract.py`, `mission/apps/run_mission_replay.py` | state and transitions; the output file | `advance`, `run_mission_replay`, `load_mission`, `main` | `MissionReplay` |
| Diagnostics bridges, mock Orin | `runtime_bridge/apps/` | – | relays used in tests and for viewing | no |
| Planner geometry, local map, observation building, ONNX policy, kinematics, LiDAR driver, ROS interfaces | | | | no |

What interacts with what. Clients reach the behaviour server through ROS 2
Actions; the panel also publishes heartbeats, which a Follow or a jog must keep
seeing. Machine States arrive on a UDP socket of their own thread, bucket tips
come back from the FK node through a topic with the stamp of the state. The
execute callback combines the newest state, its tip and its pending command, asks
the sink to send, and ends by sending zeros, waiting for the last command to
expire, and clearing the lease. The mission scheduler is a client like any other
and has no access to the lease. A shadow runtime has the same Actions with a server
that moves nothing, and its clients learn of the lease from `RuntimeStatus`. The
launch file ties the processes together: when a required one exits all go down, and
two stacks on one PC exclude each other by the state port and by a lock on the
command endpoint.

What is hard here: goal, cancel, execute and topic callbacks run at once in a
six-thread executor; a loop acts on a state it read before it waited; any
`sendto()` and the journals may fail between two steps; commands outlive the
process that sent them by `valid_for_ms`; the node may be told to go down at any
moment; clients, servers and the mission node die independently; the Orin stamps
its states with a clock of its own, restarts, and reaches the server through a
network and a socket buffer; the panel decides under a mutex and acts after it, in
two threads; the planner's files are replaced one at a time; a process may ignore
the signal that should end it. `PROJECT.json` lists each hazard with its line and
the property that would catch it.

What makes the components correct:

- sink: numbers 0, 1, 2, ... on the wire; no motion after a disarm, from a closed
  gate or from an older state; every datagram audited or a bounded loss;
- Follow audit: what moved the machine is in the journal, or `close()` says so;
- server: one goal at a time moves the machine; a Result that confirms quiescence
  is right; a heartbeat, tip or state that stops coming ends the motion; a
  published plan admits one Follow; the exit sequence leaves the machine at rest;
- states: accepted in the order in which they were made, and none much later than
  the first;
- Follow and fixed actions: success only after a full dwell at each waypoint, or each
  step carried out, by new samples, in time; an end even if states keep coming;
- fixed action profile: production runs what was exercised in commissioning, whatever
  is edited and whenever;
- mission: one mission; stages in order, each confirmed before the next; a cancel
  or a failure leaves no child behind; the Result adds up;
- panel: a cancel reaches whatever the operation has running; no goal is forgotten;
  heartbeats stop with the operation; an error is not washed out of the log;
- shadow runtime: the same promise as the live server, true status in the end, files
  of one planning run, a client that leaves no goal behind;
- stack: one sender at the endpoint; no process left over after a shutdown (what the
  perception script can promise of its groups is in sections 2 and 5);
- replay: its output tells the stages of one recording and one mission.

## 2. Modules

| Module | Role |
|---|---|
| `MotionPromise` | abstract: what callers and the machine may rely on from the sink |
| `CommandSink` | the sink, its two locks, the journal writer and `close()` |
| `FollowAudit` | the journal of a Follow's decisions, its writer, a failing disk, `close()` |
| `MotionLease` | abstract: what clients may rely on from a behaviour server |
| `LiveBehavior` | the live server |
| `ShadowBehavior` | the no-motion server of a shadow runtime |
| `StateStream` | the Orin, the network and the receiver thread |
| `FollowTracking` | one Follow as a consumer of the stream |
| `FixedAction` | one ExecuteDig or ExecuteDump as a consumer of the stream |
| `ActionEvidence` | starts of the live server, which read what binds a fixed action, and the people who edit it |
| `MissionCycle` | the scheduler, the servers it calls, heartbeats |
| `MissionReplay` | the mission state machine, the replay of a recording and its output |
| `PlanServer` | the Plan servers, offline and live, their planner and files |
| `PlanFollowShadow` | the rehearsal client, composed with `ShadowBehavior` and `PlanServer` |
| `PanelOperation` | the panel's operation in front of its Action servers |
| `OperatorLog` | the panel's table of warnings and errors |
| `OperatorStack` | launches, processes, port and endpoint, the perception script |
| `CommandSinkProofs`, `FollowAuditProofs`, `LiveBehaviorProofs`, `StateStreamProofs` | proofs about the module of that name |
| `MissionCycleProofs` | proofs about `MissionCycle` and `MissionReplay` |
| `StateReaderProofs` | proofs about `FollowTracking` and `FixedAction`, on top of those about the stream, and about `ActionEvidence` |
| `RehearsalProofs` | proofs about `ShadowBehavior`, `PlanServer` and `PlanFollowShadow` |
| `OperatorStationProofs` | proofs about `PanelOperation`, `OperatorLog` and `OperatorStack` |
| `MC*` | constants and bounds of the runs |

Some `MC` modules put several components into one run: a variable `scenario` (or, in
`MCRehearsal`, the profile) chosen in the initial state says which of them moves, and
the others stand still. These components share no state, so nothing is lost by not
interleaving them. `MCJournals` has the sink or the Follow audit; `MCFollowTracking`
the stream alone, a Follow or a fixed action on it, or the starts that load the profile
of a fixed action; `MCMissionCycle` one mission, two, or two replays; `MCOperatorStation` the panel, its log or the stack; `MCRehearsal` an offline
runtime with its client, the shadow server alone, or the live Plan server with plans
or with previews. `MCLiveScenarios` joins three bounds on one model by a CONSTRAINT.

Operators whose comment says MUTANT are deliberately broken variants of the
definition below them. No specification uses them; each is listed in
`PROJECT.json` with the property that must fail when it takes the place of the
real definition, which shows that the property can fail.

**CommandSink.** `pc[t]` says where caller `t` is: `idle`; `decided` (the sink's
lock is held, the gate decision taken); `sending` (the sender's lock too, the
availability check passed). `SendVelocity`, `SendZero` and `DisarmSink` are the
entry points (`disarm()` sends a zero as well), `CheckRefuse`, `CheckPass`,
`SendTo`, `SendToFails` the parts of `RecordedUdpSender.send()`. A packet is
represented by the number of the state it was computed from, or 0 for a zero
command. `WriterTake`, `WriterWrite`, `WriterFail` are the writer loop,
`CloseBegin` to `CloseJoin` are `close()` with its two five-second timeouts.
`CloseBegin` may come at any time, also while the server still sends.

**FollowAudit.** Decisions are numbered. `Decides` to `Moves` are the execute
callback: the health check, the record, `submit()` in its two steps (the flags are
read before the record is queued), the send. `WriterTakes` to `WriterFails` are the
writer thread; the file is unbuffered, so a write that fails may leave a torn line,
written 0. When the first snapshot cannot be made the journal is removed
(`CleansUp`). `Disarms` to `Joins` are `destroy_node()`. A decision queued after the
stop token is never written, but its motion is not sent either: the sink was
disarmed before. `AuditCloses` has one exception, which is the code's: `close()` puts
its token with a blocking put, and waits for ever if the writer died with a full queue.

**LiveBehavior.** A goal is a thread: `idle`, waiting in its goal callback
(`plan`, `heartbeat`, `reserve`), then in its execute callback (`begin` to
`emit`), in `_stop_and_release()` (`zero`, `stopping`, `drain`, `release`) and
at its Result (`report`, `done`). `exited` is an execute callback whose loop
condition found the context gone. A Machine State is its index in `gates`, where
the gate decision of `evaluate_motion_state()` is `open` or `closed`, and
`actuator` stands for a joint out of range. Policies, envelopes and executors are
choices: any command, any verdict. One call of the sink is one step
(`EmitAllowed`, `EmitDenied`, `EmitRaises`); `CommandSink` and its
`KeepsPromise` justify that. Time is counted in ticks; `live[g]` is how long the
last motion command of goal `g` can still be in force. The Orin is outside the
repository's `src/`; the model assumes of it only what `protocol.py` writes
into a packet, that a command is void `valid_for_ms` after its stamp. Zeros have
no effect on `live`, so what is checked holds even when each of them is lost.
`BlindMotionBounded` allows two commands, not one, while the node goes down:
`_wait_state()` then returns nothing although a newer state is there, and the loop
repeats its pending command once.

**ShadowBehavior.** What a callback does under `_lock` is one step of `at[g]`;
`RuntimeStatus` is read under the lock and published after it, two steps, so a late
thread may publish an old status. Once the context is down the timer no longer fires
and `publish()` raises: `PublishRaises` ends the callback where it is (`raised`), before
the goal's transition or after it, with the lease as it is then. `MotionLease` is
implemented by a mapping that puts together three fields the code changes at different
moments.

**StateStream.** Time is the PC's; the Orin's clock is `skew` ahead of it until a
restart may change that (`stepped` remembers). `flight` holds the states under way,
those in the socket's buffer included: a buffer is a network that holds states
back. Each packet carries when it was made, which no code can see; the properties
compare what the server believes with it. `Receive` is one turn of
`_receive_states()`, `Provenance` is `evaluate_state_provenance()`, `Accept` the
assignments after it. Whether a state closes the motion gate does not matter here.

**FollowTracking** extends the stream by the loop of `_execute_follow()`. A tip is
the set of the waypoints it is within the tolerance of; geometry is left out.
`Advance` is `TrajectoryTracker.advance()`, `NewToSession` the condition at the head
of `FollowSession.observe()`. `log` is history: the samples taken and when.
`TurnTicks` bounds how long one turn of the loop, with its wait for a tip and its
policy call, may last. What is sent, the lease and the heartbeat are in
`LiveBehavior`; here a Follow may be `Interrupted` in any turn.

**FixedAction** extends the stream by the loop of `_run_fixed()` with the executor's
steps: the target is set from the pose a step begins with and clamped; a pose within the
tolerance starts the hold, in which nothing moves and the pose is not looked at again;
the servo timeout is per step. Normalized positions are small integers. `record` is
history: every state the executor saw.

**ActionEvidence.** `stage[s]` is how far `__init__()` of the live server has come in
reading its files, one step for each file, and `held[s]` what it keeps of them. A file is
its contents, as its SHA256 is compared everywhere. A profile of fixed actions is the four
parts of its contract that the properties tell apart (machine profile, URDF, power, start
envelope) with status and evidence. Between any two reads the operator may edit a file:
give evidence for any contract, change the profile and leave its evidence, pin it,
replace the machine profile or the URDF. The one thing taken on trust is a report, which
names only contracts that were carried out.

**MissionCycle.** `phase` is the mission's thread, `children[m]` the goals it
sent with what became of each. Request and answer are steps of their own, so a
cancel, a shutdown or a dying server can come between any two. The behaviour
server is what `MotionLease` promises of it. `PanelHeartbeat` is all the panel
publishes on the heartbeat topic during a mission.

**MissionReplay.** `step[r]` is one run of the program: it removes the output, loads the
mission, takes `machine[r]`, the `MissionStateMachine`, through the recording, and
replaces the output. A recording has the ends of its two plans, the tip after the dig and
the states in which something went wrong; tracking, settling and the two verifications are
one test, `WentWell`. A plan that does not match its mission raises, so the run ends
without an output; a stage that goes wrong is a FAIL, and is written. Runs may be killed
anywhere and share the output file.

**PlanServer.** A run is a goal or a CLI preview. `step` counts the files dealt with;
`files` has, for each directory and artifact, the run it is of. A run removes three
artifacts before it plans (map, request, trajectory) and leaves the fourth, the
observation slice, which a plan replaces last and a preview has not. `OutputsOfOneRun`
says what follows: the three are always of one run; the slice is of that run too once
its trajectory was read for the Result; a run that was killed or failed while it replaced
its files may leave its trajectory beside an older slice, and the code allows that. The planner's
commands are one step that succeeds or fails, the server may be killed between any
two steps (`MaxCrashes`) and comes back with the files it finds. Previews write to a
directory of their own; that two of them run there at once is assumed not to happen,
since nothing in the code excludes it and an operator starts them by hand.

**PlanFollowShadow.** One thread that hears of statuses, acceptances and Results only
while it waits for one; each wait may time out or be cut off by Ctrl-C. `accepted`
holds the goals whose acceptance it heard: a goal accepted after the wait for that
answer timed out is unknown to the client, and it does not cancel it.

**PanelOperation.** Two threads, `ui` for Qt and `cb` for the ROS callbacks; what a
handler does under `mutex_` is one step, the sending after it another. `goal[a]` is
the last goal of Action `a`: where it is on the server, whether a cancel request
went out, and what the panel was told. Servers refuse, answer, ignore a cancel or
die. Whether the view's other conditions (status age, safety, targets) allow a start
is left open, so the model starts whatever the configuration permits.

**OperatorLog** is `append_operator_log()` with its repetition count and the rule by
which the oldest warning, before any error, makes room.

**OperatorStack.** `process[l][r]` follows one process of a launch from its start
through the claim of its port or endpoint to its end, `signal[l]` how far the launch
system has gone (interrupt, terminate, kill). `group` holds what lives in each process
group of the perception script. Its traps are modelled with what they may interrupt: a child is
started (`ForksChild`), put in `PIDS` (`ListsChild`) and comes to its `setsid()`
(`LeadsGroup`) in steps of their own, and `cleanup()` takes its two seconds. `loose` is
history: the children a signal came at the wrong moment for, that is, those alive when
`cleanup()` began which its `kill -- -pid` does not reach, or all of them when another
signal breaks it off. `NothingLeftBehind` and `StackComesDown` speak of the others.
The roles in `MayHang` may ignore a signal. Kernel and launch system
(signals, exclusive bind, `flock()`, the reaction to Shutdown) are external.

## 3. Runs

| Run | Instance | Shows |
|---|---|---|
| `command_sink` | 2 callers, states 1..3 of which 2 closes the gate, queue of 2, 4 datagrams; or 5 decisions, queue of 2 | `WireNumbering`, `AuditExact`, `AuditLossBounded`, implements `MotionPromise`; `EvidenceComplete`, `AuditCloses` |
| `live_follow_dig` | a Follow and a dig in production, 2 states, failing sends | `QuiescenceReal`; implements `MotionLease` |
| `live_scenarios` | two Follows of one digest, one publication under their id or another, 2 states; one Follow, 3 states, shutdown; a Follow or a jog, shutdown, journal failure; sends fail in all | `PlanUsedOnce`, `BlindMotionBounded`, `ExitQuiet` |
| `live_ends` | a Follow and a jog, shutdown, fairness | `EveryGoalEnds` |
| `live_result` | a Follow and a jog, failing sends | **fails**: `ResultAfterQuiescence` |
| `follow_tracking` | the stream: restarts, delays, loss, reordering; a Follow: 2 waypoints, clock behind or ahead, delays; a fixed action: 2 steps; a start in commissioning and one in production, 2 contracts, 5 edits | `AcceptedInOrder`, `TransitBounded`; `SuccessMeansDwelt`, `EndsInTime`, `NewSamplesOnly`; `StepsCarriedOut`, `FixedEndsInTime`; `RunsAsExercised` |
| `state_backlog` | no fault, one clock | **fails**: `OldStatesBlocked` |
| `mission_cycle` | one mission, dying servers, shutdown, a competing client, fairness; or two missions; or two replays of 6 recordings on 2 missions | `StagesInOrder`, `NoOrphan`, `QuietIsReal`, `DatagramsAddUp`, `CancelBounded`, `MissionEnds`; `OneMission`; `ReplayOutput` |
| `mission_heartbeat` | one mission, no other supervisor | **fails**: `FollowStageSupervised` |
| `operator_station` | 2 operations in 3 configurations; a log of 3 entries; 2 launches with 2 mishaps; 1 launch with 2 children and 3 mishaps | `CancelReaches`, `NothingLeft`, `HeartbeatStops`, `OperationEnds`; `SevereKept`; `OneCommandSink`, `NothingLeftBehind`, `StackComesDown` |
| `shadow_rehearsal` | a rehearsal with a foreign ReturnHome; the shadow server with 2 goals; 2 live plans or 2 previews, one crash | `ClientLeavesNothing`, `ShadowKeepsLease`, `StatusCatchesUp`, `OutputsOfOneRun` |
| `perception_orphans` | one launch, Ctrl-C | **fails**: `GroupsGone` |

**Bounds and why they suffice.** Real constants appear as ticks: 1 or 2 ticks of
validity, stop and drain reproduce each order in which a deadline and a step can fall,
and `DrainTicks >= ValidTicks`, which the code has by construction (`action_valid_ms +
20`), is an assumption. Two states are enough for one to be stale, closed or missed
while another is current, and a Follow, which first waits for a state newer than the one
it starts with, needs the third to see the gate close under a pending command; a tip
cache of one evicts. A queue of two with four datagrams is filled, drained, failed in
the middle and closed when full; the fifth decision of the Follow audit meets a queue
that is full while the writer holds one record. Two boots of the Orin are one restart,
after which old and new states can mix in any order; a tolerance of one tick tells an
offset that is kept from one that creeps. Two waypoints, or steps, have a first and a
last; a dwell of one tick and a timeout of two let both fall on one sample. The clock
runs further than the bounds of `EndsInTime` and `FixedEndsInTime`. Two Follows of one
publication are enough to use it twice. The six stages of a mission are all there are,
so its first scenario has no bound except one mission; the second scenario adds the
competitor for the reservation. Two replays can write one after the other or cross; the
six recordings are good, fit the other mission, or have one or two bad stages. Three edits
(report, evidence, pin) carry a contract from its exercise into production; five leave two
for what should not get there. Two operations of the panel let a late callback of the
first meet the second; the three configurations enable every button. Three log entries
hold an error between two warnings or are all errors. Two launches are what a port and a
lock are about; two mishaps (a program that ends, a Ctrl-C, a second one, a kill of the
launch; processes may hang besides) can hit the two launches or one of them twice. The
groups of a script touch no other launch, so one launch has them, with a child before and
one after the signal, and three mishaps: the wrapper ends, Ctrl-C, Ctrl-C again. `OneSink`
and `NoGroupLeft` below are proved without these bounds. One crash of
the Plan server leaves any mixture of files a crash can leave. `CHECK_DEADLOCK FALSE` is
used where the system really stops: closed sinks, missions and rehearsals that have
their Result, launches that are over, a log whose counters are at their bound.

**Fairness.** `LiveBehavior!FairSpec` asks that time passes and that a goal's
thread which can take a step takes one. The code justifies it: each wait has a
timeout, and the executor has a thread for every callback that can be busy at
once. No fairness is asked of states, tips, heartbeats, cancels or clients;
`EveryGoalEnds` holds when they all stop. The number of Machine States is bounded
in that run, so it covers what happens after states stop. That a goal also ends
while states keep coming is `EndsInTime` of `FollowTracking` for a Follow and
`FixedEndsInTime` of `FixedAction` for a dig or dump: bounds, and so safety
properties; a jog has `MaxHold`. `MissionCycle!FairSpec` asks that the
mission's thread runs and that a server that is up answers, which is what
`EveryGoalEnds` says of it. `MissionEnds` excepts a mission whose server died:
the code then waits until its own node goes down, which is listed as a hazard.
`AuditCloses` needs the Follow thread, the writer and the main thread to run and the
disk to answer one way or the other. `OperationEnds` needs the Qt thread and the
callback thread to run and the servers to answer; nothing is asked of the operator, and
a server that dies with a goal is its exception. `StackComesDown` needs the launch
system and the script to do their work, not the processes: those may hang and are
killed. `StatusCatchesUp` needs the server's callbacks, and its timer while the executor
spins; it says nothing of a server whose context is down.

## 4. Proofs

`CommandSinkProofs` proves, for any set of callers and states and any queue
capacity, from `SinkAssumption` alone:

- `TypeCorrect`: `Spec => []TypeOK`;
- `SinkInvariant`: `Spec => []SinkInv`; `JournalAccount`: `Spec => [](SinkInv /\ JournalInv)`;
- `NumbersOnTheWire`: `Spec => []WireNumbering`;
- `RecordsHaveRoom`: `Spec => []RoomForRecord`;
- `AuditIsExact`: `Spec => []AuditExact`; `LossIsBounded`: `Spec => []AuditLossBounded`,
  which has two parts, the loss of a journal that failed (`LossWithinQueue`) and that of
  one that was closed (`CloseLosesNothing`);
- `SinkKeepsPromise`: `Spec => KeepsPromise`, the refinement of `MotionPromise`.

`SinkInv` is the inductive strengthening. `WireNumbering` alone is inductive, but
`RoomForRecord` is not: another caller, or the stop token of `close()`, could take
the last slot. `OneCaller` (the sink's lock) and `CloserExcludes` (the sender's
lock) exclude both. The refinement needs `PacketCurrent`: between the decision
and `sendto()` nobody has disarmed the sink or shown it a newer state. `LockStep`,
`RoomStep`, `NumberStep` and `PacketStep` show one part each to be kept by every
action; `SinkKeepsPromise` maps every send to `EmitMotion` or `EmitZero`,
`DisarmSink` to `Disarm`, and the rest to stuttering.

The two properties of the audit compare the file with the wire. `JournalInv` says where
every datagram's record is (`Behind(rest)`): the wire is the journal, what the writer
holds, and a rest. Without a failure the rest is the queue, up to the stop token;
with one it is lost, but not longer than the queue was.

`FollowAuditProofs` proves, for any capacity and any number of decisions,
`AuditInvariant`: `AuditSpec => []AuditInv`, and `WholeEvidence`: `AuditSpec =>
[]EvidenceComplete`. `AuditInv` has the records in order from the file through the
writer's hand to the queue (`WriterInOrder`, `QueueInOrder`), what a writer that came to its
end has left (`WriterOver`), and that a `close()` without an error has seen that end.

`LiveBehaviorProofs` proves, for any set of goals, digests, deadlines and caches
that satisfy `LiveAssumption` (of which it needs that deadlines are natural numbers
and `DrainTicks >= ValidTicks`):

- `LeaseInvariant`: `Spec => []LeaseInv`;
- `OneOwner`: `Spec => []LeaseExclusive`; `QuiescenceIsReal`: `Spec => []QuiescenceReal`;
- `ServerKeepsLease`: `Spec => KeepsLease`, the refinement of `MotionLease`;
- `Disarmed`: `Spec => DisarmIsFinal`; `ExitIsQuiet`: `Spec => []ExitQuiet`;
- `OncePerPlan`: `Spec => []PlanUsedOnce`; `FewBlindCommands`: `Spec => []BlindMotionBounded`.

`LeaseInv` adds to `LeaseExclusive` two facts that no property states: while a goal
waits in its silence, what is left of the silence covers what is left of its last
command (`DrainCovers`), and a goal that confirms quiescence is past its loop with
nothing in force (`QuietSettled`). Without the first, `Drained` could not be shown to
confirm anything; without the second, the claim could outlive a send. The server has
some fifty actions; `StepKinds` sorts them by what they do to the lease (`Aside`,
`Waits`, `Takes`, `Loops`, `Stops`, `Falls`, `Settles`, `Yields`, `Answers`, `Tick`),
and both the invariant (`LeaseStep`) and the refinement (`LeaseMapStep`) have one case
for each kind. `ExitInv` is to `destroy_node()` what `DrainCovers` is to a goal.
`PlanUsedOnce` counts goals, so `PlanInv` counts with them the plans they may still
take: the Follows admitted and the plans in the cache together are at most the
publications. `BlindInv` says for each place of the loop how many motion commands can
still leave after a closed state; it is where the second one of a node that goes down
shows up.

`RehearsalProofs` proves of the two servers of a rehearsal and of its client, for any
goals, plans, previews and number of crashes:

- `ShadowLeaseInvariant`: `ShadowSpec => []LeaseInv`; `ServerKeepsShadowLease`:
  `ShadowSpec => ShadowKeepsLease`, so that both servers implement the one `MotionLease`;
- `PlanInvariant`: `PlanSpec => []PlanInv`; `FilesOfOneRun`: `PlanSpec => []OutputsOfOneRun`;
- `RehearsalKeepsServers`: `RehearsalSpec => ShadowSpec /\ PlanSpec`, hence all of the
  above in a rehearsal; `RehearsalLeavesNothing`: `RehearsalSpec => []ClientLeavesNothing`.

`LeaseInv` says that the one goal at a place of the lease has `_active_behavior` set for
it; a step leaves the lease alone (`Plain`), takes it (`Takes`) or gives it back
(`Gives`). `PlanInv` has four parts. `PlaceInv`: at most one goal works, and it has the
reservation. `FilesInv`: which of the three files a run has removed when it is still
removing, that they are all gone while its commands run, and which ones it has put there
when it is replacing. `OutputsOfOneRun` alone is not inductive: a replacement keeps it
only because nothing of an older run is left in the directory, which is known since the
removal and holds still after a crash, as every run begins with the removal. `ShownInv`
does the same for the topics. `SliceInv` is about the artifact no run removes: a plan whose
trajectory is read has replaced all four, it never goes back (`GoesForward`), and the next
one has replaced the other three before it overwrites the slice. That the client leaves nothing behind rests on two facts of
the servers, that a goal which is over stays over (`PlanStaysDone`, `FollowStaysDone`);
a client whose goal died with its server has `gaveUp` and does not say it is over.

`MissionCycleProofs` proves, for any set of missions and supervisors:

- `OneAtATime`: `Spec => []OneMission`, which is inductive with `PhaseType`;
- `MissionInvariant`: `Spec => []MissionInv`, and from it
- `InOrder`: `[]StagesInOrder`; `NoGoalLeft`: `[]NoOrphan`; `OneStageAfterCancel`:
  `[]CancelBounded`; `QuietMission`: `[]QuietIsReal`; `SuccessOfAll`: `[]SuccessIsComplete`;
  `EveryDatagramCounted`: `[]DatagramsAddUp`.

None of these six is inductive. `StageInv` ties the stages to the phase: before the
next stage is sent every earlier one has succeeded, and a Plan stage counts no
datagram. `CancelInv` adds that a mission which sent a stage after its cancel is not
back between two stages. `ResultInv` adds that no claim is made before the end.
`CountInv` relates what the mission has added up so far to what the stages have sent:
with the datagrams of the stage under way it is the sum of all, and once the mission
has ended no stage can send more, unless the mission's node went down. The sum is
written out over the six stages (`SixStages`), not as a fold.
`StepKinds` shows each step to be, for each mission, one of five kinds, and
`StageStep`, `CancelStep`, `ResultStep`, `CountStep` that each kind keeps its part.

Of the replay it proves, for any missions, recordings and number of runs,
`ReplayInvariant`: `ReplaySpec => []ReplayInv`, and `ReplaysTell`: `ReplaySpec =>
[]ReplayOutput`. `RunInv` says of a run what will be true of its output: it is at the
`n`-th state of the chain and has passed those before it (`AtStage`), or it failed there,
the first time anything went wrong (`FailedAt`). `PassesOn` and `FailsThere` are the two
steps of a stage; `NextStage` shows that the state machine accepts exactly the event of
its state. That no output is older than a run that is over needs `OutputInv`: who writes,
writes after all that have begun.

`StateStreamProofs` proves, for any skews, tolerance and faults, from
`StreamAssumption`:

- `StreamInvariant`: `StreamSpec => []StreamInv`;
- `InOrderOfMaking`: `StreamSpec => AcceptedInOrder`;
- `BoundedTransit`: `StreamSpec => []TransitBounded`.

`StreamInv` says that every packet under way and every sample is honest, that is,
stamped with the Orin's clock as it is now unless it was stepped (`HonestPackets`,
`HonestSamples`), and that `lastStamp` and `clockOffset` are those of the newest and
of the first sample (`StreamMemory`). `TransitBounded` is then arithmetic: with one
skew, a difference of offsets is a difference of transit times.

`OperatorStationProofs` has the three parts of the operator's station, one after the
other. Of the panel it proves, for any configurations of its runtime and any number of
operations:

- `PanelInvariant`: `Spec => []PanelInv`;
- `CancelReachesGoals`: `[]CancelReaches`; `OneGoalOfTheOperation`: `[]NothingLeft`;
  `HeartbeatsStop`: `[]HeartbeatStops`.

What the panel has begun and not finished for an Action (`Pending`) is spread over both
threads and the server: a goal about to be sent, one that is open, an answer whose
callback is still running. `PendInv` says that all of it belongs to one Action, that of
the operation owned, and where each thread can be (`ThreadType`, `Threads`); that an
operation leaves no goal behind is one of its consequences. A new operation starts only
when nothing is pending, and each callback either keeps what is pending or ends it
(`PendKept`, `PendOver`). `CancelReaches` is inductive on top of it: whoever comes to know
of a goal after the click finds `cancelRequested` set and asks. `BeatInv` says which
thread can still publish a heartbeat after the session was over (`LateUi`, `LateCb`),
and that they are never two.

Of the log it proves, for any limit and any texts, `LogInvariant`: `LogSpec => []LogInv`
and `ErrorsAreKept`: `LogSpec => SevereKept`. `SevereKept` speaks of a map of the old
errors into the new table that keeps their order; the proof gives it for each way of
making room, the identity (`NothingMoves`) or a shift behind the warning that is gone
(`WarningMakesRoom`). That the `CHOOSE` of the oldest warning has a value is `LeastNumber`,
from the well-foundedness of `<` on the natural numbers.

Of the processes it proves, for any launches, profiles, children and hanging
processes, `StackInvariant`, `OneSink`: `StackSpec => []OneCommandSink`, and
`NoGroupLeft`: `StackSpec => []NothingLeftBehind`. `Claimed` says that who sends has the
lock, until its last zero, and that one launch at most has it. `Scripted` says that
there are no groups before the script's traps are set, that at most one child is not in
`PIDS`, and that from its final kill on whatever lives is `loose`. What a signal makes
loose is shown in `Loosens`.

`StateReaderProofs` is about the two that read that stream while the machine moves. Of a
Follow it proves, for any number of waypoints, tips, dwell times and timeouts, also from
`TrackingAssumption`:

- `FollowInvariant`: `Spec => []FollowInv`;
- `SuccessIsDwelt`: `Spec => []SuccessMeansDwelt`; `TimeoutFirst`: `Spec =>
[]TimeoutDecides`; `SamplesAreNew`: `Spec => []NewSamplesOnly`;
- `FollowEndsInTime`: `Spec => []EndsInTime`.

`SuccessMeansDwelt` speaks of the log alone, the tracker has only two numbers.
`FollowDwells` links them: there are dwells in the log for the waypoints passed, in
order, and if `within` is set, the samples since then all were at the present
waypoint and later than the dwell before. `DwellsKept`, `SinceKept` and
`DwellsExtended` show what one more sample does to these. `StampsNew` does the same
for the stamps, on top of the honesty of the stream. `EndInv` is a bound of the
clock for each place of the loop (`ClockBehind`), with the facts it needs of a sample
and of the newest state (`StatesAhead`, `StampsAhead`): the Follow gives up when the next
state is too old, and times out when it is not.

Of a fixed action it proves, for any axes, steps, tolerance, hold and timeouts, also from
`FixedAssumption`:

- `FixedInvariant`: `FixedSpec => []FixedInv`;
- `StepsAreCarriedOut`: `FixedSpec => []StepsCarriedOut`; `FixedActionEndsInTime`:
  `FixedSpec => []FixedEndsInTime`.

`StepsSoFar` links the executor's few fields to the record: for each step behind it the
record has a state that reached the target of the pose the step began with (`BeganWith`)
and one that ended its hold, and if it holds now, nothing has moved since (`HoldsSince`).
`CarriedKept` and `StepPassed` show what one more state does to these. `FixedClock` is
the clock: step `k` began no later than `k - 1` times the time of a step after the first
state, so that the bound grows with the index of the step and the arithmetic is linear in
it (`StepTimes`).

Of the evidence it proves, for any versions of the files, starts and number of edits,
`EvidenceInvariant`: `EvidenceSpec => []EvidenceInv`, and `ProductionRunsTheExercised`:
`EvidenceSpec => []RunsAsExercised`. `EvidenceInv` follows the contract on its way:
a report names what was carried out in commissioning (`ReportIsTrue`), and a profile that
is validated, once its report was read, was carried out (`TemplateExercised`), although
profile, report and evidence may all be others on the disk by then. `MachineAsRead` needs
its exception. The server reads the machine profile twice, first to convert with it and
again for its SHA; when it is replaced in between, the server converts with a profile the
fixed action is not bound to. `RunsAsExercised` says so (`touched`), and TLC violates it
without that clause.

`RoomForRecord`, `TimeoutDecides`, `SuccessIsComplete` and `DisarmIsFinal` are in no
configuration: what is proved of every instance need not be run on one. The type
invariants are left out of the configurations too; each holds in the instances above
when it is added. `CommandSink`'s is proved as a whole, of the others the proofs
have the parts they need.

Only model-checked: liveness under fairness (`EveryGoalEnds`, `MissionEnds`,
`AuditCloses`, `OperationEnds`, `StackComesDown`, `StatusCatchesUp`), which is out of the
prover's reach. Every other property of a passing run is proved for all values of the
constants. Two of them were stated anew for that, with the same meaning: `DatagramsAddUp`
with its sum written out, since what a fold computes needs induction over data, and
`SevereKept` with an explicit map between the tables instead of two filtered sequences,
for the same reason.

## 5. Findings

- A terminal zero that cannot be sent ends `_stop_and_release()` at once: the
  lease is cleared and the Result is out while the last motion command may still
  be in force, against the contract in `Follow.action` (`live_result`). The Result
  does say that quiescence is not confirmed, and `QuiescenceReal` holds.
- Full Mission has no heartbeat for its Follow stages: the panel publishes
  heartbeats for its own Plan + Follow only (`mission_heartbeat`).
- The state socket is bound before the node is built and read only afterwards; the
  age of a state counts from its receipt. The first state the server accepts may be
  as old as the start-up is long, counts as fresh, and fixes the expected clock
  offset (`state_backlog`), although the protocol document has expired states blocked
  in both control stages. If the wait was longer than the tolerance, prompt states
  no longer pass the offset check.
- The perception script can leave a group behind, against the comment of
  `process_lifecycle.sh` (`perception_orphans`). One Ctrl-C is enough when its trap comes
  between the start of a child (line 89) and its entry in `PIDS` (line 90), or before the
  child's `setsid()`: `cleanup()` does not know the child, or its `kill -- -pid` finds no
  such group. And the trap `exit 0` is still set while the script waits to kill its groups:
  another signal in these two seconds ends it there, and a program that ignored SIGTERM
  goes on without it. Apart from these moments nothing is left (`NothingLeftBehind`).

## 6. Not modelled

Not modelled at all: planner geometry, the local map, observation building, the ONNX
policy and forward kinematics, which are numerics; the vendored LiDAR driver; interface
definitions; the diagnostics bridges, which only relay what they read; the mock Orin, a
test double; the tools `run_trajectory_shadow` and `fixed_action_player`, which
follow the machine and never send.

Left out of what is modelled: rotation and pruning of the action journal's files (a
write succeeds or fails); the status publication of the live server; the panel's
widgets, its runtime status and the joint-test page; `validate_for_execution` and the other
checks of a trajectory before acceptance. Text, logging and status messages are left out
everywhere. Setup code of an execute callback that runs before its `try` repeats a
conversion that already succeeded in the goal callback and is taken not to raise.

Left out, too, are paths of a few lines each: the live server's `destroy_node()` with the
context still up, after `spin()` raised something else than KeyboardInterrupt; the
mission's `except Exception`, which reports INTERNAL_ERROR without quiescence after an
error that is none of a child's; an exception of the panel's `async_cancel_goal()`, which
some callers do not catch. What a shadow server's goal comes to on the side of `rclpy`
after its callback raised is not modelled: the context is down and nobody hears of it.

## 7. Plan

Done: every component of the table that has more than numerics or relays in it, and the
proof of every safety property that the runs check. Left, in this order:

1. Journal rotation and pruning: no record lost across a change of file.
2. The panel composed with `LiveBehavior` instead of abstract servers.
3. The checks of a trajectory before a Follow is accepted, against the plan published.
