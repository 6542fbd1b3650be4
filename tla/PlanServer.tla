------------------------------- MODULE PlanServer -------------------------------
(***************************************************************************)
(* The Action servers for /planning/plan: of an offline runtime            *)
(* (localmap_core/runtime_ros/fixture_plan_action_server.py) and of a live *)
(* one (live_plan_action_server.py with apps/planning/run_planning_once.py *)
(* and its files).  Both reserve, clear and show the preview, and end a    *)
(* goal in the same way.                                                   *)
(*                                                                         *)
(* The planner's commands are processes of their own that write files in a *)
(* staging directory; only when all have succeeded do their files replace  *)
(* the published ones, one by one.                                         *)
(***************************************************************************)
EXTENDS Naturals, Sequences

CONSTANTS
  Plans,       \* goals sent to /planning/plan
  Previews,    \* runs of run_planning_once.py, whose files are their own
  Nothing,     \* no plan
  MaxCrashes   \* bound: times the server is killed

ASSUME PlanAssumption ==
  Nothing \notin Plans \union Previews /\ Plans \intersect Previews = {} /\ MaxCrashes \in Nat

Runs == Plans \union Previews

VARIABLES
  source,        \* input_source of the runtime: "fixture" or "live"
  planAt,        \* per goal: where the thread of its callback is
  step,          \* per goal: files or commands dealt with where it is now
  planCancelled, \* goals whose is_cancel_requested is set
  planOutcome,   \* per goal: outcome of its Result
  goalReserved,  \* _goal_reserved, _reserved
  preview,       \* whose path the preview topics show, latched
  trajectory,    \* whose trajectory /planning/trajectory_snapshot has, latched
  content,       \* per goal: whose trajectory its Result carries
  files,         \* per directory: whose each published file is
  crashes

planVars == <<source, planAt, step, planCancelled, planOutcome, goalReserved, preview, trajectory,
              content, files, crashes>>
topics == <<preview, trajectory>>

\* The published_artifacts of an execution_strict run, in their order; one per command.
Artifacts == <<"local_map", "request", "trajectory", "observation_slice">>

\* outputs_for_scope(): a run that is not for execution has a directory of its own, and
\* build_planning_commands() leaves its last command out.
Directory(p) == IF p \in Plans THEN "live_latest" ELSE "live_preview"
Commands(p)  == IF p \in Plans THEN Len(Artifacts) ELSE Len(Artifacts) - 1

PlanInit ==
  /\ source \in {"fixture", "live"}
  /\ planAt = [p \in Runs |-> "unsent"] /\ step = [p \in Runs |-> 0]
  /\ planCancelled = {} /\ planOutcome = [p \in Plans |-> ""]
  /\ goalReserved = FALSE
  /\ preview = Nothing /\ trajectory = Nothing /\ content = [p \in Plans |-> Nothing]
  /\ files = [d \in {"live_latest", "live_preview"} |-> [a \in {Artifacts[i] : i \in 1 .. 4} |-> Nothing]]
  /\ crashes = 0

PlanGoto(p, place) == planAt' = [planAt EXCEPT ![p] = place] /\ step' = [step EXCEPT ![p] = 0]

-----------------------------------------------------------------------------
(* Goal and cancel callbacks. *)

PlanArrives(p) ==
  /\ planAt[p] = "unsent" /\ PlanGoto(p, "sent")
  /\ UNCHANGED <<source, planCancelled, planOutcome, goalReserved, topics, content, files, crashes>>

\* _validate_target(), _validate_goal(): scope, frame, age, phase, provenance, geometry;
\* or another goal is reserved.
PlanRejected(p) ==
  /\ planAt[p] = "sent" /\ PlanGoto(p, "refused")
  /\ UNCHANGED <<source, planCancelled, planOutcome, goalReserved, topics, content, files, crashes>>

PlanReserved(p) ==
  /\ planAt[p] = "sent" /\ ~goalReserved
  /\ goalReserved' = TRUE /\ PlanGoto(p, "reserved")
  /\ UNCHANGED <<source, planCancelled, planOutcome, topics, content, files, crashes>>

\* Outside the lock, before the goal is accepted.
PlanAccepted(p) ==
  /\ planAt[p] = "reserved" /\ preview' = Nothing /\ PlanGoto(p, "accepted")
  /\ UNCHANGED <<source, planCancelled, planOutcome, goalReserved, trajectory, content, files, crashes>>

PlanExecuting(p) == planAt[p] \notin {"unsent", "sent", "refused", "reserved", "done", "lost"}

PlanCancel(p) ==
  /\ PlanExecuting(p) /\ planCancelled' = planCancelled \union {p}
  /\ UNCHANGED <<source, planAt, step, planOutcome, goalReserved, topics, content, files, crashes>>

-----------------------------------------------------------------------------
(* The end of a goal: _finish(). *)

PlanFinish(p, verdict) ==
  /\ planOutcome' = [planOutcome EXCEPT ![p] = verdict]
  /\ PlanGoto(p, IF verdict = "succeeded" THEN "transition" ELSE "clear")
  /\ UNCHANGED <<source, planCancelled, goalReserved, topics, content, files, crashes>>

ClearPreview(p) ==
  /\ planAt[p] = "clear" /\ preview' = Nothing /\ PlanGoto(p, "transition")
  /\ UNCHANGED <<source, planCancelled, planOutcome, goalReserved, trajectory, content, files, crashes>>

\* The transition of the goal and the finally clause; the Result comes after.
Release(p) ==
  /\ planAt[p] = "transition"
  /\ goalReserved' = FALSE /\ PlanGoto(p, "done")
  /\ UNCHANGED <<source, planCancelled, planOutcome, topics, content, files, crashes>>

\* Whatever raises where nothing else is said: caught, and the goal fails.
PlanFails(p) ==
  /\ planAt[p] \in {"waiting", "planning", "freezing", "invalidating", "commands", "replacing",
                    "reading", "publishing", "showing"}
  /\ PlanFinish(p, "failed")

-----------------------------------------------------------------------------
(* Execute callback of the offline runtime. *)

FixtureBegins(p) ==
  /\ source = "fixture" /\ planAt[p] = "accepted" /\ PlanGoto(p, "waiting")
  /\ UNCHANGED <<source, planCancelled, planOutcome, goalReserved, topics, content, files, crashes>>

\* _wait_for_tip(): cancel first.
WaitCancelled(p) == planAt[p] = "waiting" /\ p \in planCancelled /\ PlanFinish(p, "cancelled")

\* A tip newer than the goal, of the right frame and age.
TipArrives(p) ==
  /\ planAt[p] = "waiting" /\ PlanGoto(p, "planning")
  /\ UNCHANGED <<source, planCancelled, planOutcome, goalReserved, topics, content, files, crashes>>

\* plan_fixture_trajectory(), then the cancel request, then the verdict.
PlansFixture(p) ==
  /\ planAt[p] = "planning"
  /\ IF p \in planCancelled THEN PlanFinish(p, "cancelled")
     ELSE /\ PlanGoto(p, "publishing") /\ content' = [content EXCEPT ![p] = p]
          /\ UNCHANGED <<source, planCancelled, planOutcome, goalReserved, topics, files, crashes>>

-----------------------------------------------------------------------------
(* Execute callback of the live runtime, with the planning run: it freezes its   *)
(* inputs and then removes the files of the run before.  The command line does   *)
(* the same in the other order.                                                  *)

LiveBegins(p) ==
  /\ source = "live" /\ planAt[p] = "accepted" /\ PlanGoto(p, "freezing")
  /\ UNCHANGED <<source, planCancelled, planOutcome, goalReserved, topics, content, files, crashes>>

\* main(): one run after the other, by the operator.
PreviewStarts(p) ==
  /\ planAt[p] = "unsent" /\ \A q \in Previews : planAt[q] \in {"unsent", "done", "lost"}
  /\ PlanGoto(p, "invalidating")
  /\ UNCHANGED <<source, planCancelled, planOutcome, goalReserved, topics, content, files, crashes>>

\* load_live_planning_inputs() has fresh inputs, inject_live_target() or
\* inject_mission_target() adds the target to them.
Frozen(p) ==
  /\ planAt[p] = "freezing" /\ PlanGoto(p, IF p \in Plans THEN "invalidating" ELSE "commands")
  /\ UNCHANGED <<source, planCancelled, planOutcome, goalReserved, topics, content, files, crashes>>

StepOn(p, last, next) ==
  IF step[p] + 1 = last THEN PlanGoto(p, next)
  ELSE step' = [step EXCEPT ![p] = @ + 1] /\ UNCHANGED planAt

\* MUTANT: the files of the run before are left where they are.
InvalidateNone(p) ==
  /\ planAt[p] = "invalidating" /\ PlanGoto(p, IF p \in Plans THEN "commands" ELSE "freezing")
  /\ UNCHANGED <<source, planCancelled, planOutcome, goalReserved, topics, content, files, crashes>>

\* invalidate_outputs(): the last artifact stays.
Invalidate(p) ==
  /\ planAt[p] = "invalidating"
  /\ files' = [files EXCEPT ![Directory(p)][Artifacts[step[p] + 1]] = Nothing]
  /\ StepOn(p, Len(Artifacts) - 1, IF p \in Plans THEN "commands" ELSE "freezing")
  /\ UNCHANGED <<source, planCancelled, planOutcome, goalReserved, topics, content, crashes>>

\* execute_planning_commands(): one command after the other, each leaves a staged file.
RunCommand(p) ==
  /\ planAt[p] = "commands" /\ StepOn(p, Commands(p), "replacing")
  /\ UNCHANGED <<source, planCancelled, planOutcome, goalReserved, topics, content, files, crashes>>

\* The end of execute_prepared_run().
Replace(p) ==
  /\ planAt[p] = "replacing"
  /\ files' = [files EXCEPT ![Directory(p)][Artifacts[step[p] + 1]] = p]
  /\ StepOn(p, Commands(p), IF p \in Plans THEN "reading" ELSE "done")
  /\ UNCHANGED <<source, planCancelled, planOutcome, goalReserved, topics, content, crashes>>

\* An input that is missing or stale, a command that fails, a file that is not there.
PreviewFails(p) ==
  /\ planAt[p] \in {"invalidating", "freezing", "commands", "replacing"} /\ PlanGoto(p, "done")
  /\ UNCHANGED <<source, planCancelled, planOutcome, goalReserved, topics, content, files, crashes>>

\* The cancel request, then the published trajectory file and its checks.
ReadTrajectory(p) ==
  /\ planAt[p] = "reading"
  /\ IF p \in planCancelled THEN PlanFinish(p, "cancelled")
     ELSE /\ content' = [content EXCEPT ![p] = files[Directory(p)]["trajectory"]]
          /\ PlanGoto(p, "publishing")
          /\ UNCHANGED <<source, planCancelled, planOutcome, goalReserved, topics, files, crashes>>

-----------------------------------------------------------------------------

Publish(p) ==
  /\ planAt[p] = "publishing" /\ trajectory' = content[p] /\ PlanGoto(p, "showing")
  /\ UNCHANGED <<source, planCancelled, planOutcome, goalReserved, preview, content, files, crashes>>

Show(p) ==
  /\ planAt[p] = "showing" /\ preview' = content[p] /\ PlanGoto(p, "shown")
  /\ UNCHANGED <<source, planCancelled, planOutcome, goalReserved, trajectory, content, files, crashes>>

Succeeds(p) == planAt[p] = "shown" /\ PlanFinish(p, "succeeded")

\* The server, or the command line, is killed with its planner; the files stay.
PlanServerRestarts ==
  /\ crashes < MaxCrashes /\ crashes' = crashes + 1
  /\ planAt' = [p \in Runs |->
       IF PlanExecuting(p) \/ planAt[p] \in {"sent", "reserved"} THEN "lost" ELSE planAt[p]]
  /\ step' = [p \in Runs |-> 0]
  /\ goalReserved' = FALSE /\ preview' = Nothing /\ trajectory' = Nothing
  /\ UNCHANGED <<source, planCancelled, planOutcome, content, files>>

PlanningRun(p) == Frozen(p) \/ Invalidate(p) \/ RunCommand(p) \/ Replace(p)

PlanCallback(p) ==
  \/ PlanRejected(p) \/ PlanReserved(p) \/ PlanAccepted(p)
  \/ ClearPreview(p) \/ Release(p) \/ PlanFails(p)
  \/ FixtureBegins(p) \/ WaitCancelled(p) \/ TipArrives(p) \/ PlansFixture(p)
  \/ LiveBegins(p) \/ PlanningRun(p) \/ ReadTrajectory(p)
  \/ Publish(p) \/ Show(p) \/ Succeeds(p)

Preview(p) == PreviewStarts(p) \/ PlanningRun(p) \/ PreviewFails(p)

PlanNext ==
  \/ PlanServerRestarts
  \/ \E p \in Plans : PlanArrives(p) \/ PlanCancel(p) \/ PlanCallback(p)
  \/ \E p \in Previews : Preview(p)

PlanSpec == PlanInit /\ [][PlanNext]_planVars

-----------------------------------------------------------------------------

\* Types.
PlanTypeOK ==
  /\ planAt \in [Runs -> {"unsent", "sent", "refused", "reserved", "accepted", "waiting", "planning",
                          "freezing", "invalidating", "commands", "replacing", "reading", "publishing",
                          "showing", "shown", "clear", "transition", "done", "lost"}]
  /\ step \in [Runs -> 0 .. Len(Artifacts)] /\ planCancelled \subseteq Plans
  /\ planOutcome \in [Plans -> {"", "succeeded", "cancelled", "failed"}] /\ goalReserved \in BOOLEAN
  /\ {preview, trajectory} \subseteq Plans \union {Nothing}
  /\ content \in [Plans -> Plans \union {Nothing}]
  /\ files \in [{"live_latest", "live_preview"} ->
                 [{"local_map", "request", "trajectory", "observation_slice"} -> Runs \union {Nothing}]]

\* In each directory the map, the request and the trajectory that are there are of one
\* planning run, at every moment and whatever step failed or was cut off by a crash -
\* although they are removed and replaced one at a time.  The observation slice, which
\* no run removes and a plan replaces last, is of that run too once the plan's trajectory
\* has been read for its Result; beside the files of a run that was cut off while it
\* replaced them may lie an older one.  A goal's Result has the trajectory of its own,
\* and the preview is that of the last trajectory published.
ReadTogether == {"local_map", "request", "trajectory"}
OutputsOfOneRun ==
  /\ \A d \in DOMAIN files : \A a, b \in ReadTogether :
       files[d][a] # Nothing /\ files[d][b] # Nothing => files[d][a] = files[d][b]
  /\ \A p \in Plans : \A a \in ReadTogether :
       content[p] = p /\ files[Directory(p)][a] = p => files[Directory(p)]["observation_slice"] = p
  /\ \A p \in Plans : content[p] \in {p, Nothing}
  /\ preview \in {trajectory, Nothing}

=================================================================================
