------------------------------ MODULE MissionReplay ------------------------------
(***************************************************************************)
(* The offline replay of a whole mission: mission/apps/run_mission_replay  *)
(* .py, which loads the Mission Snapshot (mission/contract.py) and a       *)
(* recording, takes the state machine of mission/state_machine.py through  *)
(* it (mission/replay.py) and writes what came of it.  The operator edits  *)
(* the mission, and several replays may write the same file.               *)
(*                                                                         *)
(* What tracks a recorded segment is the tracker of FollowTracking; here a *)
(* stage of a recording went well or did not.                              *)
(***************************************************************************)
EXTENDS Sequences, Naturals

CONSTANTS
  Replays,    \* the runs of the program
  Points,     \* positions
  Snapshots,  \* the missions the operator saves
  Recordings  \* what a replay is run on

\* The states of MissionStateMachine in their order, and the event that ends each.
Chain ==
  << "idle", "planning_to_dig", "tracking_to_dig", "settling_after_dig_track", "digging",
     "verifying_load", "planning_to_dump", "tracking_to_dump", "settling_after_dump_track",
     "dumping", "verifying_empty", "returning_home", "completed" >>
NominalEvents ==
  << "start", "plan_succeeded", "track_completed", "settled", "primitive_completed",
     "verification_passed", "plan_succeeded", "track_completed", "settled",
     "primitive_completed", "verification_passed", "home_reached" >>

MissionStates == {Chain[i] : i \in 1 .. 13} \cup {"failed", "stopped"}
MissionEvents == {NominalEvents[i] : i \in 1 .. 12} \cup {"fail", "stop"}
Terminal == {"completed", "failed", "stopped"}

Snapshot == [dig : Points, dump : Points]
\* Where the two plans end and the second begins, where the tip was after the dig, and
\* the states in which something went wrong.
Recording ==
  [digTo : Points, tip : Points, dumpFrom : Points, dumpTo : Points, bad : SUBSET MissionStates]

ASSUME ReplayAssumption == Snapshots \subseteq Snapshot /\ Recordings \subseteq Recording

VARIABLES
  mission,    \* the Mission file
  step,       \* where a run of the program is
  snapshot,   \* the mission it has loaded
  recording,  \* what it replays
  machine,    \* its MissionStateMachine
  output,     \* mission_events.json: none or one
  begun       \* history: the runs that have removed the output

replayVars == <<mission, step, snapshot, recording, machine, output, begun>>

Transition == [from : MissionStates, event : MissionEvents, to : MissionStates]
StateMachine == [state : MissionStates, transitions : Seq(Transition)]
\* from: where the plan of the dump begins, once the tip after the dig is known.
Output ==
  [by : Replays, mission : Snapshots, state : MissionStates, transitions : Seq(Transition),
   from : SUBSET Points, begun : SUBSET Replays]

NewMachine == [state |-> "idle", transitions |-> << >>]

ReplayInit ==
  /\ mission \in Snapshots /\ snapshot = [r \in Replays |-> mission]
  /\ \E rec \in Recordings : recording = [r \in Replays |-> rec]
  /\ step = [r \in Replays |-> "off"] /\ machine = [r \in Replays |-> NewMachine]
  /\ output = {} /\ begun = {}

-----------------------------------------------------------------------------
(* MissionStateMachine.advance() *)

Accepts(m, event, target) ==
  /\ m.state \notin Terminal
  /\ \/ event = "fail" /\ target = "failed"
     \/ event = "stop" /\ target = "stopped"
     \/ \E i \in 1 .. 12 : Chain[i] = m.state /\ NominalEvents[i] = event /\ target = Chain[i + 1]

After(m, event, target) ==
  [state |-> target,
   transitions |-> Append(m.transitions, [from |-> m.state, event |-> event, to |-> target])]

Advances(r, event) ==
  \E target \in MissionStates :
    Accepts(machine[r], event, target)
    /\ machine' = [machine EXCEPT ![r] = After(machine[r], event, target)]

-----------------------------------------------------------------------------
(* main() *)

Goes(r, from, to) == step[r] = from /\ step' = [step EXCEPT ![r] = to]

\* The output of an earlier run goes first.
Clears(r) ==
  /\ Goes(r, "off", "cleared") /\ output' = {} /\ begun' = begun \cup {r}
  /\ UNCHANGED <<mission, snapshot, recording, machine>>

\* load_mission(), once
Loads(r) ==
  /\ Goes(r, "cleared", "loaded") /\ snapshot' = [snapshot EXCEPT ![r] = mission]
  /\ UNCHANGED <<mission, recording, machine, output, begun>>

\* A recording with all its fields, in the frame of the mission.
Begins(r) ==
  /\ Goes(r, "loaded", "replay") /\ Advances(r, "start")
  /\ \E rec \in Recordings : recording' = [recording EXCEPT ![r] = rec]
  /\ UNCHANGED <<mission, snapshot, output, begun>>

\* MUTANT: the plan of the dump is not held against where the dig left the tip.
PlanMatchesGoal(rec, goals, state) ==
  (state = "planning_to_dig" /\ rec.digTo = goals.dig) \/ (state = "planning_to_dump" /\ rec.dumpTo = goals.dump)

\* A plan goes to the target of the mission, the second from where the dig left the tip.
PlanMatches(rec, goals, state) ==
  \/ state = "planning_to_dig" /\ rec.digTo = goals.dig
  \/ state = "planning_to_dump" /\ rec.dumpFrom = rec.tip /\ rec.dumpTo = goals.dump

Planning(state) == state \in {"planning_to_dig", "planning_to_dump"}

\* Tracked before its samples and its time run out, settled, completed, passed.
WentWell(rec, state) == state \notin rec.bad

StagePasses(r) ==
  /\ step[r] = "replay"
  /\ IF Planning(machine[r].state)
       THEN PlanMatches(recording[r], snapshot[r], machine[r].state)
       ELSE WentWell(recording[r], machine[r].state)
  /\ \E event \in MissionEvents \ {"fail", "stop"} : Advances(r, event)
  /\ UNCHANGED <<mission, step, snapshot, recording, output, begun>>

StageFails(r) ==
  /\ step[r] = "replay" /\ ~Planning(machine[r].state)
  /\ ~WentWell(recording[r], machine[r].state) /\ Advances(r, "fail")
  /\ UNCHANGED <<mission, step, snapshot, recording, output, begun>>

\* The dump's plan is known from the second planning on.
DumpPlanned(m) == \E i \in 1 .. Len(m.transitions) : m.transitions[i].from = "planning_to_dump"

\* _write_json_atomic()
Writes(r) ==
  /\ Goes(r, "replay", "over") /\ machine[r].state \in Terminal
  /\ output' = {[by |-> r, mission |-> snapshot[r], state |-> machine[r].state,
                 transitions |-> machine[r].transitions,
                 from |-> IF DumpPlanned(machine[r]) THEN {recording[r].tip} ELSE {},
                 begun |-> begun]}
  /\ UNCHANGED <<mission, snapshot, recording, machine, begun>>

\* A plan that does not match, a file that cannot be read or written; or the program is
\* killed.
ReplayStops(r) ==
  /\ step[r] # "over" /\ Goes(r, step[r], "over")
  /\ UNCHANGED <<mission, snapshot, recording, machine, output, begun>>

ReplayRun(r) ==
  Clears(r) \/ Loads(r) \/ Begins(r) \/ StagePasses(r) \/ StageFails(r) \/ Writes(r) \/ ReplayStops(r)

EditsMission ==
  /\ mission' \in Snapshots
  /\ UNCHANGED <<step, snapshot, recording, machine, output, begun>>

ReplayNext == EditsMission \/ \E r \in Replays : ReplayRun(r)

ReplaySpec == ReplayInit /\ [][ReplayNext]_replayVars

-----------------------------------------------------------------------------

\* Types.
ReplayTypeOK ==
  /\ mission \in Snapshots /\ snapshot \in [Replays -> Snapshots]
  /\ step \in [Replays -> {"off", "cleared", "loaded", "replay", "over"}]
  /\ recording \in [Replays -> Recordings] /\ machine \in [Replays -> StateMachine]
  /\ output \subseteq Output /\ begun \subseteq Replays

\* The first n states of the chain were passed in their order, and nothing went wrong.
Passed(o, rec, n) ==
  /\ \A i \in 1 .. n :
       /\ o.transitions[i] = [from |-> Chain[i], event |-> NominalEvents[i], to |-> Chain[i + 1]]
       /\ i # 1 /\ ~Planning(Chain[i]) => WentWell(rec, Chain[i])
  /\ n >= 2 => rec.digTo = o.mission.dig
  /\ n >= 7 => rec.dumpFrom = rec.tip /\ rec.dumpTo = o.mission.dump /\ o.from = {rec.tip}

\* The output of a replay is about one recording and the mission it names, whatever was
\* saved in between: "completed" that all twelve stages went well and that the plan of the
\* dump began where the dig left the tip, "failed" that the stage it names is the first
\* that went wrong.
TellsItsStages ==
  \A o \in output :
    LET rec == recording[o.by] IN
    \/ o.state = "completed" /\ Len(o.transitions) = 12 /\ Passed(o, rec, 12)
    \/ /\ o.state = "failed" /\ Len(o.transitions) \in 3 .. 12
       /\ LET n == Len(o.transitions) IN
          /\ Passed(o, rec, n - 1) /\ ~Planning(Chain[n]) /\ ~WentWell(rec, Chain[n])
          /\ o.transitions[n] = [from |-> Chain[n], event |-> "fail", to |-> "failed"]

\* When a run is over the output, if there is one, is not from before it began.
NotOlder == \A r \in begun : step[r] = "over" => \A o \in output : r \in o.begun

\* What is in the file tells the stages, and is not older than a run that is over.
ReplayOutput == TellsItsStages /\ NotOlder
================================================================================
