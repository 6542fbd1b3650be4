------------------------------ MODULE OperatorStack ------------------------------
(***************************************************************************)
(* The processes of the operator's stack: what a profile of                *)
(* airy_excavator_bringup/launch/operator.launch.py starts and supervises, *)
(* how the processes that read Machine States and send commands claim      *)
(* their port and their endpoint, and the process groups of the perception *)
(* script (localmap/apps/perception/run_perception_stack.sh and            *)
(* process_lifecycle.sh).                                                  *)
(*                                                                         *)
(* Launches run at the same time on one PC.  Signals, the exclusive bind   *)
(* of a port, flock() and what the launch system does on Shutdown are      *)
(* external.                                                               *)
(***************************************************************************)
EXTENDS Naturals, FiniteSets

CONSTANTS
  Launches,  \* runs of the launch file
  Wanted,    \* the profiles they are started with
  Children,  \* what the perception script starts, each in a session of its own
  MayHang    \* bound: the roles that may ignore a signal

\* The profiles and what has to run: _live_adapter_processes().  Commissioning and
\* production differ in what their servers accept (LiveBehavior), not in this.
Required ==
  [fixture_shadow     |-> {},
   live_shadow        |-> {"bridge", "perception"},
   live_commissioning |-> {"perception", "planner", "control"},
   live_production    |-> {"perception", "planner", "control"}]

\* "servers" are the nodes nobody watches: the shadow or the mission server, the
\* fixture planner, the snapshot publisher, RViz.
Roles == {"bridge", "perception", "planner", "control", "servers"}
Started(p) == Required[p] \cup {"servers"}

ASSUME StackAssumption == Wanted \subseteq DOMAIN Required /\ Wanted # {}

VARIABLES
  profile,   \* of each launch; "none" before it
  launch,    \* "none", "up", "stopping", "over", "killed"
  process,   \* "none", "starting", "bound", "up", "asked", "closing", "waiting", "gone"
  signal,    \* what the launch has sent so far: 0, SIGINT 1, SIGTERM 2, SIGKILL 3
  again,     \* the operator pressed Ctrl-C a second time
  port,      \* the launches whose bridge or server has the state port
  lock,      \* the launches whose server has the endpoint's lock
  group,     \* the live members of each perception group; "no" before its start
  listed,    \* PIDS of each script
  loose      \* history: the children a signal came at the wrong moment for

stackVars == <<profile, launch, process, signal, again, port, lock, group, listed, loose>>

Members == {"leader", "rest"}
NotYet  == {"no"}
Forked  == {"fork"}   \* it is still in the group of the script

StackInit ==
  /\ profile = [l \in Launches |-> "none"] /\ launch = [l \in Launches |-> "none"]
  /\ process = [l \in Launches |-> [r \in Roles |-> "none"]]
  /\ signal = [l \in Launches |-> 0] /\ again = [l \in Launches |-> FALSE]
  /\ port = {} /\ lock = {}
  /\ group = [l \in Launches |-> [c \in Children |-> NotYet]]
  /\ listed = [l \in Launches |-> {}] /\ loose = [l \in Launches |-> {}]

Runs(l, r)    == process[l][r] \notin {"none", "gone"}
Becomes(l, r, state) == process' = [process EXCEPT ![l][r] = state]

-----------------------------------------------------------------------------
(* The launch file. *)

\* _launch_profile(); one whose authorization does not fit its profile starts nothing.
LaunchProfile(l) ==
  /\ launch[l] = "none" /\ launch' = [launch EXCEPT ![l] = "up"]
  /\ \E p \in Wanted :
       /\ profile' = [profile EXCEPT ![l] = p]
       /\ process' = [process EXCEPT ![l] =
            [r \in Roles |-> IF r \notin Started(p) THEN "none"
                             ELSE IF r \in {"planner", "servers"} THEN "up" ELSE "starting"]]
  /\ UNCHANGED <<signal, again, port, lock, group, listed, loose>>

\* What a signal makes of a process: a program that closes nothing is over, or hangs;
\* the server begins destroy_node(); the script, unless it has not set its traps, will
\* come to them: in cleanup() the trap is still "exit 0" and breaks it off.
Asked(r, state, hangs) ==
  CASE state \in {"none", "gone", "asked"} -> state
    [] r = "control" /\ state \in {"up", "closing"} -> "closing"
    [] r = "perception" /\ state = "up" -> "asked"
    [] r = "perception" /\ state \in {"closing", "waiting"} -> "gone"
    [] OTHER -> IF hangs THEN state ELSE "gone"

\* What the end of a process leaves free.
Frees(l) ==
  /\ port' = port \ (IF process'[l]["bridge"] = "gone" \/ process'[l]["control"] = "gone" THEN {l} ELSE {})
  /\ lock' = lock \ (IF process'[l]["control"] = "gone" THEN {l} ELSE {})

Signals(l) == \E hanging \in SUBSET MayHang :
  process' = [process EXCEPT ![l] = [r \in Roles |-> Asked(r, process[l][r], r \in hanging)]]

\* A signal during cleanup(): none of the groups has had its SIGKILL.
BreaksCleanup(l) ==
  loose' = [loose EXCEPT ![l] = IF process[l]["perception"] = "closing" THEN Children ELSE loose[l]]

\* SIGINT
Shutdown(l) ==
  /\ launch' = [launch EXCEPT ![l] = "stopping"] /\ signal' = [signal EXCEPT ![l] = 1]
  /\ Signals(l) /\ Frees(l) /\ BreaksCleanup(l)
  /\ UNCHANGED <<profile, again, group, listed>>

\* MUTANT: the handler of the process that sends commands is missing.
RequiredExitedOther(l) ==
  /\ launch[l] = "up" /\ \E r \in Required[profile[l]] \ {"control"} : process[l][r] = "gone"
  /\ Shutdown(l)

\* _required_process()
RequiredExited(l) ==
  /\ launch[l] = "up" /\ \E r \in Required[profile[l]] : process[l][r] = "gone"
  /\ Shutdown(l)

CtrlC(l) == launch[l] = "up" /\ Shutdown(l)

\* The terminal sends it to every process; the launch ignores it.  It breaks
\* destroy_node() and cleanup() off.
CtrlCAgain(l) ==
  /\ launch[l] = "stopping" /\ ~again[l] /\ again' = [again EXCEPT ![l] = TRUE]
  /\ process' = [process EXCEPT ![l] = [r \in Roles |->
       IF process[l][r] \in {"closing", "waiting"} THEN "gone" ELSE process[l][r]]]
  /\ Frees(l) /\ BreaksCleanup(l)
  /\ UNCHANGED <<profile, launch, signal, group, listed>>

\* SIGTERM after five seconds, SIGKILL after five more.  A script that was asked needs at
\* most two seconds to come to its trap and two for the groups.
Escalates(l) ==
  /\ launch[l] = "stopping" /\ signal[l] < 3 /\ \E r \in Roles : Runs(l, r)
  /\ process[l]["perception"] \notin {"asked", "closing"}
  /\ signal' = [signal EXCEPT ![l] = signal[l] + 1]
  /\ IF signal[l] = 1
       THEN Signals(l) /\ (process[l]["perception"] = "starting" => process'[l]["perception"] = "gone")
       ELSE process' = [process EXCEPT ![l] = [r \in Roles |-> IF Runs(l, r) THEN "gone" ELSE process[l][r]]]
  /\ Frees(l)
  /\ UNCHANGED <<profile, launch, again, group, listed, loose>>

LaunchOver(l) ==
  /\ launch[l] = "stopping" /\ \A r \in Roles : ~Runs(l, r)
  /\ launch' = [launch EXCEPT ![l] = "over"]
  /\ UNCHANGED <<profile, process, signal, again, port, lock, group, listed, loose>>

\* Its processes go on without it.
LaunchKilled(l) ==
  /\ launch[l] \in {"up", "stopping"} /\ launch' = [launch EXCEPT ![l] = "killed"]
  /\ UNCHANGED <<profile, process, signal, again, port, lock, group, listed, loose>>

-----------------------------------------------------------------------------
(* The programs. *)

\* Any program but the script may end by itself, whatever the cause, at any time.
Ends(l, r) ==
  /\ r # "perception" /\ Runs(l, r) /\ Becomes(l, r, "gone")
  /\ Frees(l)
  /\ UNCHANGED <<profile, launch, signal, again, group, listed, loose>>

\* pc_runtime_bridge.py and the constructor of the live server bind the state port; one
\* that finds it taken ends.
Binds(l, r) ==
  /\ r \in {"bridge", "control"} /\ process[l][r] = "starting"
  /\ IF port = {}
       THEN port' = {l} /\ Becomes(l, r, IF r = "bridge" THEN "up" ELSE "bound")
       ELSE Becomes(l, r, "gone") /\ UNCHANGED port
  /\ UNCHANGED <<profile, launch, signal, again, lock, group, listed, loose>>

\* MUTANT: the lock of the endpoint is not looked at.
LocksAnyway(l) ==
  /\ process[l]["control"] = "bound"
  /\ lock' = lock \cup {l} /\ Becomes(l, "control", "up")
  /\ UNCHANGED <<profile, launch, signal, again, port, group, listed, loose>>

\* RecordedUdpSender takes the endpoint's lock or raises.
Locks(l) ==
  /\ process[l]["control"] = "bound"
  /\ IF lock = {}
       THEN lock' = {l} /\ Becomes(l, "control", "up") /\ UNCHANGED port
       ELSE Becomes(l, "control", "gone") /\ Frees(l)
  /\ UNCHANGED <<profile, launch, signal, again, group, listed, loose>>

\* destroy_node() closes the state socket first, and goes on sending zeros; the lock
\* goes with the close() of the sender, at its end.
ClosesSocket(l) ==
  /\ process[l]["control"] = "closing" /\ l \in port /\ port' = port \ {l}
  /\ UNCHANGED <<profile, launch, process, signal, again, lock, group, listed, loose>>

Closed(l) ==
  /\ process[l]["control"] = "closing" /\ l \notin port /\ Becomes(l, "control", "gone")
  /\ lock' = lock \ {l}
  /\ UNCHANGED <<profile, launch, signal, again, port, group, listed, loose>>

-----------------------------------------------------------------------------
(* The perception script and its groups. *)

Live(l) == {c \in Children : group[l][c] \cap (Members \cup Forked) # {}}

\* Those kill -- "-pid" of PIDS reaches.
Reached(l) == {c \in listed[l] \cap Live(l) : group[l][c] # Forked}

\* It ends before its traps are set, or, with them, for want of the radar's address: no
\* child yet.
ScriptFails(l) ==
  /\ \/ process[l]["perception"] = "starting" /\ Becomes(l, "perception", "gone")
     \/ process[l]["perception"] = "up" /\ Becomes(l, "perception", "closing")
  /\ \A c \in Children : group[l][c] = NotYet
  /\ UNCHANGED <<profile, launch, signal, again, port, lock, group, listed, loose>>

ScriptSetsTraps(l) ==
  /\ process[l]["perception"] = "starting" /\ Becomes(l, "perception", "up")
  /\ UNCHANGED <<profile, launch, signal, again, port, lock, group, listed, loose>>

\* start_process(): setsid "$@" &, one child after the other
ForksChild(l, c) ==
  /\ process[l]["perception"] = "up" /\ group[l][c] = NotYet
  /\ \A d \in Children : group[l][d] # NotYet => d \in listed[l]
  /\ group' = [group EXCEPT ![l][c] = Forked]
  /\ UNCHANGED <<profile, launch, process, signal, again, port, lock, listed, loose>>

\* PIDS+=("$!"), a command of its own: a trap may come before it
ListsChild(l, c) ==
  /\ process[l]["perception"] = "up" /\ group[l][c] # NotYet /\ c \notin listed[l]
  /\ listed' = [listed EXCEPT ![l] = listed[l] \cup {c}]
  /\ UNCHANGED <<profile, launch, process, signal, again, port, lock, group, loose>>

\* The child comes to setsid(), whatever its script does: a wrapper and the program it runs
LeadsGroup(l, c) ==
  /\ group[l][c] = Forked /\ group' = [group EXCEPT ![l][c] = Members]
  /\ UNCHANGED <<profile, launch, process, signal, again, port, lock, listed, loose>>

ChildEnds(l, c, m) ==
  /\ m \in group[l][c] \cap (Members \cup Forked) /\ group' = [group EXCEPT ![l][c] = @ \ {m}]
  /\ UNCHANGED <<profile, launch, process, signal, again, port, lock, listed, loose>>

\* cleanup(): from the trap, or because the loop at the end finds a leader gone
Cleanup(l) ==
  /\ \/ process[l]["perception"] = "asked"
     \/ /\ process[l]["perception"] = "up" /\ listed[l] = Children
        /\ \E c \in Children : group[l][c] \cap {"leader", "fork"} = {}
  /\ Becomes(l, "perception", "closing")
  /\ loose' = [loose EXCEPT ![l] = Live(l) \ Reached(l)]
  /\ UNCHANGED <<profile, launch, signal, again, port, lock, group, listed>>

\* MUTANT: SIGKILL goes to the leaders only.
TerminateLeaders(l) ==
  /\ process[l]["perception"] = "closing" /\ Becomes(l, "perception", "waiting")
  /\ group' = [group EXCEPT ![l] =
       [c \in Children |-> IF c \in Reached(l) THEN group[l][c] \ {"leader"} ELSE group[l][c]]]
  /\ UNCHANGED <<profile, launch, signal, again, port, lock, listed, loose>>

\* terminate_processes(): SIGTERM, which may be ignored, and SIGKILL when the grace is over
TerminateProcesses(l) ==
  /\ process[l]["perception"] = "closing" /\ Becomes(l, "perception", "waiting")
  /\ group' = [group EXCEPT ![l] = [c \in Children |-> IF c \in Reached(l) THEN {} ELSE group[l][c]]]
  /\ UNCHANGED <<profile, launch, signal, again, port, lock, listed, loose>>

\* wait "${pid}", for the leaders in PIDS: one that was not reached is waited for.
ScriptWaits(l) ==
  /\ process[l]["perception"] = "waiting" /\ Becomes(l, "perception", "gone")
  /\ \A c \in listed[l] : group[l][c] \cap {"leader", "fork"} = {}
  /\ UNCHANGED <<profile, launch, signal, again, port, lock, group, listed, loose>>

-----------------------------------------------------------------------------

LaunchStep(l) == RequiredExited(l) \/ Escalates(l) \/ LaunchOver(l)
ScriptStep(l) == Cleanup(l) \/ TerminateProcesses(l) \/ ScriptWaits(l)
ClaimStep(l) == Locks(l) \/ ClosesSocket(l) \/ Closed(l) \/ \E r \in Roles : Binds(l, r)

Works(l) ==
  \/ LaunchProfile(l) \/ LaunchStep(l) \/ ClaimStep(l) \/ ScriptSetsTraps(l) \/ ScriptStep(l)
  \/ \E c \in Children : ForksChild(l, c) \/ ListsChild(l, c) \/ LeadsGroup(l, c)

Mishap(l) ==
  \/ CtrlC(l) \/ CtrlCAgain(l) \/ LaunchKilled(l) \/ ScriptFails(l)
  \/ \E r \in Roles : Ends(l, r)
  \/ \E c \in Children, m \in Members \cup Forked : ChildEnds(l, c, m)

StackNext == \E l \in Launches : Works(l) \/ Mishap(l)

\* The launch and the script do their work.  A program may hang: it is killed.
StackFairness == \A l \in Launches :
  WF_stackVars(LaunchStep(l)) /\ WF_stackVars(ScriptSetsTraps(l)) /\ WF_stackVars(ScriptStep(l))

StackSpec == StackInit /\ [][StackNext]_stackVars /\ StackFairness

-----------------------------------------------------------------------------

\* Types.
StackTypeOK ==
  /\ profile \in [Launches -> DOMAIN Required \cup {"none"}]
  /\ launch \in [Launches -> {"none", "up", "stopping", "over", "killed"}]
  /\ process \in [Launches -> [Roles -> {"none", "starting", "bound", "up", "asked", "closing", "waiting", "gone"}]]
  /\ signal \in [Launches -> 0 .. 3] /\ again \in [Launches -> BOOLEAN]
  /\ port \subseteq Launches /\ lock \subseteq Launches
  /\ group \in [Launches -> [Children -> (SUBSET Members) \cup {NotYet, Forked}]]
  /\ listed \in [Launches -> SUBSET Children] /\ loose \in [Launches -> SUBSET Children]

\* "One authorized UDP Command Sink": never do two servers send to the endpoint, the
\* zeros of the one that is closing included, whatever was launched, killed or left
\* behind before.
Sends(l) == process[l]["control"] \in {"up", "closing"}
OneCommandSink == \A l, k \in Launches : Sends(l) /\ Sends(k) => l = k

\* process_lifecycle.sh: stop whole process groups "so wrappers cannot leave ROS
\* grandchildren behind".
GroupsGone == \A l \in Launches : process[l]["perception"] = "gone" => Live(l) = {}

\* Whatever ignores its signals: a script that is gone has left none of its groups but
\* those a signal came at the wrong moment for, in the middle of cleanup() or before the
\* child was in PIDS and had its group.  Of those not in PIDS there is at most one.
NothingLeftBehind ==
  \A l \in Launches :
    /\ process[l]["perception"] = "gone" => Live(l) \subseteq loose[l]
    /\ \A c, d \in Live(l) \ listed[l] : c = d

\* A stack one of whose required processes is gone, for want of the port say, comes
\* down as a whole, hanging processes and perception groups included but for the loose
\* ones, unless its launch is killed.
StackComesDown ==
  \A l \in Launches :
    (\E r \in Roles : process[l][r] = "gone" /\ r \in Required[profile[l]])
      ~> \/ launch[l] = "killed"
         \/ launch[l] = "over" /\ Live(l) \subseteq loose[l]
==================================================================================
