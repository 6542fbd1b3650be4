--------------------------- MODULE MCOperatorStation ---------------------------
(***************************************************************************)
(* What the operator starts and clicks: the panel, its log, and the        *)
(* processes of the stack, each on its own; they share no state.           *)
(***************************************************************************)
EXTENDS PanelOperation, OperatorLog, OperatorStack

CONSTANTS
  MaxMishaps,      \* bound: what goes wrong with two launches
  MaxGroupMishaps  \* bound: and with one launch and its groups

VARIABLES scenario, mishaps

MCVars == <<panelVars, logs, stackVars, scenario, mishaps>>

\* A shadow runtime, a supervised canary and a production runtime.
MCConfigs ==
  { [mode |-> "shadow", stage |-> "none", canary |-> FALSE, validated |-> FALSE, jog |-> FALSE],
    [mode |-> "control", stage |-> "commissioning", canary |-> TRUE, validated |-> FALSE, jog |-> TRUE],
    [mode |-> "control", stage |-> "production", canary |-> FALSE, validated |-> TRUE, jog |-> FALSE] }

MCInit ==
  /\ Init /\ LogInit /\ StackInit
  /\ mishaps = 0 /\ scenario \in {"panel", "log", "claims", "groups"}
  /\ scenario # "panel" => config.mode = "shadow"

Panel(A) == scenario = "panel" /\ A /\ UNCHANGED <<logs, stackVars, scenario, mishaps>>
\* Two launches claim the port and the endpoint, with scripts that start no child; and one
\* launch starts its groups: what is in a group does not touch another launch.
Stack(A) == scenario \in {"claims", "groups"} /\ A /\ UNCHANGED <<panelVars, logs, scenario, mishaps>>

Playing == IF scenario = "groups" THEN {CHOOSE l \in Launches : TRUE} ELSE Launches
Mishaps == IF scenario = "groups" THEN MaxGroupMishaps ELSE MaxMishaps
Bounded == scenario = "claims" => group' = group

MCNext ==
  \/ Panel(Next)
  \/ scenario = "log" /\ LogNext /\ UNCHANGED <<panelVars, stackVars, scenario, mishaps>>
  \/ Stack(\E l \in Playing : Works(l) /\ Bounded)
  \/ /\ scenario \in {"claims", "groups"} /\ mishaps < Mishaps /\ mishaps' = mishaps + 1
     /\ \E l \in Playing : Mishap(l)
     /\ UNCHANGED <<panelVars, logs, scenario>>

MCSpec ==
  /\ MCInit /\ [][MCNext]_MCVars
  /\ WF_MCVars(Panel(QtStep)) /\ WF_MCVars(Panel(CallbackStep)) /\ WF_MCVars(Panel(ServerStep))
  /\ \A l \in Launches :
       /\ WF_MCVars(Stack(LaunchStep(l)))
       /\ WF_MCVars(Stack(ScriptSetsTraps(l))) /\ WF_MCVars(Stack(ScriptStep(l)))
================================================================================
