------------------------------- MODULE MCRehearsal -------------------------------
(***************************************************************************)
(* Three runtimes, by their profile: offline with the rehearsal client and *)
(* somebody else's ReturnHome; live_shadow, which is the shadow server     *)
(* alone; live_control, of which the Plan server is here, or, with it      *)
(* idle, previews by the command line.                                     *)
(***************************************************************************)
EXTENDS PlanFollowShadow

CONSTANTS p1, p2, f1, h1, c1, c2

\* Offline, the timer's two steps are one, and the runtime is not shut down.
TimerAtOnce ==
  /\ source = "fixture" /\ shown # Status /\ shown' = Status
  /\ UNCHANGED <<at, seen, cancelled, outcome, leaseState, context, raised, planVars, clientVars>>

Offline ==
  /\ source = "fixture"
  /\ \/ Client \/ TimerAtOnce
     \/ /\ OthersNext
        /\ planAt'[p2] = "unsent" /\ (\A c \in Previews : planAt'[c] = "unsent")
        /\ seen'["timer"] = Unread /\ context'

NoGoals == \A g \in Goals : at[g] = "unsent"
NoPlans == \A p \in Runs : planAt[p] = "unsent"

LiveShadow ==
  source = "live" /\ NoPlans /\ crashes = 0 /\ ShadowNext /\ UNCHANGED <<planVars, clientVars>>

LiveControl ==
  /\ source = "live" /\ NoGoals /\ shown = Status /\ PlanNext /\ UNCHANGED <<shadowVars, clientVars>>
  /\ (\A p \in Plans : planAt'[p] = "unsent") \/ (\A c \in Previews : planAt'[c] = "unsent")

LiveTimer == source = "live" /\ NoPlans /\ crashes = 0 /\ Timer /\ UNCHANGED <<planVars, clientVars>>

MCSpec ==
  /\ RehearsalInit /\ [][Offline \/ LiveShadow \/ LiveControl]_rehearsalVars
  /\ WF_rehearsalVars(LiveTimer) /\ WF_rehearsalVars(TimerAtOnce)
  /\ \A g \in Goals : WF_rehearsalVars(Callback(g) /\ UNCHANGED <<planVars, clientVars>>)
==================================================================================
