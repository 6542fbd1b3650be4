---------------------------- MODULE PlanFollowShadow ----------------------------
(***************************************************************************)
(* The rehearsal of one Mission phase in a shadow runtime                  *)
(* (mission/runtime_ros/run_plan_follow_shadow.py): a command-line client  *)
(* that has a trajectory planned and followed, next to the servers it      *)
(* calls and their other clients.                                          *)
(*                                                                         *)
(* One thread.  It hears of statuses, acceptances and Results only while   *)
(* it waits for one; every wait may time out or be cut off by Ctrl-C.      *)
(***************************************************************************)
EXTENDS ShadowBehavior, PlanServer

CONSTANTS OwnPlan, OwnFollow   \* the client's goals

ASSUME RehearsalAssumption ==
  OwnPlan \in Plans /\ OwnFollow \in Follows /\ OwnFollow \notin Plans \union {Nothing}

VARIABLES
  client,    \* where run_phase() is
  heard,     \* _runtime_status
  known,     \* plan_handle, follow_handle: the goal whose handle is set, or Nothing
  accepted   \* history: goals whose acceptance the client has heard of

clientVars == <<client, heard, known, accepted>>
rehearsalVars == <<shadowVars, planVars, clientVars>>
servers == <<shadowVars, planVars>>

RehearsalInit ==
  /\ ShadowInit /\ PlanInit
  /\ client = "status" /\ heard = Unread /\ known = Nothing /\ accepted = {}

-----------------------------------------------------------------------------

Waiting == client \in {"planResponse", "planResult", "followResponse", "followResult"}

\* _on_runtime_status(); _require_shadow_status() waits only for the first one.
ClientHears ==
  /\ Waiting \/ (client = "status" /\ heard = Unread)
  /\ heard # shown /\ heard' = shown
  /\ UNCHANGED <<client, known, accepted, servers>>

\* _require_shadow_status(), of the last status it has heard.
ShadowStatus == heard.quiescent /\ heard.active = ""

\* MUTANT: an error ends the client there and then.
FailOutright == client' = "ended" /\ UNCHANGED known

\* An exception, through the finally clause.
Fail ==
  /\ client' = IF known = Nothing THEN "ended" ELSE "cancel"
  /\ UNCHANGED known

StatusBad ==
  /\ client \in {"status", "followStatus"} /\ Fail
  /\ UNCHANGED <<heard, accepted, servers>>

StatusGood ==
  /\ client \in {"status", "followStatus"} /\ heard # Unread /\ ShadowStatus
  /\ client' = IF client = "status" THEN "sendPlan" ELSE "sendFollow"
  /\ UNCHANGED <<heard, known, accepted, servers>>

\* No server, or Ctrl-C while it is waited for.
NotSent ==
  /\ client \in {"sendPlan", "sendFollow"} /\ Fail
  /\ UNCHANGED <<heard, accepted, servers>>

SendPlan ==
  /\ client = "sendPlan" /\ PlanArrives(OwnPlan) /\ client' = "planResponse"
  /\ UNCHANGED <<heard, known, accepted, shadowVars>>

PlanResponse ==
  /\ client = "planResponse" /\ planAt[OwnPlan] \notin {"unsent", "sent", "reserved", "lost"}
  /\ IF planAt[OwnPlan] = "refused" THEN Fail /\ UNCHANGED accepted
     ELSE client' = "planResult" /\ known' = OwnPlan /\ accepted' = accepted \union {OwnPlan}
  /\ UNCHANGED <<heard, servers>>

\* The Result and _validate_trajectory(), which may find it expired.
PlanResult ==
  /\ client = "planResult" /\ planAt[OwnPlan] = "done" /\ known' = Nothing
  /\ \/ planOutcome[OwnPlan] = "succeeded" /\ client' = "followStatus"
     \/ client' = "ended"
  /\ UNCHANGED <<heard, accepted, servers>>

SendFollow ==
  /\ client = "sendFollow" /\ Arrives(OwnFollow) /\ client' = "followResponse"
  /\ UNCHANGED <<heard, known, accepted, planVars>>

FollowResponse ==
  /\ client = "followResponse" /\ at[OwnFollow] \notin {"unsent", "sent", "rejected", "reserved"}
  /\ IF at[OwnFollow] = "refused" THEN Fail /\ UNCHANGED accepted
     ELSE client' = "followResult" /\ known' = OwnFollow /\ accepted' = accepted \union {OwnFollow}
  /\ UNCHANGED <<heard, servers>>

FollowResult ==
  /\ client = "followResult" /\ at[OwnFollow] = "done"
  /\ known' = Nothing /\ client' = "ended"
  /\ UNCHANGED <<heard, accepted, servers>>

\* _wait() raises TimeoutError, or Ctrl-C does KeyboardInterrupt.
WaitFails == Waiting /\ Fail /\ UNCHANGED <<heard, accepted, servers>>

\* _cancel_and_wait(): the request,
CancelRequest ==
  /\ client = "cancel" /\ client' = "cancelling"
  /\ \/ known = OwnPlan /\ (PlanCancel(OwnPlan) \/ UNCHANGED planVars) /\ UNCHANGED shadowVars
     \/ known = OwnFollow /\ (OnCancel(OwnFollow) \/ UNCHANGED shadowVars) /\ UNCHANGED planVars
  /\ UNCHANGED <<heard, known, accepted>>

\* its response and the Result of the goal, whatever it is, in time,
Cleaned ==
  /\ client = "cancelling"
  /\ IF known = OwnPlan THEN planAt[OwnPlan] = "done" ELSE at[OwnFollow] = "done"
  /\ client' = "ended"
  /\ UNCHANGED <<heard, known, accepted, servers>>

\* or not.
GivesUp ==
  /\ client = "cancelling" /\ client' = "gaveUp"
  /\ UNCHANGED <<heard, known, accepted, servers>>

Client ==
  \/ ClientHears \/ StatusBad \/ StatusGood \/ NotSent \/ SendPlan \/ PlanResponse \/ PlanResult
  \/ SendFollow \/ FollowResponse \/ FollowResult \/ WaitFails \/ CancelRequest \/ Cleaned \/ GivesUp

\* The servers, and their other clients.
OthersNext ==
  \/ /\ UNCHANGED <<planVars, clientVars>>
     /\ \/ Timer \/ ContextDown \/ \E g \in Goals : Callback(g)
        \/ \E g \in Goals \ {OwnFollow} : Arrives(g) \/ OnCancel(g)
  \/ /\ UNCHANGED <<shadowVars, clientVars>>
     /\ \/ PlanServerRestarts \/ \E p \in Plans : PlanCallback(p)
        \/ \E p \in Plans \ {OwnPlan} : PlanArrives(p) \/ PlanCancel(p)
        \/ \E p \in Previews : Preview(p)

RehearsalNext == Client \/ OthersNext

RehearsalSpec == RehearsalInit /\ [][RehearsalNext]_rehearsalVars

-----------------------------------------------------------------------------

\* README of mission: on a time-out or Ctrl-C the client cancels the goals that have been
\* accepted and waits for their end.  When it has ended, however it came to it, no goal it
\* heard the acceptance of still runs.  One whose wait for that timed out, or was cut off
\* by another Ctrl-C, has given up and promises nothing.
ClientLeavesNothing ==
  client = "ended" =>
    \A g \in accepted : IF g = OwnPlan THEN planAt[g] = "done" ELSE at[g] = "done"
=================================================================================
