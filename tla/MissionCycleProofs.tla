--------------------------- MODULE MissionCycleProofs ---------------------------
(***************************************************************************)
(* Proofs about MissionCycle for any set of missions and supervisors: the  *)
(* reservation admits one mission, stages come in order, a cancel lets at  *)
(* most one more stage through, no goal is left behind, and success and    *)
(* quiescence in the Result are real.                                      *)
(*                                                                         *)
(* Seen from one mission every step is of one of five kinds (Kind): it     *)
(* leaves the mission alone, moves it to another phase, sends a stage, is  *)
(* an answer to the stage under way, or ends the mission.  Each kind keeps *)
(* the four parts of MissionInv; CountInv has the datagrams of the stages  *)
(* that were read, stage by stage, so that their sum needs no induction.   *)
(*                                                                         *)
(* Then of MissionReplay: a run of the replay is at one stage of the chain *)
(* and has passed those before it, until it writes what it is at.          *)
(***************************************************************************)
EXTENDS MissionCycle, MissionReplay, SequenceTheorems, TLAPS

Phases == {"idle", "rejected", "server", "sending", "running", "ending", "done"}

PhaseType == phase \in [Missions -> Phases]

-----------------------------------------------------------------------------
(* The reservation. *)

OneInv == PhaseType /\ OneMission

\* A step that does not start or end an execute callback.
Steady ==
  /\ PhaseType'
  /\ \A m \in Missions : Executing(m)' <=> Executing(m)
  /\ UNCHANGED reserved

\* A goal is accepted; a mission ends.
Starts(m) == /\ phase[m] = "idle" /\ ~reserved /\ reserved' = TRUE /\ Goto(m, "server")
Ends(m)   == /\ phase[m] = "ending" /\ reserved' = FALSE /\ Goto(m, "done")

\* A change of phase that stays inside, or outside, the execute callback.
LEMMA Moves ==
  ASSUME PhaseType, NEW m \in Missions, NEW l \in Phases, Goto(m, l), UNCHANGED reserved,
         phase[m] \in {"server", "sending", "running", "ending"}
           <=> l \in {"server", "sending", "running", "ending"}
  PROVE  Steady
BY DEF PhaseType, Goto, Steady, Executing

\* Only an accepted goal and the finally clause of _execute() touch the
\* reservation.
LEMMA ReservationSteps ==
  ASSUME PhaseType, [Next]_vars
  PROVE  Steady \/ \E m \in Missions : Starts(m) \/ Ends(m)
<1> USE DEF Phases, missionVars, worldVars
<1>1. ASSUME UNCHANGED <<phase, reserved>> PROVE Steady
  BY <1>1 DEF Steady, PhaseType, Executing
<1>2. ASSUME NEW m \in Missions, NEW verdict, NEW confirmed, NEW count,
             Finish(m, verdict, confirmed, count),
             phase[m] \in {"server", "sending", "running"}
      PROVE  Steady
  <2>1. Goto(m, "ending") /\ UNCHANGED reserved
    BY <1>2 DEF Finish
  <2> QED BY <1>2, <2>1, Moves
<1>3. ASSUME NEW m \in Missions, OnGoal(m) PROVE Steady \/ Starts(m)
  <2>1. CASE Goto(m, "rejected") /\ UNCHANGED reserved
    BY <1>3, <2>1, Moves DEF OnGoal
  <2> QED BY <1>3, <2>1 DEF OnGoal, Starts
<1>4. ASSUME NEW m \in Missions, Mission(m) PROVE Steady \/ Ends(m)
  <2>1. CASE Unreserve(m)
    BY <2>1 DEF Unreserve, Ends
  <2>2. CASE SendGoal(m)
    BY <2>2, Moves DEF SendGoal
  <2>3. CASE GoalAccepted(m)
    BY <2>3, Moves DEF GoalAccepted
  <2>4. CASE ForwardCancel(m)
    BY <2>4, <1>1 DEF ForwardCancel
  <2>5. CASE ServerUnavailable(m)
    BY <2>5, <1>2 DEF ServerUnavailable
  <2>6. CASE GoalRefused(m)
    BY <2>6, <1>2 DEF GoalRefused
  <2>7. CASE TransportError(m)
    BY <2>7, <1>2 DEF TransportError
  <2>8. CASE ResultArrives(m)
    <3>1. phase[m] = "running"
      BY <2>8 DEF ResultArrives
    <3>2. \/ \E verdict, confirmed, count : Finish(m, verdict, confirmed, count)
          \/ Goto(m, "server") /\ UNCHANGED reserved
      BY <2>8, Zenon DEF ResultArrives
    <3> QED BY <3>1, <3>2, <1>2, Moves
  <2> QED BY <1>4, <2>1, <2>2, <2>3, <2>4, <2>5, <2>6, <2>7, <2>8 DEF Mission
<1>5. ASSUME NEW m \in Missions, OnCancel(m) \/ Serve(m) \/ SupervisorHeartbeat(m) PROVE Steady
  BY <1>1, <1>5 DEF OnCancel, Serve, ServerRefuses, FollowUnsupervised, ServerAccepts,
                    ServerEnds, SupervisorHeartbeat
<1>6. CASE OtherGoal \/ OtherEnds \/ PanelHeartbeat \/ HeartbeatExpires \/ ContextDown
  BY <1>1, <1>6 DEF OtherGoal, OtherEnds, PanelHeartbeat, HeartbeatExpires, ContextDown
<1>7. ASSUME NEW s \in Servers, ServerDies(s) PROVE Steady
  BY <1>1, <1>7 DEF ServerDies
<1>8. CASE UNCHANGED vars
  BY <1>1, <1>8 DEF vars
<1> QED BY <1>3, <1>4, <1>5, <1>6, <1>7, <1>8 DEF Next

\* One mission at a time holds the reservation and gives back its own.
THEOREM OneAtATime == Spec => []OneMission
<1>1. Init => OneInv
  BY DEF Init, OneInv, OneMission, PhaseType, Phases, Executing
<1>2. OneInv /\ [Next]_vars => OneInv'
  <2> SUFFICES ASSUME OneInv, [Next]_vars PROVE OneInv'
    OBVIOUS
  <2>0. PhaseType /\ OneMission
    BY DEF OneInv
  <2>1. CASE Steady
    BY <2>0, <2>1 DEF Steady, OneInv, OneMission
  <2>2. ASSUME NEW m \in Missions, Starts(m) PROVE OneInv'
    <3>1. \A n \in Missions : Executing(n)' <=> n = m
      BY <2>0, <2>2 DEF Starts, Goto, PhaseType, OneMission, Executing
    <3>2. PhaseType'
      BY <2>0, <2>2 DEF Starts, Goto, PhaseType, Phases
    <3>3. OneMission'
      BY <2>2, <3>1 DEF Starts, OneMission
    <3> QED BY <3>2, <3>3 DEF OneInv
  <2>3. ASSUME NEW m \in Missions, Ends(m) PROVE OneInv'
    <3>1. \A n \in Missions : ~Executing(n)'
      BY <2>0, <2>3 DEF Ends, Goto, PhaseType, OneMission, Executing
    <3>2. PhaseType'
      BY <2>0, <2>3 DEF Ends, Goto, PhaseType, Phases
    <3>3. OneMission'
      BY <2>3, <3>1 DEF Ends, OneMission
    <3> QED BY <3>2, <3>3 DEF OneInv
  <2> QED BY <2>0, <2>1, <2>2, <2>3, ReservationSteps
<1>3. OneInv => OneMission
  BY DEF OneInv
<1> QED BY <1>1, <1>2, <1>3, PTL DEF Spec

-----------------------------------------------------------------------------
(* The stages of one mission. *)

\* Stage k, with goal and Result c, lets the mission go on.
Succeeded(k, c) == /\ c.status = "ended" /\ c.outcome = "succeeded"
                   /\ IsPlan(k) \/ c.quiet
\* A Plan stage sends nothing.
Sound(k, c) == c.status = "ended" /\ IsPlan(k) => c.count = 0

Outcomes == {"", "succeeded", "cancelled", "failed", "transport"}

FieldType ==
  /\ children \in [Missions -> Seq(Child)] /\ late \in [Missions -> Nat]
  /\ cancel \in [Missions -> BOOLEAN] /\ quiet \in [Missions -> BOOLEAN]
  /\ outcome \in [Missions -> Outcomes] /\ datagrams \in [Missions -> Nat]

StageInv(m) ==
  /\ Stage(m) <= LastStage /\ (phase[m] = "server" => Stage(m) < LastStage)
  /\ \A k \in 1 .. Stage(m) : Sound(k, children[m][k])
  /\ \A k \in 1 .. Stage(m) - 1 : Succeeded(k, children[m][k])
  /\ phase[m] \in {"idle", "rejected"} => Stage(m) = 0
  /\ phase[m] = "server" => \A k \in 1 .. Stage(m) : Succeeded(k, children[m][k])
  /\ phase[m] \in {"sending", "running"} => Stage(m) > 0
  /\ phase[m] \in {"ending", "done"} /\ context => Status(m) \notin {"sent", "active"}

CancelInv(m) ==
  \/ late[m] = 0
  \/ late[m] = 1 /\ cancel[m] /\ phase[m] \notin {"idle", "server"}

ResultInv(m) ==
  /\ phase[m] \notin {"ending", "done"} => ~quiet[m] /\ outcome[m] # "succeeded"
  /\ quiet[m] => \A k \in 1 .. Stage(m) : /\ children[m][k].status = "ended"
                                          /\ children[m][k].count > 0 => children[m][k].quiet
  /\ outcome[m] = "succeeded" =>
       Stage(m) = LastStage /\ \A k \in 1 .. Stage(m) : Succeeded(k, children[m][k])

AllDatagrams(m) ==
  DatagramsOf(m, 1) + DatagramsOf(m, 2) + DatagramsOf(m, 3)
  + DatagramsOf(m, 4) + DatagramsOf(m, 5) + DatagramsOf(m, 6)

\* The datagrams of the stage under way are the only ones not yet in the sum, and the
\* stage of a mission that is over sends no more, unless the node went down.
CountInv(m) ==
  /\ \A k \in 1 .. Stage(m) : children[m][k].status # "ended" => children[m][k].count = 0
  /\ phase[m] \notin {"ending", "done"} => outcome[m] = ""
  /\ phase[m] \in {"idle", "rejected", "server"} => datagrams[m] = AllDatagrams(m)
  /\ phase[m] \in {"sending", "running"} => datagrams[m] + Current(m).count = AllDatagrams(m)
  /\ phase[m] \in {"ending", "done"} =>
       \/ outcome[m] = "transport"
       \/ datagrams[m] = AllDatagrams(m) /\ Status(m) \notin {"sent", "active"}

MissionInv == /\ PhaseType /\ FieldType
              /\ \A m \in Missions : StageInv(m) /\ CancelInv(m) /\ ResultInv(m) /\ CountInv(m)

\* What a step does to mission m: nothing, or the node goes down;
Still(m) ==
  /\ UNCHANGED <<phase[m], cancel[m], outcome[m], quiet[m], datagrams[m], late[m], children[m]>>
  /\ context' => context

\* it moves from one phase to the next, cancelled or not, with its stages as they are;
Turns(m) ==
  /\ UNCHANGED <<outcome[m], quiet[m], late[m], children[m], context>>
  /\ cancel[m] => cancel'[m]
  /\ \/ /\ datagrams'[m] = datagrams[m]
        /\ \/ phase'[m] = phase[m]
           \/ phase[m] = "idle" /\ phase'[m] \in {"rejected", "server"}
           \/ phase[m] = "sending" /\ phase'[m] = "running"
           \/ phase[m] = "ending" /\ phase'[m] = "done"
     \/ /\ phase[m] = "running" /\ phase'[m] = "server" /\ ~cancel[m]
        /\ Succeeded(Stage(m), Current(m)) /\ Stage(m) # LastStage
        /\ datagrams'[m] = datagrams[m] + Current(m).count

\* it sends the next stage;
Sends(m) ==
  /\ UNCHANGED <<cancel[m], outcome[m], quiet[m], datagrams[m], context>>
  /\ phase[m] = "server" /\ phase'[m] = "sending"
  /\ children'[m] = Append(children[m], NewChild)
  /\ late'[m] = IF cancel[m] THEN late[m] + 1 ELSE late[m]

\* it ends, for one of these reasons;
Stops(m) ==
  /\ UNCHANGED <<cancel[m], late[m], children[m], context>>
  /\ phase'[m] = "ending"
  /\ \/ /\ phase[m] = "server" \/ (phase[m] = "sending" /\ Status(m) = "refused")
        /\ ~quiet'[m] /\ outcome'[m] # "succeeded" /\ datagrams'[m] = datagrams[m]
     \/ /\ phase[m] \in {"sending", "running"} /\ ~context
        /\ ~quiet'[m] /\ outcome'[m] = "transport"
     \/ /\ phase[m] = "running" /\ Status(m) = "ended"
        /\ \/ datagrams'[m] = datagrams[m] + Current(m).count
           \/ IsPlan(Stage(m)) /\ datagrams'[m] = datagrams[m]
        /\ quiet'[m] => Current(m).quiet \/ Current(m).count = 0
        /\ outcome'[m] = "succeeded" => Stage(m) = LastStage /\ Succeeded(Stage(m), Current(m))

\* the goal it waits for is accepted, refused, cancelled, answered or lost.
Answered(m) ==
  /\ UNCHANGED <<phase[m], cancel[m], outcome[m], quiet[m], datagrams[m], late[m], context>>
  /\ Status(m) \in {"sent", "active"}
  /\ \E c \in Child : /\ children'[m] = [children[m] EXCEPT ![Stage(m)] = c]
                      /\ Sound(Stage(m), c)
                      /\ c.status # "ended" => c.count = Current(m).count

Kind(m) == Still(m) \/ Turns(m) \/ Sends(m) \/ Stops(m) \/ Answered(m)

\* The six stages.
LEMMA SixStages == LastStage = 6
BY DEF LastStage, Stages

\* What is known of the stage goal a mission waits for.
LEMMA CurrentStage ==
  ASSUME FieldType, NEW m \in Missions
  PROVE  /\ Stage(m) \in Nat
         /\ Stage(m) > 0 => /\ Current(m) = children[m][Stage(m)] /\ Current(m) \in Child
                            /\ Status(m) = Current(m).status
         /\ Stage(m) = 0 => Status(m) = "none"
<1>1. children[m] \in Seq(Child)
  BY DEF FieldType
<1>2. Stage(m) \in Nat /\ (Stage(m) = 0 <=> children[m] = << >>)
  BY <1>1, EmptySeq, LenProperties DEF Stage
<1>3. Stage(m) > 0 => children[m][Stage(m)] \in Child
  BY <1>1, <1>2, ElementOfSeq DEF Stage
<1> QED BY <1>2, <1>3 DEF Status, Current, Stage, Last

\* A stage goal whose status changes before it has a Result stays a stage goal.
LEMMA Answers ==
  ASSUME FieldType, NEW m \in Missions, Status(m) \in {"sent", "active"},
         NEW c \in Child, SetChild(m, c), Sound(Stage(m), c),
         c.status # "ended" => c.count = Current(m).count,
         UNCHANGED <<missionVars, context>>
  PROVE  FieldType' /\ \A n \in Missions : Kind(n)
<1>1. Answered(m)
  BY DEF SetChild, FieldType, Answered, missionVars
<1>2. ASSUME NEW n \in Missions, n # m PROVE Still(n)
  BY <1>2 DEF SetChild, FieldType, Still, missionVars
<1>3. Current(m) \in Child /\ Stage(m) \in 1 .. Len(children[m]) /\ children[m] \in Seq(Child)
  BY CurrentStage DEF Stage, FieldType
<1>4. [children[m] EXCEPT ![Stage(m)] = c] \in Seq(Child)
  BY <1>3, ExceptSeq
<1>5. FieldType'
  BY <1>4 DEF FieldType, SetChild, missionVars
<1> QED BY <1>1, <1>2, <1>5 DEF Kind

\* The servers' answers.
LEMMA ServerSteps ==
  ASSUME FieldType, NEW m \in Missions, Serve(m)
  PROVE  FieldType' /\ \A n \in Missions : Kind(n)
<1>0. Status(m) \in {"sent", "active"} /\ UNCHANGED <<missionVars, context>>
  BY DEF Serve, ServerRefuses, FollowUnsupervised, ServerAccepts, ServerEnds, worldVars
<1>1. Current(m) \in Child
  BY <1>0, CurrentStage
<1>2. PICK c : /\ SetChild(m, c) /\ c \in Child /\ Sound(Stage(m), c)
               /\ c.status # "ended" => c.count = Current(m).count
  <2>1. CASE ServerRefuses(m)
    <3> DEFINE d == [Current(m) EXCEPT !.status = "refused"]
    <3>1. d \in Child /\ Sound(Stage(m), d) /\ d.count = Current(m).count
      BY <1>1 DEF Child, Sound
    <3>2. SetChild(m, d)
      BY <2>1 DEF ServerRefuses
    <3> QED BY <3>1, <3>2
  <2>2. CASE FollowUnsupervised(m)
    <3> DEFINE d == [Current(m) EXCEPT !.status = "refused", !.unsupervised = TRUE]
    <3>1. d \in Child /\ Sound(Stage(m), d) /\ d.count = Current(m).count
      BY <1>1 DEF Child, Sound
    <3>2. SetChild(m, d)
      BY <2>2 DEF FollowUnsupervised
    <3> QED BY <3>1, <3>2
  <2>3. CASE ServerAccepts(m)
    <3> DEFINE d == [Current(m) EXCEPT !.status = "active"]
    <3>1. d \in Child /\ Sound(Stage(m), d) /\ d.count = Current(m).count
      BY <1>1 DEF Child, Sound
    <3>2. SetChild(m, d)
      BY <2>3 DEF ServerAccepts
    <3> QED BY <3>1, <3>2
  <2>4. CASE ServerEnds(m)
    <3>1. PICK verdict \in {"succeeded", "cancelled", "failed"}, confirmed \in BOOLEAN,
               n \in 0 .. 1 :
               /\ IsPlan(Stage(m)) => ~confirmed /\ n = 0
               /\ SetChild(m, [Current(m) EXCEPT !.status = "ended", !.outcome = verdict,
                                                 !.quiet = confirmed, !.count = n])
      BY <2>4 DEF ServerEnds
    <3> DEFINE d == [Current(m) EXCEPT !.status = "ended", !.outcome = verdict,
                                       !.quiet = confirmed, !.count = n]
    <3>2. d \in Child /\ Sound(Stage(m), d) /\ d.status = "ended"
      BY <1>1, <3>1 DEF Child, Sound
    <3> QED BY <3>1, <3>2
  <2> QED BY <2>1, <2>2, <2>3, <2>4 DEF Serve
<1> QED BY <1>0, <1>2, Answers

\* A dying server loses the goals it has.
LEMMA DeathSteps ==
  ASSUME FieldType, NEW s \in Servers, ServerDies(s), NEW m \in Missions
  PROVE  Kind(m) /\ children'[m] \in Seq(Child)
<1>0. UNCHANGED <<missionVars, context>> /\ children[m] \in Seq(Child)
  BY DEF ServerDies, FieldType
<1>1. CASE Status(m) \in {"sent", "active"} /\ Server(Stage(m)) = s
  <2>1. Stage(m) > 0 /\ Current(m) = children[m][Stage(m)] /\ Current(m) \in Child
    BY <1>1, CurrentStage
  <2>2. children'[m] = [children[m] EXCEPT ![Stage(m)] = [Current(m) EXCEPT !.status = "lost"]]
    BY <1>1, <2>1 DEF ServerDies
  <2>3. [Current(m) EXCEPT !.status = "lost"] \in Child
    BY <2>1 DEF Child
  <2>4. /\ Sound(Stage(m), [Current(m) EXCEPT !.status = "lost"])
        /\ [Current(m) EXCEPT !.status = "lost"].count = Current(m).count
    BY <2>1 DEF Sound, Child
  <2>5. children'[m] \in Seq(Child)
    BY <1>0, <2>1, <2>2, <2>3, ExceptSeq, CurrentStage DEF Stage
  <2> QED BY <1>0, <1>1, <2>2, <2>3, <2>4, <2>5 DEF Kind, Answered, missionVars
<1>2. CASE ~(Status(m) \in {"sent", "active"} /\ Server(Stage(m)) = s)
  BY <1>0, <1>2 DEF ServerDies, Kind, Still, missionVars
<1> QED BY <1>1, <1>2

\* What a step of the mission's own thread does to the others: nothing.
LEMMA Ending ==
  ASSUME FieldType, PhaseType, NEW m \in Missions, NEW verdict \in Outcomes,
         NEW confirmed \in BOOLEAN, NEW count \in Nat, Finish(m, verdict, confirmed, count),
         UNCHANGED <<children, context>>
  PROVE  /\ FieldType' /\ \A n \in Missions \ {m} : Still(n)
         /\ UNCHANGED <<cancel[m], late[m], children[m], context>>
         /\ phase'[m] = "ending" /\ quiet'[m] = confirmed /\ outcome'[m] = verdict
         /\ datagrams'[m] = datagrams[m] + count
BY DEF FieldType, PhaseType, Finish, Goto, Still

\* The steps of a mission's own thread.
LEMMA ThreadSteps ==
  ASSUME FieldType, PhaseType, NEW m \in Missions, Mission(m)
  PROVE  FieldType' /\ \A n \in Missions : Kind(n)
<1> USE DEF missionVars, worldVars
<1>0. /\ Stage(m) > 0 => Current(m) \in Child
      /\ Status(m) \in {"refused", "ended", "active", "sent", "lost"} => Stage(m) > 0
  BY CurrentStage
<1>d. datagrams[m] \in Nat /\ datagrams[m] + 0 = datagrams[m]
  BY DEF FieldType
<1>1. CASE Unreserve(m)
  <2>1. FieldType' /\ Turns(m) /\ \A n \in Missions \ {m} : Still(n)
    BY <1>1 DEF Unreserve, Goto, FieldType, PhaseType, Turns, Still
  <2> QED BY <2>1 DEF Kind
<1>2. CASE SendGoal(m)
  <2>1. NewChild \in Child
    BY DEF NewChild, Child
  <2>2. Append(children[m], NewChild) \in Seq(Child)
    BY <2>1, AppendProperties DEF FieldType
  <2>3. FieldType' /\ Sends(m) /\ \A n \in Missions \ {m} : Still(n)
    BY <1>2, <2>2 DEF SendGoal, Goto, FieldType, PhaseType, Sends, Still
  <2> QED BY <2>3 DEF Kind
<1>3. CASE ServerUnavailable(m)
  <2>1. /\ phase[m] = "server"
        /\ Finish(m, "failed", FALSE, 0) /\ UNCHANGED <<children, context>>
    BY <1>3, Zenon DEF ServerUnavailable
  <2>2. /\ FieldType' /\ \A n \in Missions \ {m} : Still(n)
        /\ UNCHANGED <<cancel[m], late[m], children[m], context>>
        /\ phase'[m] = "ending" /\ ~quiet'[m] /\ outcome'[m] = "failed"
        /\ datagrams'[m] = datagrams[m]
    BY <1>d, <2>1, Ending DEF Outcomes
  <2>3. Stops(m)
    BY <2>1, <2>2 DEF Stops
  <2> QED BY <2>2, <2>3 DEF Kind
<1>4. CASE GoalRefused(m)
  <2>1. /\ phase[m] = "sending" /\ Status(m) = "refused"
        /\ Finish(m, "failed", FALSE, 0) /\ UNCHANGED <<children, context>>
    BY <1>4, Zenon DEF GoalRefused
  <2>2. /\ FieldType' /\ \A n \in Missions \ {m} : Still(n)
        /\ UNCHANGED <<cancel[m], late[m], children[m], context>>
        /\ phase'[m] = "ending" /\ ~quiet'[m] /\ outcome'[m] = "failed"
        /\ datagrams'[m] = datagrams[m]
    BY <1>d, <2>1, Ending DEF Outcomes
  <2>3. Stops(m)
    BY <2>1, <2>2 DEF Stops
  <2> QED BY <2>2, <2>3 DEF Kind
<1>5. CASE GoalAccepted(m)
  <2>1. FieldType' /\ Turns(m) /\ \A n \in Missions \ {m} : Still(n)
    BY <1>5 DEF GoalAccepted, Goto, FieldType, PhaseType, Turns, Still
  <2> QED BY <2>1 DEF Kind
<1>6. CASE ForwardCancel(m)
  <2> DEFINE d == [Current(m) EXCEPT !.cancelled = TRUE]
  <2>1. Status(m) = "active" /\ Stage(m) > 0 /\ UNCHANGED <<missionVars, context>>
    BY <1>0, <1>6 DEF ForwardCancel
  <2>2. d \in Child /\ Sound(Stage(m), d) /\ d.count = Current(m).count
    BY <2>1, <1>0, CurrentStage DEF Child, Sound
  <2>3. SetChild(m, d)
    BY <1>6, <2>1, CurrentStage DEF ForwardCancel, SetChild, FieldType
  <2> HIDE DEF d
  <2> QED BY <2>1, <2>2, <2>3, Answers
<1>7. CASE TransportError(m)
  <2>1. /\ phase[m] \in {"sending", "running"} /\ ~context
        /\ Finish(m, "transport", FALSE, 0) /\ UNCHANGED <<children, context>>
    BY <1>7, Zenon DEF TransportError
  <2>2. /\ FieldType' /\ \A n \in Missions \ {m} : Still(n)
        /\ UNCHANGED <<cancel[m], late[m], children[m], context>>
        /\ phase'[m] = "ending" /\ ~quiet'[m] /\ outcome'[m] = "transport"
        /\ datagrams'[m] = datagrams[m]
    BY <1>d, <2>1, Ending DEF Outcomes
  <2>3. Stops(m)
    BY <2>1, <2>2 DEF Stops
  <2> QED BY <2>2, <2>3 DEF Kind
<1>8. CASE ResultArrives(m)
  <2>0. /\ phase[m] = "running" /\ Status(m) = "ended" /\ UNCHANGED <<children, worldVars>>
        /\ Stage(m) > 0 /\ Current(m) \in Child /\ Current(m).status = "ended"
    <3>1. phase[m] = "running" /\ Status(m) = "ended" /\ UNCHANGED <<children, worldVars>>
      BY <1>8, Zenon DEF ResultArrives
    <3> QED BY <1>0, <3>1, CurrentStage
  <2>c. Current(m).quiet \in BOOLEAN /\ Current(m).count \in Nat
    <3>1. Current(m) \in Child
      BY <2>0
    <3>2. Current(m).quiet \in BOOLEAN /\ Current(m).count \in 0 .. 1
      BY <3>1 DEF Child
    <3> QED BY <3>2
  <2>f. ASSUME NEW verdict \in Outcomes, NEW confirmed \in BOOLEAN, NEW count \in Nat,
               Finish(m, verdict, confirmed, count),
               count = Current(m).count \/ (IsPlan(Stage(m)) /\ count = 0),
               confirmed => Current(m).quiet \/ Current(m).count = 0,
               verdict = "succeeded" => Stage(m) = LastStage /\ Succeeded(Stage(m), Current(m))
        PROVE  FieldType' /\ \A n \in Missions : Kind(n)
    <3>1. /\ FieldType' /\ \A n \in Missions \ {m} : Still(n)
          /\ UNCHANGED <<cancel[m], late[m], children[m], context>>
          /\ phase'[m] = "ending" /\ quiet'[m] = confirmed /\ outcome'[m] = verdict
          /\ datagrams'[m] = datagrams[m] + count
      BY <2>0, <2>f, Ending
    <3>2. \/ datagrams'[m] = datagrams[m] + Current(m).count
          \/ IsPlan(Stage(m)) /\ datagrams'[m] = datagrams[m]
      BY <1>d, <2>f, <3>1
    <3>3. Stops(m)
      BY <2>0, <2>f, <3>1, <3>2, Zenon DEF Stops
    <3> QED BY <3>1, <3>3 DEF Kind
  <2>1. CASE cancel[m]
    <3>1. Finish(m, "cancelled", Current(m).quiet, Current(m).count)
      BY <1>8, <2>1, Zenon DEF ResultArrives
    <3> QED BY <2>c, <2>f, <3>1 DEF Outcomes
  <2>2. CASE ~cancel[m] /\ ~StageSucceeded(Stage(m), Current(m))
    <3> DEFINE confirmed == StageQuiet(Stage(m), Current(m))
               count == IF IsPlan(Stage(m)) THEN 0 ELSE Current(m).count
    <3>1. Finish(m, "failed", confirmed, count)
      BY <1>8, <2>2, Zenon DEF ResultArrives
    <3>2. confirmed \in BOOLEAN /\ (confirmed => Current(m).quiet \/ Current(m).count = 0)
      BY <2>c DEF StageQuiet
    <3>3. count \in Nat /\ (count = Current(m).count \/ (IsPlan(Stage(m)) /\ count = 0))
      BY <2>c
    <3> HIDE DEF confirmed, count
    <3> QED BY <2>f, <3>1, <3>2, <3>3 DEF Outcomes
  <2>3. CASE ~cancel[m] /\ StageSucceeded(Stage(m), Current(m)) /\ Stage(m) = LastStage
    <3>1. Finish(m, "succeeded", TRUE, Current(m).count)
      BY <1>8, <2>3, Zenon DEF ResultArrives
    <3>2. /\ Succeeded(Stage(m), Current(m))
          /\ Current(m).quiet \/ Current(m).count = 0
      BY <2>0, <2>3 DEF StageSucceeded, Succeeded
    <3> QED BY <2>c, <2>f, <2>3, <3>1, <3>2 DEF Outcomes
  <2>4. CASE ~cancel[m] /\ StageSucceeded(Stage(m), Current(m)) /\ Stage(m) # LastStage
    <3>1. /\ Goto(m, "server") /\ UNCHANGED <<cancel, outcome, quiet, late, reserved>>
          /\ datagrams' = [datagrams EXCEPT ![m] = @ + Current(m).count]
      BY <1>8, <2>4, Zenon DEF ResultArrives
    <3>2. Succeeded(Stage(m), Current(m))
      BY <2>0, <2>4 DEF StageSucceeded, Succeeded
    <3>3. datagrams' \in [Missions -> Nat] /\ datagrams'[m] = datagrams[m] + Current(m).count
      BY <2>c, <3>1 DEF FieldType
    <3>4. \A n \in Missions \ {m} : datagrams'[n] = datagrams[n]
      BY <3>1 DEF FieldType
    <3>5. FieldType'
      BY <2>0, <3>1, <3>3 DEF FieldType
    <3>6. phase'[m] = "server" /\ \A n \in Missions \ {m} : phase'[n] = phase[n]
      BY <3>1 DEF Goto, PhaseType
    <3>7. Turns(m)
      BY <2>0, <2>4, <3>1, <3>2, <3>3, <3>6 DEF Turns
    <3>8. \A n \in Missions \ {m} : Still(n)
      BY <2>0, <3>1, <3>4, <3>6 DEF Still
    <3> QED BY <3>5, <3>7, <3>8 DEF Kind
  <2> QED BY <2>1, <2>2, <2>3, <2>4
<1> QED BY <1>1, <1>2, <1>3, <1>4, <1>5, <1>6, <1>7, <1>8 DEF Mission

\* Every step, seen from every mission.
LEMMA StepKinds ==
  ASSUME FieldType, PhaseType, [Next]_vars
  PROVE  FieldType' /\ \A n \in Missions : Kind(n)
<1> USE DEF missionVars, worldVars
<1>1. ASSUME UNCHANGED <<missionVars, children>>, context' => context
      PROVE  FieldType' /\ \A n \in Missions : Kind(n)
  BY <1>1 DEF FieldType, Kind, Still
<1>2. ASSUME NEW m \in Missions, OnGoal(m) \/ OnCancel(m)
      PROVE  FieldType' /\ \A n \in Missions : Kind(n)
  <2>1. CASE OnGoal(m)
    <3>1. FieldType' /\ Turns(m) /\ \A n \in Missions \ {m} : Still(n)
      BY <2>1 DEF OnGoal, Goto, FieldType, PhaseType, Turns, Still
    <3> QED BY <3>1 DEF Kind
  <2>2. CASE OnCancel(m)
    <3>1. FieldType'
      BY <2>2 DEF OnCancel, FieldType
    <3>2. UNCHANGED <<phase, outcome, quiet, datagrams, late, children, context>>
          /\ cancel' = [cancel EXCEPT ![m] = TRUE] /\ cancel \in [Missions -> BOOLEAN]
      BY <2>2 DEF OnCancel, FieldType
    <3>3. Turns(m)
      BY <3>2, Zenon DEF Turns
    <3>4. \A n \in Missions \ {m} : Still(n)
      BY <3>2 DEF Still
    <3> QED BY <3>1, <3>3, <3>4 DEF Kind
  <2> QED BY <1>2, <2>1, <2>2
<1>3. ASSUME NEW m \in Missions, SupervisorHeartbeat(m)
      PROVE  FieldType' /\ \A n \in Missions : Kind(n)
  BY <1>1, <1>3 DEF SupervisorHeartbeat
<1>4. CASE OtherGoal \/ OtherEnds \/ PanelHeartbeat \/ HeartbeatExpires \/ ContextDown
  BY <1>1, <1>4 DEF OtherGoal, OtherEnds, PanelHeartbeat, HeartbeatExpires, ContextDown
<1>5. ASSUME NEW s \in Servers, ServerDies(s)
      PROVE  FieldType' /\ \A n \in Missions : Kind(n)
  <2>1. \A m \in Missions : Kind(m) /\ children'[m] \in Seq(Child)
    BY <1>5, DeathSteps
  <2>2. FieldType'
    BY <1>5, <2>1 DEF ServerDies, FieldType
  <2> QED BY <2>1, <2>2
<1>6. CASE UNCHANGED vars
  BY <1>1, <1>6 DEF vars
<1> QED BY <1>2, <1>3, <1>4, <1>5, <1>6, ThreadSteps, ServerSteps DEF Next

\* Every kind of step keeps the order of the stages: see StageInv.
LEMMA StageStep ==
  ASSUME FieldType, NEW m \in Missions, StageInv(m), Kind(m)
  PROVE  StageInv(m)'
<1>0. /\ Stage(m) \in Nat /\ children[m] \in Seq(Child)
      /\ Stage(m) > 0 => Current(m) = children[m][Stage(m)] /\ Status(m) = Current(m).status
      /\ Stage(m) = 0 => Status(m) = "none"
  BY CurrentStage DEF FieldType
<1>1. ASSUME UNCHANGED children[m] PROVE UNCHANGED <<Stage(m), Current(m), Status(m)>>
  BY <1>1 DEF Stage, Current, Status
<1>2. CASE Still(m)
  BY <1>1, <1>2 DEF Still, StageInv
<1>3. CASE Turns(m)
  <2>1. ASSUME phase[m] = "running", phase'[m] = "server", Succeeded(Stage(m), Current(m))
        PROVE  \A k \in 1 .. Stage(m) : Succeeded(k, children[m][k])
    BY <1>0, <2>1 DEF StageInv
  <2>2. phase'[m] = "server" => Stage(m) < LastStage
    BY <1>0, <1>3, SixStages DEF Turns, StageInv
  <2> QED BY <1>1, <1>3, <2>1, <2>2 DEF Turns, StageInv
<1>4. CASE Stops(m)
  <2>1. context => Status(m) \notin {"sent", "active"}
    BY <1>0, <1>4 DEF Stops, StageInv, Succeeded
  <2> QED BY <1>1, <1>4, <2>1 DEF Stops, StageInv
<1>5. CASE Sends(m)
  <2>1. /\ Stage(m)' = Stage(m) + 1
        /\ \A k \in 1 .. Stage(m) : children'[m][k] = children[m][k]
        /\ children'[m][Stage(m) + 1] = NewChild
    BY <1>0, <1>5, AppendProperties DEF Sends, Stage
  <2>2. Sound(Stage(m) + 1, NewChild)
    BY DEF Sound, NewChild
  <2>3. \A k \in 1 .. Stage(m)' : k \in 1 .. Stage(m) \/ k = Stage(m) + 1
    BY <1>0, <2>1
  <2>4. \A k \in 1 .. Stage(m)' : Sound(k, children'[m][k])
    BY <2>1, <2>2, <2>3 DEF StageInv
  <2>5. \A k \in 1 .. Stage(m) : Succeeded(k, children'[m][k])
    BY <1>5, <2>1 DEF StageInv, Sends
  <2>6. phase'[m] = "sending"
    BY <1>5 DEF Sends
  <2>7. Stage(m)' > 0 /\ Stage(m)' - 1 = Stage(m)
    BY <1>0, <2>1
  <2>8. Stage(m)' <= LastStage
    BY <1>0, <1>5, <2>1, SixStages DEF StageInv, Sends
  <2> QED BY <2>4, <2>5, <2>6, <2>7, <2>8 DEF StageInv
<1>6. CASE Answered(m)
  <2>1. PICK c \in Child : /\ children'[m] = [children[m] EXCEPT ![Stage(m)] = c]
                           /\ Sound(Stage(m), c)
    BY <1>6 DEF Answered
  <2>2. Stage(m) \in 1 .. Len(children[m]) /\ Stage(m) = Len(children[m])
    BY <1>0, <1>6 DEF Answered, Stage
  <2>3. /\ Stage(m)' = Stage(m)
        /\ \A k \in 1 .. Stage(m) - 1 : children'[m][k] = children[m][k]
        /\ children'[m][Stage(m)] = c
    BY <1>0, <2>1, <2>2, ExceptSeq DEF Stage
  <2>4. phase[m] # "server"
    BY <1>0, <1>6, <2>2 DEF StageInv, Answered, Succeeded
  <2>5. ~(phase[m] \in {"ending", "done"} /\ context)
    BY <1>6 DEF StageInv, Answered
  <2>6. \A k \in 1 .. Stage(m) : k \in 1 .. Stage(m) - 1 \/ k = Stage(m)
    BY <1>0
  <2>7. \A k \in 1 .. Stage(m) : Sound(k, children'[m][k])
    BY <2>1, <2>3, <2>6 DEF StageInv
  <2>8. UNCHANGED <<phase[m], context>>
    BY <1>6 DEF Answered
  <2> QED BY <1>0, <2>2, <2>3, <2>4, <2>5, <2>7, <2>8 DEF StageInv
<1> QED BY <1>2, <1>3, <1>4, <1>5, <1>6 DEF Kind

\* A cancel is looked at before the next stage but one: see CancelInv.
LEMMA CancelStep ==
  ASSUME FieldType, NEW m \in Missions, CancelInv(m), Kind(m)
  PROVE  CancelInv(m)'
BY DEF FieldType, CancelInv, Kind, Still, Turns, Stops, Sends, Answered

\* The Result is settled by the last stage: see ResultInv.
LEMMA ResultStep ==
  ASSUME FieldType, NEW m \in Missions, StageInv(m), ResultInv(m), Kind(m)
  PROVE  ResultInv(m)'
<1>0. /\ Stage(m) \in Nat
      /\ Stage(m) > 0 => Current(m) = children[m][Stage(m)] /\ Status(m) = Current(m).status
      /\ Stage(m) = 0 => Status(m) = "none"
  BY CurrentStage
<1>1. ASSUME UNCHANGED children[m] PROVE UNCHANGED <<Stage(m), Current(m), Status(m)>>
  BY <1>1 DEF Stage, Current, Status
<1>2. CASE Still(m)
  BY <1>1, <1>2 DEF Still, ResultInv
<1>3. CASE Turns(m)
  BY <1>1, <1>3 DEF Turns, ResultInv
<1>4. ASSUME ~quiet[m], outcome[m] # "succeeded", UNCHANGED <<quiet[m], outcome[m]>>
      PROVE  ResultInv(m)'
  <2>1. quiet'[m] = FALSE /\ outcome'[m] # "succeeded"
    BY <1>4, Zenon DEF FieldType
  <2> QED BY <2>1 DEF ResultInv
<1>5. CASE Sends(m)
  <2>1. phase[m] = "server" /\ UNCHANGED <<quiet[m], outcome[m]>>
    BY <1>5 DEF Sends
  <2> QED BY <1>4, <2>1 DEF ResultInv
<1>7. CASE Answered(m)
  <2>1. Stage(m) > 0 /\ Status(m) # "ended" /\ UNCHANGED <<quiet[m], outcome[m]>>
    BY <1>0, <1>7 DEF Answered
  <2>2. ~quiet[m] /\ outcome[m] # "succeeded"
    BY <1>0, <2>1 DEF ResultInv, Succeeded
  <2> QED BY <1>4, <2>1, <2>2
<1>6. CASE Stops(m)
  <2>1. UNCHANGED <<Stage(m), children[m]>> /\ phase'[m] = "ending"
    BY <1>1, <1>6 DEF Stops
  <2>2. CASE ~quiet'[m] /\ outcome'[m] # "succeeded"
    BY <2>1, <2>2 DEF ResultInv
  <2>3. CASE /\ Status(m) = "ended"
             /\ quiet'[m] => Current(m).quiet \/ Current(m).count = 0
             /\ outcome'[m] = "succeeded" => Stage(m) = LastStage /\ Succeeded(Stage(m), Current(m))
    <3>1. \A k \in 1 .. Stage(m) : k \in 1 .. Stage(m) - 1 \/ k = Stage(m)
      BY <1>0
    <3>2. \A k \in 1 .. Stage(m) - 1 : /\ Succeeded(k, children[m][k])
                                       /\ children[m][k].status = "ended"
                                       /\ children[m][k].count > 0 => children[m][k].quiet
      BY <1>0 DEF StageInv, Succeeded, Sound
    <3>3. Stage(m) > 0 /\ children[m][Stage(m)].status = "ended"
      BY <1>0, <2>3
    <3>4. quiet'[m] /\ children[m][Stage(m)].count > 0 => children[m][Stage(m)].quiet
      BY <1>0, <2>3, <3>3
    <3>5. quiet'[m] => \A k \in 1 .. Stage(m) : /\ children[m][k].status = "ended"
                                                /\ children[m][k].count > 0 => children[m][k].quiet
      BY <3>1, <3>2, <3>3, <3>4
    <3>6. outcome'[m] = "succeeded" =>
            Stage(m) = LastStage /\ \A k \in 1 .. Stage(m) : Succeeded(k, children[m][k])
      BY <1>0, <2>3, <3>1, <3>2, <3>3
    <3>7. quiet'[m] => \A k \in 1 .. Stage(m)' :
            /\ children'[m][k].status = "ended"
            /\ children'[m][k].count > 0 => children'[m][k].quiet
      <4>1. Stage(m)' = Stage(m) /\ children'[m] = children[m]
        BY <2>1
      <4>2. SUFFICES ASSUME quiet'[m], NEW k \in 1 .. Stage(m)
                     PROVE  /\ children[m][k].status = "ended"
                            /\ children[m][k].count > 0 => children[m][k].quiet
        BY <4>1, Zenon
      <4>3. \A j \in 1 .. Stage(m) : /\ children[m][j].status = "ended"
                                     /\ children[m][j].count > 0 => children[m][j].quiet
        BY <4>2, <3>5, Zenon
      <4> QED BY <4>2, <4>3, Zenon
    <3>8. outcome'[m] = "succeeded" =>
            Stage(m)' = LastStage /\ \A k \in 1 .. Stage(m)' : Succeeded(k, children'[m][k])
      BY <2>1, <3>6
    <3>9. phase'[m] \in {"ending", "done"}
      BY <2>1
    <3> QED BY <3>7, <3>8, <3>9, Zenon DEF ResultInv
  <2> QED BY <1>6, <2>2, <2>3 DEF Stops
<1> QED BY <1>2, <1>3, <1>5, <1>6, <1>7 DEF Kind

\* A stage whose goal is only now sent adds nothing, and one answer changes one stage.
LEMMA SumSteps ==
  ASSUME FieldType, FieldType', NEW m \in Missions, Stage(m)' <= LastStage
  PROVE  /\ AllDatagrams(m) \in Nat
         /\ Sends(m) => AllDatagrams(m)' = AllDatagrams(m)
         /\ \A c \in Child : Stage(m) > 0 /\ children'[m] = [children[m] EXCEPT ![Stage(m)] = c] =>
              /\ Stage(m)' = Stage(m) /\ Current(m)' = c
              /\ AllDatagrams(m)' = AllDatagrams(m) - Current(m).count + c.count
<1>0. /\ children[m] \in Seq(Child) /\ children'[m] \in Seq(Child)
      /\ Stage(m) \in Nat /\ Stage(m) = Len(children[m]) /\ Stage(m)' = Len(children'[m])
      /\ Stage(m) > 0 => Current(m) = children[m][Stage(m)] /\ Current(m) \in Child
  BY CurrentStage DEF FieldType, Stage
<1>1. \A k \in 1 .. Stage(m) : children[m][k] \in Child /\ children[m][k].count \in 0 .. 1
  <2>1. \A k \in 1 .. Stage(m) : children[m][k] \in Child
    BY <1>0, ElementOfSeq
  <2> QED BY <2>1 DEF Child
<1>2. \A k \in 1 .. 6 : DatagramsOf(m, k) \in Nat
  BY <1>0, <1>1 DEF DatagramsOf
<1>3. AllDatagrams(m) \in Nat
  BY <1>2 DEF AllDatagrams
<1>4. ASSUME Sends(m) PROVE AllDatagrams(m)' = AllDatagrams(m)
  <2>1. /\ Stage(m)' = Stage(m) + 1
        /\ \A k \in 1 .. Stage(m) : children'[m][k] = children[m][k]
        /\ children'[m][Stage(m) + 1] = NewChild /\ NewChild.count = 0
    <3>1. NewChild \in Child /\ NewChild.count = 0
      BY DEF NewChild, Child
    <3> QED BY <1>0, <1>4, <3>1, AppendProperties DEF Sends
  <2>2. \A k \in 1 .. 6 : DatagramsOf(m, k)' = DatagramsOf(m, k)
    <3>1. SUFFICES ASSUME NEW k \in 1 .. 6 PROVE DatagramsOf(m, k)' = DatagramsOf(m, k)
      OBVIOUS
    <3>2. CASE k <= Stage(m)
      BY <1>0, <2>1, <3>2 DEF DatagramsOf
    <3>3. CASE k = Stage(m) + 1
      BY <1>0, <2>1, <3>3 DEF DatagramsOf
    <3>4. CASE k > Stage(m) + 1
      BY <1>0, <2>1, <3>4 DEF DatagramsOf
    <3> QED BY <1>0, <3>2, <3>3, <3>4
  <2> QED BY <2>2 DEF AllDatagrams
<1>5. ASSUME NEW c \in Child, Stage(m) > 0,
             children'[m] = [children[m] EXCEPT ![Stage(m)] = c]
      PROVE  /\ Stage(m)' = Stage(m) /\ Current(m)' = c
             /\ AllDatagrams(m)' = AllDatagrams(m) - Current(m).count + c.count
  <2>1. /\ Stage(m)' = Stage(m) /\ children'[m][Stage(m)] = c
        /\ \A k \in 1 .. Stage(m) : k # Stage(m) => children'[m][k] = children[m][k]
    BY <1>0, <1>5, ExceptSeq
  <2>2. Current(m)' = c
    BY <1>0, <2>1 DEF Current, Last
  <2>n. PICK n \in 1 .. 6 : n = Stage(m)
    <3>1. Stage(m) \in Nat /\ Stage(m) > 0 /\ Stage(m) <= 6
      BY <1>0, <1>5, <2>1, SixStages
    <3> QED BY <3>1
  <2>3. \A k \in 1 .. 6 : k # n => DatagramsOf(m, k)' = DatagramsOf(m, k)
    BY <1>0, <2>1, <2>n DEF DatagramsOf
  <2>4. DatagramsOf(m, n) = Current(m).count /\ DatagramsOf(m, n)' = c.count
    BY <1>0, <1>5, <2>1, <2>n DEF DatagramsOf
  <2>5. c.count \in Nat
    <3>1. c.count \in 0 .. 1
      BY DEF Child
    <3> QED BY <3>1
  <2>6. \A k \in 1 .. 6 : DatagramsOf(m, k)' \in Nat
    BY <1>2, <2>3, <2>4, <2>5
  <2> DEFINE a(k) == DatagramsOf(m, k)
             b(k) == DatagramsOf(m, k)'
  <2>7. /\ \A k \in 1 .. 6 : a(k) \in Nat /\ b(k) \in Nat /\ (k # n => b(k) = a(k))
        /\ AllDatagrams(m) = a(1) + a(2) + a(3) + a(4) + a(5) + a(6)
        /\ AllDatagrams(m)' = b(1) + b(2) + b(3) + b(4) + b(5) + b(6)
    BY <1>2, <2>3, <2>6 DEF AllDatagrams
  <2> HIDE DEF a, b
  <2>8. AllDatagrams(m)' = AllDatagrams(m) - a(n) + b(n)
    BY <2>7
  <2>9. AllDatagrams(m)' = AllDatagrams(m) - Current(m).count + c.count
    BY <2>4, <2>8 DEF a, b
  <2> QED BY <2>1, <2>2, <2>9
<1> QED BY <1>3, <1>4, <1>5

\* Every kind of step keeps the sum of the datagrams: see CountInv.
LEMMA CountStep ==
  ASSUME FieldType, FieldType', NEW m \in Missions, StageInv(m), StageInv(m)', CountInv(m), Kind(m)
  PROVE  CountInv(m)'
<1>0. /\ Stage(m) \in Nat /\ children[m] \in Seq(Child) /\ datagrams[m] \in Nat
      /\ Stage(m) > 0 => /\ Current(m) = children[m][Stage(m)] /\ Status(m) = Current(m).status
                         /\ Current(m) \in Child
      /\ Stage(m) = 0 => Status(m) = "none"
  BY CurrentStage DEF FieldType
<1>s. Stage(m)' <= LastStage
  BY DEF StageInv
<1>a. AllDatagrams(m) \in Nat /\ (Sends(m) => AllDatagrams(m)' = AllDatagrams(m))
  BY <1>s, SumSteps
<1>1. ASSUME UNCHANGED children[m]
      PROVE  UNCHANGED <<Stage(m), Current(m), Status(m), AllDatagrams(m)>>
  BY <1>1 DEF Stage, Current, Status, AllDatagrams, DatagramsOf
<1>f. /\ \A k \in 1 .. Stage(m) : children[m][k].status # "ended" => children[m][k].count = 0
      /\ phase[m] = "server" => datagrams[m] = AllDatagrams(m)
      /\ phase[m] \in {"sending", "running"} => datagrams[m] + Current(m).count = AllDatagrams(m)
  BY DEF CountInv
<1>k. Stage(m) > 0 /\ Current(m).status # "ended" => Current(m).count = 0
  <2>1. Stage(m) > 0 => Stage(m) \in 1 .. Stage(m)
    BY <1>0
  <2> QED BY <1>0, <1>f, <2>1
<1>e. phase[m] = "server" => Stage(m) = 0 \/ Status(m) = "ended"
  <2>1. Stage(m) > 0 => Stage(m) \in 1 .. Stage(m)
    BY <1>0
  <2>2. phase[m] = "server" => \A k \in 1 .. Stage(m) : children[m][k].status = "ended"
    BY DEF StageInv, Succeeded
  <2> QED BY <1>0, <2>1, <2>2
<1>c. Stage(m) > 0 => Current(m).count \in Nat
  <2>1. Stage(m) > 0 => Current(m).count \in 0 .. 1
    BY <1>0 DEF Child
  <2> QED BY <2>1
<1>2. CASE Still(m)
  BY <1>1, <1>2 DEF Still, CountInv
<1>3. CASE Turns(m)
  <2>1. UNCHANGED <<outcome[m], children[m], Stage(m), Current(m), Status(m), AllDatagrams(m)>>
    BY <1>1, <1>3 DEF Turns
  <2>2. CASE phase[m] = "running" /\ phase'[m] = "server" /\ datagrams'[m] = datagrams[m] + Current(m).count
    BY <2>1, <2>2 DEF CountInv
  <2>3. CASE /\ datagrams'[m] = datagrams[m]
             /\ \/ phase'[m] = phase[m]
                \/ phase[m] = "idle" /\ phase'[m] \in {"rejected", "server"}
                \/ phase[m] = "sending" /\ phase'[m] = "running"
                \/ phase[m] = "ending" /\ phase'[m] = "done"
    BY <2>1, <2>3 DEF CountInv
  <2> QED BY <1>3, <2>2, <2>3, Zenon DEF Turns
<1>4. CASE Sends(m)
  <2>1. /\ Stage(m)' = Stage(m) + 1
        /\ \A k \in 1 .. Stage(m) : children'[m][k] = children[m][k]
        /\ children'[m][Stage(m) + 1] = NewChild /\ Current(m)' = NewChild
    BY <1>0, <1>4, AppendProperties DEF Sends, Stage, Current, Last
  <2>2. NewChild.count = 0
    BY DEF NewChild
  <2>3. \A k \in 1 .. Stage(m)' : k \in 1 .. Stage(m) \/ k = Stage(m) + 1
    BY <1>0, <2>1
  <2>4. \A k \in 1 .. Stage(m)' : children'[m][k].status # "ended" => children'[m][k].count = 0
    BY <2>1, <2>2, <2>3 DEF CountInv
  <2>5. /\ phase[m] = "server" /\ phase'[m] = "sending" /\ outcome'[m] = outcome[m]
        /\ datagrams'[m] = datagrams[m]
    BY <1>4 DEF Sends
  <2>6. datagrams'[m] + Current(m)'.count = AllDatagrams(m)'
    <3>1. datagrams[m] = AllDatagrams(m) /\ AllDatagrams(m)' = AllDatagrams(m)
      BY <1>4, <1>a, <1>f, <2>5
    <3> QED BY <1>0, <2>1, <2>2, <2>5, <3>1
  <2> QED BY <2>4, <2>5, <2>6 DEF CountInv
<1>5. CASE Answered(m)
  <2>1. PICK c \in Child : /\ children'[m] = [children[m] EXCEPT ![Stage(m)] = c]
                           /\ c.status # "ended" => c.count = Current(m).count
    BY <1>5 DEF Answered
  <2>2. /\ Stage(m) > 0 /\ Status(m) \in {"sent", "active"} /\ Current(m).count = 0
        /\ UNCHANGED <<phase[m], outcome[m], datagrams[m], context>>
    BY <1>0, <1>5, <1>k DEF Answered
  <2>3. Stage(m)' = Stage(m) /\ Current(m)' = c
        /\ AllDatagrams(m)' = AllDatagrams(m) - Current(m).count + c.count
    BY <1>s, <2>1, <2>2, SumSteps
  <2>4. c.count \in Nat
    <3>1. c.count \in 0 .. 1
      BY DEF Child
    <3> QED BY <3>1
  <2>5. AllDatagrams(m)' = AllDatagrams(m) + c.count
    BY <1>a, <2>2, <2>3, <2>4
  <2>6. \A k \in 1 .. Stage(m) : children'[m][k].status # "ended" => children'[m][k].count = 0
    <3>1. /\ children'[m][Stage(m)] = c
          /\ \A k \in 1 .. Stage(m) : k # Stage(m) => children'[m][k] = children[m][k]
      BY <1>0, <2>1, <2>2, ExceptSeq DEF Stage
    <3> QED BY <2>1, <2>2, <3>1 DEF CountInv
  <2>7. phase[m] \notin {"idle", "rejected", "server"}
    <3>1. phase[m] \notin {"idle", "rejected"}
      BY <2>2 DEF StageInv
    <3> QED BY <1>e, <2>2, <3>1
  <2>8. phase[m] \in {"sending", "running"} => datagrams[m] = AllDatagrams(m)
    BY <1>0, <1>f, <2>2
  <2>9. phase[m] \in {"ending", "done"} => outcome[m] = "transport"
    BY <2>2 DEF CountInv
  <2> QED BY <2>2, <2>3, <2>5, <2>6, <2>7, <2>8, <2>9 DEF CountInv
<1>6. CASE Stops(m)
  <2>1. UNCHANGED <<children[m], Stage(m), Current(m), Status(m), AllDatagrams(m)>> /\ phase'[m] = "ending"
    BY <1>1, <1>6 DEF Stops
  <2>2. CASE outcome'[m] = "transport"
    BY <2>1, <2>2 DEF CountInv
  <2>3. CASE /\ phase[m] = "server" \/ (phase[m] = "sending" /\ Status(m) = "refused")
             /\ datagrams'[m] = datagrams[m]
    <3>1. datagrams[m] = AllDatagrams(m) /\ Status(m) \notin {"sent", "active"}
      <4>1. CASE phase[m] = "server"
        BY <1>0, <1>e, <1>f, <4>1
      <4>2. CASE phase[m] = "sending" /\ Status(m) = "refused"
        <5>1. Stage(m) > 0 /\ Current(m).status = "refused"
          BY <1>0, <4>2
        <5>2. Current(m).count = 0
          BY <1>k, <5>1
        <5> QED BY <1>0, <1>f, <4>2, <5>2
      <4> QED BY <2>3, <4>1, <4>2
    <3> QED BY <2>1, <2>3, <3>1 DEF CountInv
  <2>4. CASE /\ phase[m] = "running" /\ Status(m) = "ended"
             /\ \/ datagrams'[m] = datagrams[m] + Current(m).count
                \/ IsPlan(Stage(m)) /\ datagrams'[m] = datagrams[m]
    <3>1. Stage(m) > 0 /\ (IsPlan(Stage(m)) => Current(m).count = 0)
      BY <1>0, <2>4 DEF StageInv, Sound
    <3>2. datagrams'[m] = datagrams[m] + Current(m).count
      BY <1>0, <2>4, <3>1
    <3>3. datagrams'[m] = AllDatagrams(m)
      BY <2>4, <3>2 DEF CountInv
    <3> QED BY <2>1, <2>4, <3>3 DEF CountInv
  <2> QED BY <1>6, <2>2, <2>3, <2>4, Zenon DEF Stops
<1> QED BY <1>2, <1>3, <1>4, <1>5, <1>6 DEF Kind

\* The phases stay what they are.
LEMMA PhaseStep ==
  ASSUME PhaseType, [Next]_vars
  PROVE  PhaseType'
<1>1. ASSUME NEW m \in Missions, Starts(m) \/ Ends(m) PROVE PhaseType'
  BY <1>1 DEF Starts, Ends, Goto, PhaseType, Phases
<1> QED BY <1>1, ReservationSteps DEF Steady

\* The stages of a mission, its cancel and its Result belong together.
THEOREM MissionInvariant == Spec => []MissionInv
<1>1. Init => MissionInv
  <2> SUFFICES ASSUME Init PROVE MissionInv
    OBVIOUS
  <2>1. PhaseType /\ FieldType
    BY EmptySeq DEF Init, PhaseType, Phases, FieldType, Outcomes
  <2>2. ASSUME NEW m \in Missions PROVE StageInv(m) /\ CancelInv(m) /\ ResultInv(m) /\ CountInv(m)
    <3>1. Stage(m) = 0
      BY EmptySeq DEF Init, Stage
    <3>2. /\ phase[m] = "idle" /\ late[m] = 0 /\ outcome[m] = ""
          /\ children[m] = << >>
      BY DEF Init
    <3>7. ~quiet[m]
      BY Zenon DEF Init
    <3>8. 1 .. Stage(m) = {} /\ 1 .. Stage(m) - 1 = {}
      BY <3>1
    <3>9. Stage(m) <= LastStage
      BY <3>1, SixStages
    <3>3. StageInv(m)
      BY <3>1, <3>2, <3>8, <3>9, Zenon DEF StageInv
    <3>6. CancelInv(m)
      BY <3>2, Zenon DEF CancelInv
    <3>4. ~quiet[m] /\ outcome[m] # "succeeded"
      BY <3>2, <3>7
    <3>5. ResultInv(m)
      BY <3>4, Zenon DEF ResultInv
    <3>10. CountInv(m)
      <4>1. datagrams[m] = 0
        BY DEF Init
      <4>2. AllDatagrams(m) = 0
        BY <3>1 DEF AllDatagrams, DatagramsOf
      <4> QED BY <3>2, <3>8, <4>1, <4>2, Zenon DEF CountInv
    <3> QED BY <3>3, <3>5, <3>6, <3>10
  <2> QED BY <2>1, <2>2 DEF MissionInv
<1>2. MissionInv /\ [Next]_vars => MissionInv'
  <2> SUFFICES ASSUME MissionInv, [Next]_vars PROVE MissionInv'
    OBVIOUS
  <2>1. PhaseType' /\ FieldType' /\ \A m \in Missions : Kind(m)
    BY PhaseStep, StepKinds DEF MissionInv
  <2>2. ASSUME NEW m \in Missions PROVE (StageInv(m) /\ CancelInv(m) /\ ResultInv(m) /\ CountInv(m))'
    <3>1. FieldType /\ StageInv(m) /\ CancelInv(m) /\ ResultInv(m) /\ CountInv(m)
      BY DEF MissionInv
    <3>2. StageInv(m)' /\ CancelInv(m)' /\ ResultInv(m)'
      BY <2>1, <3>1, StageStep, CancelStep, ResultStep
    <3> QED BY <2>1, <3>1, <3>2, CountStep
  <2> QED BY <2>1, <2>2 DEF MissionInv
<1> QED BY <1>1, <1>2, PTL DEF Spec

\* A stage is sent only when every earlier one succeeded, quiet if it moved.
THEOREM InOrder == Spec => []StagesInOrder
<1>1. MissionInv => StagesInOrder
  BY DEF MissionInv, StageInv, Succeeded, StagesInOrder
<1> QED BY <1>1, MissionInvariant, PTL

\* A mission with a Result leaves no goal behind while its node is up.
THEOREM NoGoalLeft == Spec => []NoOrphan
<1>1. MissionInv => NoOrphan
  BY DEF MissionInv, StageInv, NoOrphan
<1> QED BY <1>1, MissionInvariant, PTL

\* After an accepted cancel at most one more stage is sent.
THEOREM OneStageAfterCancel == Spec => []CancelBounded
<1>1. MissionInv => CancelBounded
  BY DEF MissionInv, CancelInv, CancelBounded
<1> QED BY <1>1, MissionInvariant, PTL

\* Confirmed quiescence covers every stage that may have moved the machine.
THEOREM QuietMission == Spec => []QuietIsReal
<1>1. MissionInv => QuietIsReal
  BY DEF MissionInv, ResultInv, QuietIsReal
<1> QED BY <1>1, MissionInvariant, PTL

\* SUCCEEDED means that all six stages did.
THEOREM SuccessOfAll == Spec => []SuccessIsComplete
<1>1. MissionInv => SuccessIsComplete
  <2> SUFFICES ASSUME MissionInv, NEW m \in Missions, outcome[m] = "succeeded"
               PROVE  /\ Stage(m) = Len(Stages)
                      /\ \A k \in DOMAIN children[m] : /\ children[m][k].outcome = "succeeded"
                                                       /\ IsPlan(k) \/ children[m][k].quiet
    BY DEF SuccessIsComplete
  <2>1. DOMAIN children[m] = 1 .. Stage(m)
    BY LenProperties DEF MissionInv, FieldType, Stage
  <2> QED BY <2>1 DEF MissionInv, ResultInv, Succeeded, LastStage
<1> QED BY <1>1, MissionInvariant, PTL

\* Every datagram of every stage is in the Result, once: _execute() and its exception path.
THEOREM EveryDatagramCounted == Spec => []DatagramsAddUp
<1>1. MissionInv => DatagramsAddUp
  BY DEF MissionInv, CountInv, AllDatagrams, DatagramsAddUp
<1> QED BY <1>1, MissionInvariant, PTL

-----------------------------------------------------------------------------
(* The replay of a mission. *)

\* The chain of states: no state twice, none is terminal before the last, and the second
\* and the seventh are those that plan.
LEMMA ChainFacts ==
  /\ \A i, j \in 1 .. 13 : Chain[i] = Chain[j] => i = j
  /\ \A i \in 1 .. 13 : Chain[i] \in MissionStates
  /\ \A i \in 1 .. 12 : Chain[i] \notin Terminal
  /\ \A i \in 1 .. 12 : NominalEvents[i] \in MissionEvents \ {"fail", "stop"}
  /\ Chain[1] = "idle" /\ Chain[2] = "planning_to_dig" /\ Chain[7] = "planning_to_dump"
  /\ Chain[13] = "completed" /\ NominalEvents[1] = "start"
<1>1. \A i, j \in 1 .. 13 : Chain[i] = Chain[j] => i = j
  BY DEF Chain
<1>2. \A i \in 1 .. 13 : Chain[i] \in MissionStates
  BY DEF MissionStates
<1>3. \A i \in 1 .. 12 : Chain[i] \notin Terminal
  BY DEF Chain, Terminal
<1>4. \A i \in 1 .. 12 : NominalEvents[i] \in MissionEvents \ {"fail", "stop"}
  BY DEF NominalEvents, MissionEvents
<1>5. /\ Chain[1] = "idle" /\ Chain[2] = "planning_to_dig" /\ Chain[7] = "planning_to_dump"
      /\ Chain[13] = "completed" /\ NominalEvents[1] = "start"
  BY DEF Chain, NominalEvents
<1> QED BY <1>1, <1>2, <1>3, <1>4, <1>5

LEMMA PlanningStates == \A i \in 1 .. 12 : Planning(Chain[i]) <=> i = 2 \/ i = 7
BY ChainFacts DEF Planning

\* What a run would write now.
View(r) ==
  [transitions |-> machine[r].transitions, mission |-> snapshot[r],
   from |-> IF DumpPlanned(machine[r]) THEN {recording[r].tip} ELSE {}]

\* It has passed the first n states, and is in the next.
AtStage(r, n) ==
  /\ machine[r].state = Chain[n + 1] /\ Len(machine[r].transitions) = n
  /\ Passed(View(r), recording[r], n)

\* It has failed in the n-th, the first in which anything went wrong.
FailedAt(r, n) ==
  /\ machine[r].state = "failed" /\ Len(machine[r].transitions) = n
  /\ Passed(View(r), recording[r], n - 1) /\ ~Planning(Chain[n]) /\ ~WentWell(recording[r], Chain[n])
  /\ machine[r].transitions[n] = [from |-> Chain[n], event |-> "fail", to |-> "failed"]

RunInv(r) ==
  /\ step[r] \in {"off", "cleared", "loaded"} => machine[r] = NewMachine
  /\ step[r] = "replay" => (\E n \in 1 .. 12 : AtStage(r, n)) \/ (\E n \in 3 .. 12 : FailedAt(r, n))

\* What is in the file was written by a run that is over, after all that have begun.
OutputInv == \A o \in output : step[o.by] = "over" /\ begun \subseteq o.begun

ReplayInv ==
  /\ ReplayTypeOK /\ TellsItsStages /\ OutputInv
  /\ \A r \in Replays : RunInv(r)

\* What a run is at depends on its own machine, snapshot and recording alone.
LEMMA SameRun ==
  ASSUME NEW r \in Replays, RunInv(r),
         machine'[r] = machine[r], snapshot'[r] = snapshot[r], recording'[r] = recording[r],
         step'[r] = step[r] \/ step'[r] = "over"
  PROVE  RunInv(r)'
BY DEF RunInv, AtStage, FailedAt, View

\* One more transition.
LEMMA OneMore ==
  ASSUME NEW m \in StateMachine, NEW event \in MissionEvents, NEW target \in MissionStates,
         NEW next, next = After(m, event, target)
  PROVE  /\ next \in StateMachine /\ next.state = target
         /\ Len(next.transitions) = Len(m.transitions) + 1
         /\ \A i \in 1 .. Len(m.transitions) : next.transitions[i] = m.transitions[i]
         /\ next.transitions[Len(m.transitions) + 1] = [from |-> m.state, event |-> event, to |-> target]
<1> DEFINE t == [from |-> m.state, event |-> event, to |-> target]
<1>1. t \in Transition /\ m.transitions \in Seq(Transition)
  BY DEF StateMachine, Transition
<1>2. next = [state |-> target, transitions |-> Append(m.transitions, t)]
  BY DEF After
<1> HIDE DEF t
<1>3. /\ Append(m.transitions, t) \in Seq(Transition)
      /\ Len(Append(m.transitions, t)) = Len(m.transitions) + 1
      /\ \A i \in 1 .. Len(m.transitions) : Append(m.transitions, t)[i] = m.transitions[i]
      /\ Append(m.transitions, t)[Len(m.transitions) + 1] = t
  BY <1>1, AppendProperties
<1> QED BY <1>2, <1>3 DEF StateMachine, t

\* StateMachine accepts the event of its state and goes to the next: advance().
LEMMA NextStage ==
  ASSUME NEW m, NEW n \in 1 .. 12, m.state = Chain[n], NEW event \in MissionEvents \ {"fail", "stop"},
         NEW target, Accepts(m, event, target)
  PROVE  event = NominalEvents[n] /\ target = Chain[n + 1]
<1>1. PICK i \in 1 .. 12 : Chain[i] = m.state /\ NominalEvents[i] = event /\ target = Chain[i + 1]
  BY DEF Accepts
<1>2. i = n
  BY <1>1, ChainFacts
<1> QED BY <1>1, <1>2

\* A stage that passes: the events of run_mission_replay() in their order.
LEMMA PassesOn ==
  ASSUME ReplayInv, NEW r \in Replays, StagePasses(r)
  PROVE  \E n \in 2 .. 12 : AtStage(r, n)'
<1>0. /\ machine \in [Replays -> StateMachine] /\ step[r] = "replay" /\ RunInv(r)
      /\ snapshot' = snapshot /\ recording' = recording
  BY DEF ReplayInv, ReplayTypeOK, StagePasses
<1>1. PICK event \in MissionEvents \ {"fail", "stop"} : Advances(r, event)
  BY DEF StagePasses
<1>2. PICK target \in MissionStates :
        Accepts(machine[r], event, target)
        /\ machine' = [machine EXCEPT ![r] = After(machine[r], event, target)]
  BY <1>1 DEF Advances
<1>3. machine[r].state \notin Terminal
  BY <1>2 DEF Accepts
<1>4. PICK n \in 1 .. 12 : AtStage(r, n)
  BY <1>0, <1>3 DEF RunInv, FailedAt, Terminal
<1>5. n \in 1 .. 11
  <2>1. n # 12
    BY <1>3, <1>4, ChainFacts DEF AtStage, Terminal
  <2> QED BY <2>1
<1>6. event = NominalEvents[n + 1] /\ target = Chain[n + 2]
  <2>1. machine[r].state = Chain[n + 1] /\ n + 1 \in 1 .. 12
    BY <1>4, <1>5 DEF AtStage
  <2>2. event = NominalEvents[n + 1] /\ target = Chain[(n + 1) + 1]
    BY <1>2, <2>1, NextStage
  <2> QED BY <2>2
<1>7. /\ machine'[r].state = target /\ Len(machine'[r].transitions) = n + 1
      /\ \A i \in 1 .. n : machine'[r].transitions[i] = machine[r].transitions[i]
      /\ machine'[r].transitions[n + 1] =
           [from |-> Chain[n + 1], event |-> NominalEvents[n + 1], to |-> Chain[n + 2]]
  <2>1. machine[r] \in StateMachine /\ machine'[r] = After(machine[r], event, target)
    BY <1>0, <1>2
  <2>2. Len(machine[r].transitions) = n /\ machine[r].state = Chain[n + 1]
    BY <1>4 DEF AtStage
  <2>3. /\ machine'[r].state = target
        /\ Len(machine'[r].transitions) = Len(machine[r].transitions) + 1
        /\ \A i \in 1 .. Len(machine[r].transitions) :
             machine'[r].transitions[i] = machine[r].transitions[i]
        /\ machine'[r].transitions[Len(machine[r].transitions) + 1] =
             [from |-> machine[r].state, event |-> event, to |-> target]
    BY <2>1, OneMore
  <2> QED BY <1>6, <2>2, <2>3
<1>8. /\ \A i \in 1 .. n :
           /\ machine[r].transitions[i] = [from |-> Chain[i], event |-> NominalEvents[i], to |-> Chain[i + 1]]
           /\ i # 1 /\ ~Planning(Chain[i]) => WentWell(recording[r], Chain[i])
      /\ n >= 2 => recording[r].digTo = snapshot[r].dig
      /\ n >= 7 => recording[r].dumpFrom = recording[r].tip /\ recording[r].dumpTo = snapshot[r].dump
  BY <1>4 DEF AtStage, Passed, View
<1>9. IF Planning(Chain[n + 1])
      THEN PlanMatches(recording[r], snapshot[r], Chain[n + 1])
      ELSE WentWell(recording[r], Chain[n + 1])
  BY <1>4 DEF StagePasses, AtStage
<1>10. \A i \in 1 .. n + 1 :
         /\ machine'[r].transitions[i] = [from |-> Chain[i], event |-> NominalEvents[i], to |-> Chain[i + 1]]
         /\ i # 1 /\ ~Planning(Chain[i]) => WentWell(recording[r], Chain[i])
  <2> SUFFICES ASSUME NEW i \in 1 .. n + 1
               PROVE  /\ machine'[r].transitions[i] =
                           [from |-> Chain[i], event |-> NominalEvents[i], to |-> Chain[i + 1]]
                      /\ i # 1 /\ ~Planning(Chain[i]) => WentWell(recording[r], Chain[i])
    OBVIOUS
  <2>1. CASE i = n + 1
    <3>1. i + 1 = n + 2
      BY <2>1
    <3> QED BY <1>7, <1>9, <2>1, <3>1
  <2>2. CASE i \in 1 .. n
    BY <1>7, <1>8, <2>2
  <2> QED BY <2>1, <2>2
<1>11. n + 1 >= 2 => recording[r].digTo = snapshot[r].dig
  <2>1. CASE n = 1
    <3>1. Planning(Chain[2]) /\ n + 1 = 2 /\ Chain[2] = "planning_to_dig"
      BY <2>1, ChainFacts DEF Planning
    <3>2. PlanMatches(recording[r], snapshot[r], "planning_to_dig")
      BY <1>9, <3>1
    <3> QED BY <3>2 DEF PlanMatches
  <2>2. CASE n # 1
    <3>1. n >= 2
      BY <2>2
    <3> QED BY <1>8, <3>1
  <2> QED BY <2>1, <2>2
<1>12. n + 1 >= 7 => recording[r].dumpFrom = recording[r].tip /\ recording[r].dumpTo = snapshot[r].dump
  <2>1. CASE n = 6
    <3>1. Planning(Chain[7]) /\ n + 1 = 7 /\ Chain[7] = "planning_to_dump"
      BY <2>1, ChainFacts DEF Planning
    <3>2. PlanMatches(recording[r], snapshot[r], "planning_to_dump")
      BY <1>9, <3>1
    <3> QED BY <3>2 DEF PlanMatches
  <2>2. CASE n >= 7
    BY <1>8, <2>2
  <2> QED BY <2>1, <2>2
<1>13. n + 1 >= 7 => DumpPlanned(machine'[r])
  <2> SUFFICES ASSUME n + 1 >= 7 PROVE DumpPlanned(machine'[r])
    OBVIOUS
  <2>1. 7 \in 1 .. n + 1 /\ 7 \in 1 .. Len(machine'[r].transitions)
    BY <1>7
  <2>2. machine'[r].transitions[7].from = "planning_to_dump"
    <3>1. machine'[r].transitions[7] = [from |-> Chain[7], event |-> NominalEvents[7], to |-> Chain[7 + 1]]
      BY <1>10, <2>1
    <3> QED BY <3>1, ChainFacts
  <2> QED BY <2>1, <2>2 DEF DumpPlanned
<1>14. Passed(View(r), recording[r], n + 1)'
  BY <1>0, <1>10, <1>11, <1>12, <1>13 DEF Passed, View
<1>15. n + 1 \in 2 .. 12 /\ (n + 1) + 1 = n + 2
  BY <1>5
<1> QED BY <1>6, <1>7, <1>14, <1>15 DEF AtStage

\* A stage that does not: the FAIL of run_mission_replay().
LEMMA FailsThere ==
  ASSUME ReplayInv, NEW r \in Replays, StageFails(r)
  PROVE  \E n \in 3 .. 12 : FailedAt(r, n)'
<1>0. /\ machine \in [Replays -> StateMachine] /\ step[r] = "replay" /\ RunInv(r)
      /\ snapshot' = snapshot /\ recording' = recording
  BY DEF ReplayInv, ReplayTypeOK, StageFails
<1>1. PICK target \in MissionStates :
        Accepts(machine[r], "fail", target)
        /\ machine' = [machine EXCEPT ![r] = After(machine[r], "fail", target)]
  BY DEF StageFails, Advances
<1>2. machine[r].state \notin Terminal /\ target = "failed"
  <2>1. \A i \in 1 .. 12 : NominalEvents[i] # "fail"
    BY ChainFacts
  <2> QED BY <1>1, <2>1 DEF Accepts
<1>3. PICK n \in 1 .. 12 : AtStage(r, n)
  BY <1>0, <1>2 DEF RunInv, FailedAt, Terminal
<1>4. n \in 2 .. 11 /\ ~Planning(Chain[n + 1]) /\ ~WentWell(recording[r], Chain[n + 1])
  <2>1. n # 12
    BY <1>2, <1>3, ChainFacts DEF AtStage, Terminal
  <2>2. ~Planning(Chain[n + 1]) /\ ~WentWell(recording[r], Chain[n + 1])
    BY <1>3 DEF StageFails, AtStage
  <2>3. Planning(Chain[2])
    BY ChainFacts DEF Planning
  <2>4. n # 1
    BY <2>2, <2>3
  <2> QED BY <2>1, <2>2, <2>4
<1>5. /\ machine'[r].state = "failed" /\ Len(machine'[r].transitions) = n + 1
      /\ \A i \in 1 .. n : machine'[r].transitions[i] = machine[r].transitions[i]
      /\ machine'[r].transitions[n + 1] = [from |-> Chain[n + 1], event |-> "fail", to |-> "failed"]
  <2>1. machine[r] \in StateMachine /\ machine'[r] = After(machine[r], "fail", "failed")
        /\ "failed" \in MissionStates /\ "fail" \in MissionEvents
    BY <1>0, <1>1, <1>2 DEF MissionStates, MissionEvents
  <2>2. Len(machine[r].transitions) = n /\ machine[r].state = Chain[n + 1]
    BY <1>3 DEF AtStage
  <2> QED BY <2>1, <2>2, OneMore
<1>6. /\ \A i \in 1 .. n :
           /\ machine[r].transitions[i] = [from |-> Chain[i], event |-> NominalEvents[i], to |-> Chain[i + 1]]
           /\ i # 1 /\ ~Planning(Chain[i]) => WentWell(recording[r], Chain[i])
      /\ n >= 2 => recording[r].digTo = snapshot[r].dig
      /\ n >= 7 => recording[r].dumpFrom = recording[r].tip /\ recording[r].dumpTo = snapshot[r].dump
  BY <1>3 DEF AtStage, Passed, View
<1>7. n >= 7 => DumpPlanned(machine'[r])
  <2> SUFFICES ASSUME n >= 7 PROVE DumpPlanned(machine'[r])
    OBVIOUS
  <2>1. 7 \in 1 .. n /\ 7 \in 1 .. Len(machine'[r].transitions)
    BY <1>5
  <2>2. machine'[r].transitions[7].from = "planning_to_dump"
    <3>1. machine'[r].transitions[7] = [from |-> Chain[7], event |-> NominalEvents[7], to |-> Chain[7 + 1]]
      BY <1>5, <1>6, <2>1
    <3> QED BY <3>1, ChainFacts
  <2> QED BY <2>1, <2>2 DEF DumpPlanned
<1>8. Passed(View(r), recording[r], n)'
  BY <1>0, <1>5, <1>6, <1>7 DEF Passed, View
<1>9. n + 1 \in 3 .. 12 /\ (n + 1) - 1 = n
  BY <1>4
<1> QED BY <1>0, <1>4, <1>5, <1>8, <1>9 DEF FailedAt

\* What is written is what the run is at.
LEMMA WritesTheView ==
  ASSUME ReplayInv, NEW r \in Replays, Writes(r)
  PROVE  TellsItsStages'
<1>0. /\ step[r] = "replay" /\ RunInv(r) /\ machine[r].state \in Terminal
      /\ recording' = recording
      /\ output' = {[by |-> r, mission |-> snapshot[r], state |-> machine[r].state,
                     transitions |-> machine[r].transitions,
                     from |-> IF DumpPlanned(machine[r]) THEN {recording[r].tip} ELSE {},
                     begun |-> begun]}
  BY DEF ReplayInv, Writes, Goes
<1>1. PICK o \in output' : TRUE
  BY <1>0
<1>2. /\ output' = {o} /\ o.by = r /\ o.state = machine[r].state
      /\ o.transitions = View(r).transitions /\ o.mission = View(r).mission /\ o.from = View(r).from
      /\ o.transitions = machine[r].transitions
  BY <1>0, <1>1 DEF View
<1>3. \A n : Passed(View(r), recording[r], n) => Passed(o, recording[r], n)
  BY <1>2 DEF Passed
<1>4. CASE \E n \in 1 .. 12 : AtStage(r, n)
  <2>1. PICK n \in 1 .. 12 : AtStage(r, n)
    BY <1>4
  <2>2. n = 12
    <3>1. n + 1 \in 1 .. 13 /\ Chain[n + 1] \in Terminal
      BY <1>0, <2>1 DEF AtStage
    <3>2. ~(n + 1 \in 1 .. 12)
      BY <3>1, ChainFacts
    <3> QED BY <3>1, <3>2
  <2>3. o.state = "completed" /\ Len(o.transitions) = 12 /\ Passed(o, recording[r], 12)
    BY <1>2, <1>3, <2>1, <2>2, ChainFacts DEF AtStage
  <2> QED BY <1>0, <1>2, <2>3 DEF TellsItsStages
<1>5. CASE \E n \in 3 .. 12 : FailedAt(r, n)
  <2>1. PICK n \in 3 .. 12 : FailedAt(r, n)
    BY <1>5
  <2>2. /\ o.state = "failed" /\ Len(o.transitions) = n
        /\ Passed(o, recording[r], n - 1) /\ ~Planning(Chain[n]) /\ ~WentWell(recording[r], Chain[n])
        /\ o.transitions[n] = [from |-> Chain[n], event |-> "fail", to |-> "failed"]
    BY <1>2, <1>3, <2>1 DEF FailedAt
  <2> QED BY <1>0, <1>2, <2>2 DEF TellsItsStages
<1> QED BY <1>0, <1>4, <1>5 DEF RunInv

\* What a run does keeps the types.
LEMMA ReplayTypes ==
  ASSUME ReplayTypeOK, NEW r \in Replays, ReplayRun(r)
  PROVE  ReplayTypeOK'
<1>1. ASSUME NEW event \in MissionEvents, Advances(r, event)
      PROVE  machine' \in [Replays -> StateMachine]
  <2>1. PICK target \in MissionStates : machine' = [machine EXCEPT ![r] = After(machine[r], event, target)]
    BY <1>1 DEF Advances
  <2>2. After(machine[r], event, target) \in StateMachine
    BY OneMore DEF ReplayTypeOK
  <2> QED BY <2>1, <2>2 DEF ReplayTypeOK
<1>2. CASE Clears(r)
  BY <1>2 DEF Clears, Goes, ReplayTypeOK
<1>3. CASE Loads(r)
  BY <1>3 DEF Loads, Goes, ReplayTypeOK
<1>4. CASE Begins(r)
  <2>1. machine' \in [Replays -> StateMachine]
    <3>1. "start" \in MissionEvents
      BY ChainFacts
    <3> QED BY <1>1, <1>4, <3>1 DEF Begins
  <2> QED BY <1>4, <2>1 DEF Begins, Goes, ReplayTypeOK
<1>5. CASE StagePasses(r)
  BY <1>1, <1>5 DEF StagePasses, ReplayTypeOK
<1>6. CASE StageFails(r)
  <2>1. "fail" \in MissionEvents
    BY DEF MissionEvents
  <2> QED BY <1>1, <1>6, <2>1 DEF StageFails, ReplayTypeOK
<1>7. CASE Writes(r)
  <2>1. machine[r] \in StateMachine /\ snapshot[r] \in Snapshots /\ recording[r].tip \in Points
    BY ReplayAssumption DEF ReplayTypeOK, Recording
  <2>2. output' \subseteq Output
    BY <1>7, <2>1 DEF Writes, Output, StateMachine, ReplayTypeOK
  <2> QED BY <1>7, <2>2 DEF Writes, Goes, ReplayTypeOK
<1>8. CASE ReplayStops(r)
  BY <1>8 DEF ReplayStops, Goes, ReplayTypeOK
<1> QED BY <1>2, <1>3, <1>4, <1>5, <1>6, <1>7, <1>8 DEF ReplayRun

\* A replay tells the truth about its recording: run_mission_replay() and the state
\* machine it is run on.
THEOREM ReplayInvariant == ReplaySpec => []ReplayInv
<1>1. ReplayInit => ReplayInv
  BY ReplayAssumption
     DEF ReplayInit, ReplayInv, ReplayTypeOK, TellsItsStages, OutputInv, RunInv, NewMachine, StateMachine,
         MissionStates, Chain
<1>2. ReplayInv /\ [ReplayNext]_replayVars => ReplayInv'
  <2> SUFFICES ASSUME ReplayInv, [ReplayNext]_replayVars PROVE ReplayInv'
    OBVIOUS
  <2>0. /\ ReplayTypeOK /\ TellsItsStages /\ OutputInv /\ \A q \in Replays : RunInv(q)
        /\ step \in [Replays -> {"off", "cleared", "loaded", "replay", "over"}]
        /\ machine \in [Replays -> StateMachine]
        /\ snapshot \in [Replays -> Snapshots] /\ recording \in [Replays -> Recordings]
        /\ output \subseteq Output
    BY DEF ReplayInv, ReplayTypeOK
  <2>1. CASE EditsMission
    BY <2>0, <2>1
       DEF EditsMission, ReplayInv, ReplayTypeOK, TellsItsStages, OutputInv, RunInv, AtStage, FailedAt, View
  <2>2. CASE UNCHANGED replayVars
    BY <2>0, <2>2
       DEF replayVars, ReplayInv, ReplayTypeOK, TellsItsStages, OutputInv, RunInv, AtStage, FailedAt, View
  <2>3. ASSUME NEW r \in Replays, ReplayRun(r)
        PROVE  ReplayInv'
    <3>1. ReplayTypeOK'
      BY <2>0, <2>3, ReplayTypes
    <3>2. step[r] # "over" /\ \A q \in Replays : q # r => step'[q] = step[q]
      BY <2>0, <2>3
         DEF ReplayRun, Clears, Loads, Begins, StagePasses, StageFails, Writes, ReplayStops, Goes
    <3>3. \A q \in Replays : q # r =>
            machine'[q] = machine[q] /\ snapshot'[q] = snapshot[q] /\ recording'[q] = recording[q]
      BY <2>0, <2>3
         DEF ReplayRun, Clears, Loads, Begins, StagePasses, StageFails, Writes, ReplayStops, Advances
    <3>4. \A q \in Replays : q # r => RunInv(q)'
      BY <2>0, <3>2, <3>3, SameRun
    <3>5. ASSUME UNCHANGED <<output, begun>>
          PROVE  OutputInv' /\ TellsItsStages'
      <4>1. \A o \in output : o.by \in Replays /\ o.by # r
        BY <2>0, <3>2 DEF OutputInv, Output
      <4> QED BY <2>0, <3>2, <3>3, <3>5, <4>1 DEF OutputInv, TellsItsStages
    <3>6. CASE Clears(r)
      <4>1. output' = {} /\ machine' = machine /\ step'[r] = "cleared" /\ step[r] = "off"
        BY <2>0, <3>6 DEF Clears, Goes
      <4>2. RunInv(r)'
        BY <2>0, <4>1 DEF RunInv
      <4> QED BY <3>1, <3>4, <4>1, <4>2 DEF ReplayInv, OutputInv, TellsItsStages
    <3>7. CASE Loads(r)
      <4>1. machine' = machine /\ step'[r] = "loaded" /\ step[r] = "cleared" /\ UNCHANGED <<output, begun>>
        BY <2>0, <3>7 DEF Loads, Goes
      <4>2. RunInv(r)'
        BY <2>0, <4>1 DEF RunInv
      <4> QED BY <3>1, <3>4, <3>5, <4>1, <4>2 DEF ReplayInv
    <3>8. CASE Begins(r)
      <4>1. /\ step'[r] = "replay" /\ step[r] = "loaded" /\ UNCHANGED <<output, begun>>
            /\ Advances(r, "start") /\ machine[r] = NewMachine
        BY <2>0, <3>8 DEF Begins, Goes, RunInv
      <4>2. PICK target \in MissionStates :
              Accepts(machine[r], "start", target)
              /\ machine' = [machine EXCEPT ![r] = After(machine[r], "start", target)]
        BY <4>1 DEF Advances
      <4>3. "start" \in MissionEvents \ {"fail", "stop"} /\ machine[r].state = Chain[1] /\ 1 \in 1 .. 12
        BY <4>1, ChainFacts DEF NewMachine
      <4>4. target = Chain[1 + 1] /\ "start" = NominalEvents[1]
        BY <4>2, <4>3, NextStage
      <4>5. /\ machine'[r] = After(machine[r], "start", target) /\ machine[r] \in StateMachine
            /\ Len(machine[r].transitions) = 0
        BY <2>0, <4>1, <4>2 DEF NewMachine
      <4>6. /\ machine'[r].state = target /\ Len(machine'[r].transitions) = 1
            /\ machine'[r].transitions[1] = [from |-> Chain[1], event |-> "start", to |-> target]
        <5>1. /\ machine'[r].state = target
              /\ Len(machine'[r].transitions) = Len(machine[r].transitions) + 1
              /\ machine'[r].transitions[Len(machine[r].transitions) + 1] =
                   [from |-> machine[r].state, event |-> "start", to |-> target]
          <6>1. "start" \in MissionEvents /\ machine[r] \in StateMachine
                /\ machine'[r] = After(machine[r], "start", target)
            BY <4>3, <4>5
          <6> QED BY <6>1, OneMore
        <5> QED BY <4>3, <4>5, <5>1
      <4>7. AtStage(r, 1)'
        BY <4>4, <4>6 DEF AtStage, Passed, View
      <4>8. RunInv(r)'
        BY <4>1, <4>7 DEF RunInv
      <4> QED BY <3>1, <3>4, <3>5, <4>1, <4>8 DEF ReplayInv
    <3>9. CASE StagePasses(r)
      <4>1. step' = step /\ step[r] = "replay" /\ UNCHANGED <<output, begun>>
        BY <3>9 DEF StagePasses
      <4>2. \E n \in 1 .. 12 : AtStage(r, n)'
        BY <3>9, PassesOn
      <4>3. RunInv(r)'
        BY <4>1, <4>2 DEF RunInv
      <4> QED BY <3>1, <3>4, <3>5, <4>1, <4>3 DEF ReplayInv
    <3>10. CASE StageFails(r)
      <4>1. step' = step /\ step[r] = "replay" /\ UNCHANGED <<output, begun>>
        BY <3>10 DEF StageFails
      <4>2. \E n \in 3 .. 12 : FailedAt(r, n)'
        BY <3>10, FailsThere
      <4>3. RunInv(r)'
        BY <4>1, <4>2 DEF RunInv
      <4> QED BY <3>1, <3>4, <3>5, <4>1, <4>3 DEF ReplayInv
    <3>11. CASE Writes(r)
      <4>1. step'[r] = "over" /\ step[r] = "replay" /\ begun' = begun
            /\ machine' = machine /\ snapshot' = snapshot /\ recording' = recording
        BY <2>0, <3>11 DEF Writes, Goes
      <4>2. \A o \in output' : o.by = r /\ o.begun = begun
        BY <3>11 DEF Writes
      <4>3. OutputInv'
        BY <4>1, <4>2 DEF OutputInv
      <4>4. RunInv(r)'
        BY <4>1 DEF RunInv
      <4>5. TellsItsStages'
        BY <3>11, WritesTheView
      <4> QED BY <3>1, <3>4, <4>3, <4>4, <4>5 DEF ReplayInv
    <3>12. CASE ReplayStops(r)
      <4>1. step'[r] = "over" /\ UNCHANGED <<output, begun>>
        BY <2>0, <3>12 DEF ReplayStops, Goes
      <4>2. RunInv(r)'
        BY <4>1 DEF RunInv
      <4> QED BY <3>1, <3>4, <3>5, <4>1, <4>2 DEF ReplayInv
    <3> QED BY <2>3, <3>6, <3>7, <3>8, <3>9, <3>10, <3>11, <3>12 DEF ReplayRun
  <2> QED BY <2>1, <2>2, <2>3 DEF ReplayNext
<1> QED BY <1>1, <1>2, PTL DEF ReplaySpec

\* The file of a replay tells its stages, and is not older than a run that is over: main().
THEOREM ReplaysTell == ReplaySpec => []ReplayOutput
<1>1. ReplayInv => ReplayOutput
  BY DEF ReplayInv, OutputInv, ReplayOutput, NotOlder
<1> QED BY <1>1, ReplayInvariant, PTL
================================================================================
