--------------------------- MODULE LiveBehaviorProofs ---------------------------
(***************************************************************************)
(* Proofs about LiveBehavior for any goals, deadlines and caches: the      *)
(* lease has one owner, quiescence is confirmed only when it is real, and  *)
(* the server keeps the promise of MotionLease.                            *)
(*                                                                         *)
(* Of some forty actions only a few kinds of step matter to the lease.     *)
(* StepKinds sorts every step of the specification into one of them; the   *)
(* invariant and the refinement are then proved kind by kind.              *)
(***************************************************************************)
EXTENDS LiveBehavior, FiniteSetTheorems, SequenceTheorems, TLAPS

Labels == Owning \cup {"idle", "plan", "heartbeat", "reserve", "rejected",
                       "report", "done", "exited"}

LabelType == pc \in [Goals -> Labels]
QuietType == quiet \in [Goals -> BOOLEAN]
ClockType == timer \in [Goals -> Nat] /\ live \in [Goals -> 0 .. ValidTicks]
CoreType  == LabelType /\ QuietType /\ ClockType

\* The silence after the zeros lasts at least as long as the last command.
DrainCovers == \A g \in Goals : pc[g] = "drain" => live[g] <= timer[g]

\* Quiescence is confirmed by the drain, and the goal sends nothing after it.
QuietSettled ==
  \A g \in Goals : quiet[g] => pc[g] \in {"release", "report", "done"} /\ live[g] = 0

LeaseInv == CoreType /\ LeaseExclusive /\ DrainCovers /\ QuietSettled

-----------------------------------------------------------------------------
(* The kinds of step. *)

\* The step does not concern the lease.
Aside == UNCHANGED <<active, pc, quiet, timer, live>>

\* A goal callback goes on or rejects.
Waits(g) ==
  /\ pc[g] \in {"idle", "plan", "heartbeat", "reserve"}
  /\ \E l \in {"plan", "heartbeat", "reserve", "rejected"} : Goto(g, l)
  /\ UNCHANGED <<active, quiet, timer, live>>

\* A goal takes the free lease.
Takes(g) ==
  /\ active = "" /\ pc[g] = "reserve"
  /\ active' = Behavior(g) /\ Goto(g, "begin")
  /\ UNCHANGED <<quiet, timer, live>>

\* A step of a loop; it may send a motion command.
Loops(g) ==
  /\ pc[g] \in Looping
  /\ \E l \in Looping \cup {"zero", "exited"} : Goto(g, l)
  /\ timer' = timer \/ \E t \in Nat : timer' = [timer EXCEPT ![g] = t]
  /\ live' = live \/ live' = [live EXCEPT ![g] = ValidTicks]
  /\ UNCHANGED <<active, quiet>>

\* A step of the terminal zeros.
Stops(g) ==
  /\ pc[g] \in {"zero", "stopping"}
  /\ \E l \in {"stopping", "release"} : Goto(g, l)
  /\ UNCHANGED <<active, quiet, timer, live>>

\* The zeros are out and the silence begins, ends, the lease is given back, the
\* Result is given: StopDone, Drained, Release and Report, and what they leave.
Falls(g) == StopDone(g) /\ UNCHANGED <<active, live>>
Settles(g) == Drained(g) /\ UNCHANGED <<active, timer, live>>
Yields(g) == Release(g) /\ UNCHANGED <<quiet, timer, live>>
Answers(g) == Report(g) /\ UNCHANGED <<active, live>>

GoalStep(g) == Waits(g) \/ Takes(g) \/ Loops(g) \/ Stops(g) \/ Falls(g)
                 \/ Settles(g) \/ Yields(g) \/ Answers(g)

-----------------------------------------------------------------------------

\* Deadlines are natural numbers, and the drain outlasts a command.
LEMMA Deadlines ==
  /\ ValidTicks \in Nat /\ StopTicks \in Nat /\ DrainTicks \in Nat /\ MaxHold \in Nat
  /\ DrainTicks >= ValidTicks
BY LiveAssumption DEF LiveAssumption

\* No goal takes the lease in the name of the empty string, which is no lease.
LEMMA Named == \A g \in Goals : Behavior(g) # ""
BY DEF Behavior

\* What leaving a loop and handing a command to the sink are in these terms.
LEMMA LeaveLoop ==
  ASSUME NEW g \in Goals, NEW outcome, pc[g] \in Looping, Finish(g, outcome),
         UNCHANGED <<active, live>>
  PROVE  Loops(g)
BY Deadlines DEF Finish, ForgetLoop, Loops, Goto

\* A command handed to the sink, or the loop left in its place, keeps the goal in
\* the labels of its loop or just past it.
LEMMA HandOver ==
  ASSUME NEW g \in Goals, NEW s, NEW what, NEW outcome, pc[g] \in Looping,
         SendMotion(g, s, what, outcome), UNCHANGED <<active, live>>
  PROVE  Loops(g)
<1>1. CASE gates[s] = "actuator"
  BY <1>1, LeaveLoop DEF SendMotion
<1>2. CASE gates[s] # "actuator"
  BY <1>2 DEF SendMotion, Loops, Goto, Looping
<1> QED BY <1>1, <1>2

-----------------------------------------------------------------------------

\* Every step of a loop is of one kind.
LEMMA LoopKinds ==
  ASSUME CoreType, NEW g \in Goals, Loop(g)
  PROVE  Loops(g)
<1> USE DEF stateVars, cacheVars, sinkVars, nodeVars, machine, loopVars, goalVars
<1> USE DEF Others, KeepGoal
<1>1. CASE Begin(g)
  BY <1>1, Deadlines DEF Begin, Goto, Loops, Looping
<1>2. CASE LoopExits(g)
  BY <1>2, Deadlines DEF LoopExits, ForgetLoop, Goto, Loops, Looping
<1>3. CASE Cancelled(g) \/ SupervisionLost(g) \/ Raise(g) \/ FixedStartRefused(g)
             \/ TipMissing(g) \/ EmitDenied(g) \/ EmitRaises(g)
  <2>1. PICK outcome : Finish(g, outcome)
    BY <1>3 DEF Cancelled, SupervisionLost, Raise, FixedStartRefused, TipMissing,
                EmitDenied, EmitRaises
  <2>2. pc[g] \in Looping /\ UNCHANGED <<active, live>>
    BY <1>3 DEF Cancelled, SupervisionLost, Raise, FixedStartRefused, TipMissing,
                EmitDenied, EmitRaises, Looping
  <2> QED BY <2>1, <2>2, LeaveLoop
<1>4. CASE FixedStart(g) \/ LoopTop(g)
  BY <1>4 DEF FixedStart, LoopTop, Goto, Loops, Looping
<1>5. ASSUME NEW s, FixedStep(g, s), pc[g] \in Looping, UNCHANGED <<active, live>>
      PROVE  Loops(g)
  BY <1>5, HandOver DEF FixedStep
<1>6. CASE FixedFirst(g)
  BY <1>6, <1>5 DEF FixedFirst, Looping
<1>7. CASE NewState(g)
  <2>1. CASE g \in Fixeds
    BY <1>7, <2>1, <1>5 DEF NewState, Looping
  <2>2. CASE g \notin Fixeds
    BY <1>7, <2>2 DEF NewState, Goto, Loops, Looping
  <2> QED BY <2>1, <2>2
<1>8. CASE NoNewState(g)
  <2>1. pc[g] \in Looping /\ UNCHANGED <<active, live>>
    BY <1>8 DEF NoNewState, Looping
  <2>2. CASE Finish(g, "failed")
    BY <2>1, <2>2, LeaveLoop
  <2>3. CASE SendMotion(g, last[g], pend[g], "")
    BY <2>1, <2>3, HandOver
  <2>4. CASE Goto(g, "top") /\ KeepGoal
    BY <2>1, <2>4 DEF Goto, Loops, Looping
  <2> QED BY <1>8, <2>2, <2>3, <2>4 DEF NoNewState
<1>9. CASE TipFound(g)
  <2>1. pc[g] \in Looping /\ UNCHANGED <<active, live>>
    BY <1>9 DEF TipFound, Looping
  <2>2. ASSUME NEW outcome, Finish(g, outcome) PROVE Loops(g)
    BY <2>1, <2>2, LeaveLoop
  <2>3. CASE Goto(g, "top") /\ KeepGoal
    BY <2>1, <2>3 DEF Goto, Loops, Looping
  <2>4. CASE Goto(g, "decide") /\ UNCHANGED <<quiet, timer>>
    BY <2>1, <2>4 DEF Goto, Loops, Looping
  <2> QED BY <1>9, <2>2, <2>3, <2>4 DEF TipFound
<1>10. CASE Decide(g)
  <2>1. pc[g] \in Looping /\ UNCHANGED <<active, live>>
    BY <1>10 DEF Decide, Looping
  <2> QED BY <1>10, <2>1, HandOver DEF Decide
<1>11. CASE JogTurn(g)
  <2>1. pc[g] \in Looping /\ UNCHANGED <<active, live>>
    BY <1>11 DEF JogTurn, Looping
  <2>2. ASSUME NEW outcome, Finish(g, outcome) PROVE Loops(g)
    BY <2>1, <2>2, LeaveLoop
  <2>3. CASE SendMotion(g, Latest, "motion", "")
    BY <2>1, <2>3, HandOver
  <2> QED BY <1>11, <2>2, <2>3 DEF JogTurn
<1>12. CASE EmitAllowed(g)
  <2>1. live' = live \/ live' = [live EXCEPT ![g] = ValidTicks]
    BY <1>12 DEF EmitAllowed
  <2>2. UNCHANGED <<active, quiet>> /\ pc[g] \in Looping
    BY <1>12 DEF EmitAllowed, Finish, Looping
  <2>3. \/ Goto(g, "top") /\ UNCHANGED timer
        \/ Goto(g, "zero") /\ timer' = [timer EXCEPT ![g] = StopTicks]
    BY <1>12 DEF EmitAllowed, Finish
  <2> QED BY <2>1, <2>2, <2>3, Deadlines DEF Loops, Looping
<1> QED BY <1>1, <1>2, <1>3, <1>4, <1>6, <1>7, <1>8, <1>9, <1>10, <1>11,
           <1>12 DEF Loop

\* Every step of the server is of one of the kinds.
LEMMA StepKinds ==
  ASSUME CoreType, [Next]_vars
  PROVE  Aside \/ Tick \/ \E g \in Goals : GoalStep(g)
<1> USE DEF stateVars, cacheVars, sinkVars, nodeVars, machine, loopVars, goalVars
<1>1. CASE Input
  <2>1. ASSUME NEW gate \in {"open", "closed", "actuator"}, ReceiveState(gate) PROVE Aside
    BY <2>1 DEF ReceiveState, Aside
  <2>2. ASSUME NEW s \in 1 .. Latest, OnTip(s) PROVE Aside
    BY <2>2 DEF OnTip, Aside
  <2>3. ASSUME NEW g \in Follows, OnOperatorHeartbeat(g) PROVE Aside
    BY <2>3 DEF OnOperatorHeartbeat, Aside
  <2>4. ASSUME NEW g \in Jogs, OnJogHeartbeat(g) PROVE Aside
    BY <2>4 DEF OnJogHeartbeat, Aside
  <2>5. ASSUME NEW p \in Plans, OnPlannedTrajectory(p) PROVE Aside
    BY <2>5 DEF OnPlannedTrajectory, Aside
  <2> QED BY <1>1, <2>1, <2>2, <2>3, <2>4, <2>5 DEF Input
<1>2. ASSUME NEW g \in Goals, GoalCallback(g) PROVE GoalStep(g)
  <2> USE DEF Reject, KeepGoal
  <2>1. CASE GoalArrives(g)
    <3>1. PICK l \in {"plan", "heartbeat", "reserve", "rejected"} : Goto(g, l)
      BY <2>1 DEF GoalArrives
    <3> QED BY <2>1, <3>1 DEF GoalArrives, GoalStep, Waits
  <2>2. CASE PlanFound(g)
    BY <2>2 DEF PlanFound, GoalStep, Waits
  <2>3. CASE PlanTimeout(g)
    BY <2>3 DEF PlanTimeout, GoalStep, Waits
  <2>4. CASE HeartbeatFound(g)
    BY <2>4 DEF HeartbeatFound, GoalStep, Waits
  <2>5. CASE HeartbeatMissing(g)
    BY <2>5 DEF HeartbeatMissing, GoalStep, Waits
  <2>6. CASE Reserve(g)
    BY <2>6 DEF Reserve, CanReserve, GoalStep, Waits, Takes
  <2> QED BY <1>2, <2>1, <2>2, <2>3, <2>4, <2>5, <2>6 DEF GoalCallback
<1>3. ASSUME NEW g \in Goals, OnCancel(g) PROVE Aside
  BY <1>3 DEF OnCancel, Aside
<1>4. ASSUME NEW g \in Goals, Loop(g) PROVE Loops(g)
  BY <1>4, LoopKinds
<1>5. ASSUME NEW g \in Goals, Stop(g) PROVE GoalStep(g)
  <2> USE DEF Others, KeepGoal
  <2>1. CASE StopZero(g) \/ StopFails(g)
    BY <2>1 DEF StopZero, StopFails, Stops, GoalStep
  <2>2. CASE StopDone(g)
    BY <2>2 DEF StopDone, Falls, GoalStep
  <2>3. CASE Drained(g)
    BY <2>3 DEF Drained, Settles, GoalStep
  <2>4. CASE Release(g)
    BY <2>4 DEF Release, Yields, GoalStep
  <2>5. CASE Report(g)
    BY <2>5 DEF Report, Answers, GoalStep
  <2> QED BY <1>5, <2>1, <2>2, <2>3, <2>4, <2>5 DEF Stop
<1>6. CASE JournalFails \/ ContextDown
  BY <1>6 DEF JournalFails, ContextDown, KeepServer, Aside
<1>7. CASE Destroy
  BY <1>7 DEF Destroy, DestroyBegin, DestroyDisarm, DestroyRaises, DestroyZeroed,
              DestroyDrained, DestroyEnd, KeepServer, Aside
<1>8. CASE UNCHANGED vars
  BY <1>8 DEF vars, Aside
<1> QED
  BY <1>1, <1>2, <1>3, <1>4, <1>5, <1>6, <1>7, <1>8 DEF Next, GoalStep

-----------------------------------------------------------------------------

\* Every label but those of a waiting, answered or refused goal holds the lease.
LEMMA Holding ==
  /\ \A g \in Goals : HoldsLease(g) <=> pc[g] \in Owning \cup {"exited"}
  /\ \A g \in Goals : HoldsLease(g)' <=> pc'[g] \in Owning \cup {"exited"}
BY DEF HoldsLease, Owner, Owning, Looping, Stopping

\* A step of goal g that moves its label inside, or outside, the labels that
\* hold the lease and leaves the lease string alone.
LEMMA SameHolders ==
  ASSUME CoreType, LeaseExclusive, NEW g \in Goals, NEW l \in Labels,
         Goto(g, l), UNCHANGED active,
         pc[g] \in Owning \cup {"exited"} <=> l \in Owning \cup {"exited"}
  PROVE  LeaseExclusive'
<1>1. \A h \in Goals : HoldsLease(h)' <=> HoldsLease(h)
  BY Holding DEF CoreType, LabelType, Goto
<1> QED BY <1>1 DEF LeaseExclusive

\* The lease invariant holds initially and every kind of step keeps it.
LEMMA LeaseInit == Init => LeaseInv
<1> SUFFICES ASSUME Init PROVE LeaseInv
  OBVIOUS
<1>1. CoreType
  <2>1. LabelType /\ QuietType
    BY DEF Init, LabelType, QuietType, Labels
  <2>2. timer = [g \in Goals |-> 0] /\ live = [g \in Goals |-> 0]
    BY DEF Init
  <2>3. ClockType
    BY <2>2, Deadlines DEF ClockType
  <2> QED BY <2>1, <2>3 DEF CoreType
<1>2. LeaseExclusive
  BY Holding DEF Init, LeaseExclusive, Owning, Looping, Stopping
<1>3. DrainCovers /\ QuietSettled
  BY DEF Init, DrainCovers, QuietSettled
<1> QED BY <1>1, <1>2, <1>3 DEF LeaseInv

\* Every step keeps the lease invariant: those that move no label, time, and the
\* steps of the goal that has the lease or asks for it.
LEMMA LeaseStep == LeaseInv /\ [Next]_vars => LeaseInv'
<1> SUFFICES ASSUME LeaseInv, [Next]_vars PROVE LeaseInv'
  OBVIOUS
<1>0. LeaseExclusive /\ DrainCovers /\ QuietSettled /\ CoreType
        /\ LabelType /\ QuietType /\ ClockType
  BY DEF LeaseInv, CoreType
<1>1. CASE Aside
  <2>1. LeaseExclusive'
    BY <1>0, <1>1, Holding DEF Aside, LeaseExclusive
  <2>2. CoreType' /\ DrainCovers' /\ QuietSettled'
    BY <1>0, <1>1 DEF Aside, CoreType, LabelType, QuietType, ClockType, DrainCovers, QuietSettled
  <2> QED BY <2>1, <2>2 DEF LeaseInv
<1>2. CASE Tick
  <2>1. LeaseExclusive'
    BY <1>0, <1>2, Holding DEF Tick, LeaseExclusive
  <2>2. LabelType' /\ QuietType'
    BY <1>0, <1>2 DEF Tick, LabelType, QuietType
  <2>3. ClockType'
    BY <1>0, <1>2, Deadlines DEF Tick, Less, ClockType
  <2>4. DrainCovers'
    BY <1>0, <1>2, Deadlines DEF Tick, Less, ClockType, DrainCovers
  <2>5. QuietSettled'
    BY <1>0, <1>2 DEF Tick, Less, QuietSettled
  <2> QED BY <2>1, <2>2, <2>3, <2>4, <2>5 DEF LeaseInv, CoreType
<1>3. ASSUME NEW g \in Goals, Waits(g) PROVE LeaseInv'
  <2>1. PICK l \in {"plan", "heartbeat", "reserve", "rejected"} : Goto(g, l)
    BY <1>3 DEF Waits
  <2>2. l \in Labels /\ l \notin Owning \cup {"exited"} /\ pc[g] \notin Owning \cup {"exited"}
    BY <1>3, <2>1 DEF Waits, Labels, Owning, Looping, Stopping
  <2>3. LeaseExclusive'
    BY <1>0, <1>3, <2>1, <2>2, SameHolders DEF Waits
  <2>4. CoreType' /\ DrainCovers' /\ QuietSettled'
    BY <1>0, <1>3, <2>1, <2>2 DEF Waits, Goto, CoreType, LabelType, QuietType, ClockType, DrainCovers, QuietSettled
  <2> QED BY <2>3, <2>4 DEF LeaseInv
<1>4. ASSUME NEW g \in Goals, Takes(g) PROVE LeaseInv'
  <2>1. \A h \in Goals : HoldsLease(h)' <=> h = g
    BY <1>0, <1>4, Holding, Named
       DEF Takes, Goto, CoreType, LabelType, QuietType, ClockType, LeaseExclusive, Owning, Looping, Stopping
  <2>2. LeaseExclusive'
    BY <1>4, <2>1, Named DEF Takes, LeaseExclusive
  <2>3. CoreType' /\ DrainCovers' /\ QuietSettled'
    BY <1>0, <1>4 DEF Takes, Goto, CoreType, LabelType, QuietType, ClockType, DrainCovers, QuietSettled, Labels,
                      Owning, Looping
  <2> QED BY <2>2, <2>3 DEF LeaseInv
<1>5. ASSUME NEW g \in Goals, Loops(g) PROVE LeaseInv'
  <2>1. PICK l \in Looping \cup {"zero", "exited"} : Goto(g, l)
    BY <1>5 DEF Loops
  <2>2. /\ l \in Labels /\ l \in Owning \cup {"exited"} /\ l # "drain"
        /\ pc[g] \in Owning \cup {"exited"}
        /\ pc[g] \notin {"release", "report", "done"}
    BY <1>5, <2>1 DEF Loops, Labels, Owning, Looping, Stopping
  <2>3. LeaseExclusive'
    BY <1>0, <1>5, <2>1, <2>2, SameHolders DEF Loops
  <2>4. LabelType' /\ QuietType'
    BY <1>0, <1>5, <2>1, <2>2 DEF Loops, Goto, LabelType, QuietType
  <2>5. ClockType'
    BY <1>0, <1>5, Deadlines DEF Loops, ClockType
  <2>6. DrainCovers'
    BY <1>0, <1>5, <2>1, <2>2 DEF Loops, Goto, LabelType, ClockType, DrainCovers
  <2>7. QuietSettled'
    BY <1>0, <1>5, <2>1, <2>2 DEF Loops, Goto, LabelType, ClockType, QuietSettled
  <2> QED BY <2>3, <2>4, <2>5, <2>6, <2>7 DEF LeaseInv, CoreType
<1>6. ASSUME NEW g \in Goals, Stops(g) PROVE LeaseInv'
  <2>1. PICK l \in {"stopping", "release"} : Goto(g, l)
    BY <1>6 DEF Stops
  <2>2. l \in Labels /\ l \in Owning \cup {"exited"} /\ pc[g] \in Owning \cup {"exited"}
    BY <1>6, <2>1 DEF Stops, Labels, Owning, Stopping
  <2>3. LeaseExclusive'
    BY <1>0, <1>6, <2>1, <2>2, SameHolders DEF Stops
  <2>4. CoreType' /\ DrainCovers' /\ QuietSettled'
    BY <1>0, <1>6, <2>1, <2>2 DEF Stops, Goto, CoreType, LabelType, QuietType, ClockType, DrainCovers, QuietSettled
  <2> QED BY <2>3, <2>4 DEF LeaseInv
<1>7. ASSUME NEW g \in Goals, Falls(g) PROVE LeaseInv'
  <2>1. /\ "drain" \in Labels /\ "drain" \in Owning \cup {"exited"}
        /\ pc[g] \in Owning \cup {"exited"} /\ Goto(g, "drain")
    BY <1>7 DEF Falls, StopDone, Labels, Owning, Stopping
  <2>2. LeaseExclusive'
    BY <1>0, <1>7, <2>1, SameHolders DEF Falls
  <2>3. LabelType' /\ QuietType'
    BY <1>0, <1>7, <2>1 DEF Falls, StopDone, Goto, LabelType, QuietType
  <2>4. ClockType'
    BY <1>0, <1>7, Deadlines DEF Falls, StopDone, ClockType
  <2>5. DrainCovers'
    BY <1>0, <1>7, <2>1, Deadlines
       DEF Falls, StopDone, Goto, LabelType, ClockType, DrainCovers
  <2>6. QuietSettled'
    BY <1>0, <1>7, <2>1 DEF Falls, StopDone, Goto, LabelType, QuietSettled
  <2> QED BY <2>2, <2>3, <2>4, <2>5, <2>6 DEF LeaseInv, CoreType
<1>8. ASSUME NEW g \in Goals, Settles(g) PROVE LeaseInv'
  <2>1. /\ "release" \in Labels /\ "release" \in Owning \cup {"exited"}
        /\ pc[g] \in Owning \cup {"exited"} /\ Goto(g, "release")
    BY <1>8 DEF Settles, Drained, Labels, Owning, Stopping
  <2>2. LeaseExclusive'
    BY <1>0, <1>8, <2>1, SameHolders DEF Settles
  <2>3. live[g] = 0
    BY <1>0, <1>8, Deadlines DEF Settles, Drained, ClockType, DrainCovers
  <2>4. CoreType' /\ DrainCovers' /\ QuietSettled'
    BY <1>0, <1>8, <2>1, <2>3
       DEF Settles, Drained, Goto, CoreType, LabelType, QuietType, ClockType, DrainCovers, QuietSettled
  <2> QED BY <2>2, <2>4 DEF LeaseInv
<1>9. ASSUME NEW g \in Goals, Yields(g) PROVE LeaseInv'
  <2>1. \A h \in Goals : HoldsLease(h)' <=> HoldsLease(h) /\ h # g
    BY <1>0, <1>9, Holding DEF Yields, Release, Goto, CoreType, LabelType, QuietType, ClockType, Owning, Looping, Stopping
  <2>2. \A h \in Goals : ~HoldsLease(h)'
    BY <1>0, <1>9, <2>1, Holding DEF Yields, Release, LeaseExclusive, Owning, Stopping
  <2>3. LeaseExclusive'
    BY <1>9, <2>2 DEF Yields, Release, LeaseExclusive
  <2>4. CoreType' /\ DrainCovers' /\ QuietSettled'
    BY <1>0, <1>9 DEF Yields, Release, Goto, CoreType, LabelType, QuietType, ClockType, DrainCovers, QuietSettled, Labels
  <2> QED BY <2>3, <2>4 DEF LeaseInv
<1>10. ASSUME NEW g \in Goals, Answers(g) PROVE LeaseInv'
  <2>1. /\ "done" \in Labels /\ "done" \notin Owning \cup {"exited"}
        /\ pc[g] \notin Owning \cup {"exited"} /\ Goto(g, "done")
    BY <1>10 DEF Answers, Report, Labels, Owning, Looping, Stopping
  <2>2. LeaseExclusive'
    BY <1>0, <1>10, <2>1, SameHolders DEF Answers
  <2>3. CoreType' /\ DrainCovers' /\ QuietSettled'
    BY <1>0, <1>10, <2>1
       DEF Answers, Report, Goto, CoreType, LabelType, QuietType, ClockType, DrainCovers, QuietSettled
  <2> QED BY <2>2, <2>3 DEF LeaseInv
<1> QED
  BY <1>0, <1>1, <1>2, <1>3, <1>4, <1>5, <1>6, <1>7, <1>8, <1>9, <1>10, StepKinds
     DEF GoalStep

-----------------------------------------------------------------------------

\* The strengthening of the three properties below is an invariant.
THEOREM LeaseInvariant == Spec => []LeaseInv
<1> QED BY LeaseInit, LeaseStep, PTL DEF Spec

\* At most one goal is between _reserve() and the end of _stop_and_release(),
\* and _active_behavior names it, for any number of goals of the four Actions.
THEOREM OneOwner == Spec => []LeaseExclusive
<1>1. LeaseInv => LeaseExclusive
  BY DEF LeaseInv
<1> QED BY <1>1, LeaseInvariant, PTL

\* quiescence_confirmed is never set while a command of the goal is in force,
\* whatever the deadlines are, because the drain outlasts a command.
THEOREM QuiescenceIsReal == Spec => []QuiescenceReal
<1>1. LeaseInv => QuiescenceReal
  BY DEF LeaseInv, QuietSettled, QuiescenceReal
<1> QED BY <1>1, LeaseInvariant, PTL

-----------------------------------------------------------------------------
(* The server implements MotionLease. *)

\* The status of a goal in MotionLease, label by label.
StatusOf(l) ==
  IF l \in {"idle", "plan", "heartbeat", "reserve"} THEN "waiting"
  ELSE IF l = "rejected" THEN "refused"
  ELSE IF l \in {"report", "done"} THEN "closed"
  ELSE "holding"

\* The abstract status of a goal is a function of its label alone.
LEMMA Status ==
  ASSUME NEW g \in Goals
  PROVE  LeaseStatus(g) = StatusOf(pc[g]) /\ LeaseStatus(g)' = StatusOf(pc'[g])
BY DEF LeaseStatus, StatusOf

\* A step that moves the label of one goal changes no other status or claim.
LEMMA OneMoves ==
  ASSUME CoreType, NEW g \in Goals, NEW l \in Labels, Goto(g, l)
  PROVE  /\ \A h \in Goals : LeaseStatus(h)' = IF h = g THEN StatusOf(l) ELSE LeaseStatus(h)
         /\ LeaseStatus(g) = StatusOf(pc[g])
<1>1. \A h \in Goals : pc'[h] = IF h = g THEN l ELSE pc[h]
  BY DEF CoreType, LabelType, Goto
<1> QED BY <1>1, Status

\* The initial states are initial states of MotionLease: every goal waits.
LEMMA LeaseMapInit == Init => Lease!LeaseInit
<1> SUFFICES ASSUME Init PROVE Lease!LeaseInit
  OBVIOUS
<1>1. \A g \in Goals : pc[g] = "idle" /\ quiet[g] = FALSE /\ live[g] = 0
  BY DEF Init
<1>2. \A g \in Goals : LeaseStatus(g) = "waiting"
  BY <1>1, Status DEF StatusOf
<1>3. \A g \in Goals : (quiet[g] /\ pc[g] \in {"report", "done"}) = FALSE
  BY <1>1
<1>4. \A g \in Goals : (live[g] > 0) = FALSE
  BY <1>1
<1> QED BY <1>2, <1>3, <1>4, Zenon DEF Lease!LeaseInit

\* Every step of the server is a step of MotionLease, or changes nothing there.
LEMMA LeaseMapStep ==
  ASSUME LeaseInv, [Next]_vars
  PROVE  [Lease!LeaseNext]_(Lease!leaseVars)
<1>0. LeaseExclusive /\ QuietSettled /\ CoreType /\ LabelType /\ QuietType /\ ClockType
  BY DEF LeaseInv, CoreType
<1> DEFINE Same == /\ \A h \in Goals : LeaseStatus(h)' = LeaseStatus(h)
                   /\ \A h \in Goals : (quiet[h] /\ pc[h] \in {"report", "done"})' =
                                         (quiet[h] /\ pc[h] \in {"report", "done"})
           Calm == \A h \in Goals : (live[h] > 0)' = (live[h] > 0)
<1>b. [h \in Goals |-> live[h] > 0]' \in [Goals -> BOOLEAN]
  <2>1. \A h \in Goals : (live'[h] > 0) \in BOOLEAN
    OBVIOUS
  <2> QED BY <2>1, Zenon
<1>a. ASSUME Same, Calm PROVE UNCHANGED Lease!leaseVars
  BY <1>a DEF Lease!leaseVars
<1>1. CASE Aside
  <2>1. Same /\ Calm
    BY <1>1, Status DEF Aside
  <2> QED BY <2>1, <1>a
<1>2. CASE Tick
  <2>1. Same
    BY <1>2, Status DEF Tick
  <2>2. \A h \in Goals : (live[h] > 0)' => live[h] > 0
    BY <1>0, <1>2, Deadlines DEF Tick, Less, ClockType
  <2>3. Lease!Subside
    BY <2>1, <2>2, <1>b, Zenon DEF Lease!Subside
  <2> QED BY <2>3 DEF Lease!LeaseNext
<1>3. ASSUME NEW g \in Goals, Waits(g) PROVE [Lease!LeaseNext]_(Lease!leaseVars)
  <2>1. PICK l \in {"plan", "heartbeat", "reserve", "rejected"} : Goto(g, l)
    BY <1>3 DEF Waits
  <2>2. l \in Labels /\ pc[g] \in {"idle", "plan", "heartbeat", "reserve"}
    BY <1>3, <2>1 DEF Waits, Labels
  <2>3. /\ \A h \in Goals : LeaseStatus(h)' = IF h = g THEN StatusOf(l) ELSE LeaseStatus(h)
        /\ LeaseStatus(g) = "waiting"
    BY <1>0, <2>1, <2>2, OneMoves DEF StatusOf
  <2>4. /\ \A h \in Goals : (quiet[h] /\ pc[h] \in {"report", "done"})' =
                            (quiet[h] /\ pc[h] \in {"report", "done"})
        /\ Calm
    BY <1>0, <1>3, <2>1, <2>2 DEF Waits, Goto, LabelType
  <2>5. CASE l = "rejected"
    <3>1. Lease!Refuse(g)
      BY <2>3, <2>4, <2>5 DEF StatusOf, Lease!Refuse
    <3> QED BY <3>1 DEF Lease!LeaseNext
  <2>6. CASE l # "rejected"
    <3>1. Same
      BY <2>3, <2>4, <2>1, <2>6 DEF StatusOf
    <3> QED BY <3>1, <2>4, <1>a
  <2> QED BY <2>5, <2>6
<1>4. ASSUME NEW g \in Goals, Takes(g) PROVE [Lease!LeaseNext]_(Lease!leaseVars)
  <2>1. \A h \in Goals : pc[h] \notin Owning \cup {"exited"}
    BY <1>0, <1>4, Holding, Named DEF Takes, LeaseExclusive
  <2>2. \A h \in Goals : LeaseStatus(h) # "holding"
    BY <1>0, <2>1, Status DEF StatusOf, LabelType, Labels
  <2>3. "begin" \in Labels /\ Goto(g, "begin") /\ pc[g] = "reserve"
    BY <1>4 DEF Takes, Labels, Owning, Looping
  <2>4. /\ \A h \in Goals : LeaseStatus(h)' = IF h = g THEN "holding" ELSE LeaseStatus(h)
        /\ LeaseStatus(g) = "waiting"
    BY <1>0, <2>3, OneMoves DEF StatusOf
  <2>5. /\ \A h \in Goals : (quiet[h] /\ pc[h] \in {"report", "done"})' =
                            (quiet[h] /\ pc[h] \in {"report", "done"})
        /\ Calm
    BY <1>0, <1>4, <2>3 DEF Takes, Goto, LabelType
  <2>6. Lease!Grant(g)
    BY <2>2, <2>4, <2>5 DEF Lease!Grant
  <2> QED BY <2>6 DEF Lease!LeaseNext
<1>5. ASSUME NEW g \in Goals, Loops(g) PROVE [Lease!LeaseNext]_(Lease!leaseVars)
  <2>1. PICK l \in Looping \cup {"zero", "exited"} : Goto(g, l)
    BY <1>5 DEF Loops
  <2>2. /\ l \in Labels /\ StatusOf(l) = "holding" /\ StatusOf(pc[g]) = "holding"
        /\ l \notin {"report", "done"} /\ pc[g] \notin {"report", "done"}
    BY <1>5, <2>1 DEF Loops, Labels, Owning, Looping, Stopping, StatusOf
  <2>3. (\A h \in Goals : LeaseStatus(h)' = LeaseStatus(h)) /\ LeaseStatus(g) = "holding"
    BY <1>0, <2>1, <2>2, OneMoves
  <2>4. \A h \in Goals : (quiet[h] /\ pc[h] \in {"report", "done"})' =
                         (quiet[h] /\ pc[h] \in {"report", "done"})
    BY <1>0, <1>5, <2>1, <2>2 DEF Loops, Goto, LabelType
  <2>5. CASE live' = live
    BY <1>a, <2>3, <2>4, <2>5
  <2>6. CASE live' = [live EXCEPT ![g] = ValidTicks] /\ ValidTicks > 0
    <3>1. \A h \in Goals : (live[h] > 0)' = IF h = g THEN TRUE ELSE live[h] > 0
      BY <1>0, <2>6 DEF ClockType
    <3>2. Lease!Move(g)
      BY <2>3, <2>4, <3>1 DEF Lease!Move
    <3> QED BY <3>2 DEF Lease!LeaseNext
  <2>7. CASE live' = [live EXCEPT ![g] = ValidTicks] /\ ~(ValidTicks > 0)
    <3>1. \A h \in Goals : (live[h] > 0)' => live[h] > 0
      BY <1>0, <2>7 DEF ClockType
    <3>2. Lease!Subside
      BY <2>3, <2>4, <3>1, <1>b, Zenon DEF Lease!Subside
    <3> QED BY <3>2 DEF Lease!LeaseNext
  <2> QED BY <1>5, <2>5, <2>6, <2>7 DEF Loops
<1>6. ASSUME NEW g \in Goals, Stops(g) \/ Falls(g) \/ Settles(g)
      PROVE  [Lease!LeaseNext]_(Lease!leaseVars)
  <2>1. PICK l \in {"stopping", "release", "drain"} : Goto(g, l)
    BY <1>6 DEF Stops, Falls, StopDone, Settles, Drained
  <2>2. /\ pc[g] \in {"zero", "stopping", "drain"} /\ UNCHANGED live
        /\ quiet' = quiet \/ quiet' = [quiet EXCEPT ![g] = TRUE]
    BY <1>6 DEF Stops, Falls, StopDone, Settles, Drained
  <2>3. l \in Labels /\ StatusOf(l) = "holding" /\ StatusOf(pc[g]) = "holding"
    BY <2>1, <2>2 DEF Labels, Owning, Stopping, StatusOf
  <2>4. \A h \in Goals : LeaseStatus(h)' = LeaseStatus(h)
    BY <1>0, <2>1, <2>3, OneMoves
  <2>5. \A h \in Goals : (quiet[h] /\ pc[h] \in {"report", "done"})' =
                         (quiet[h] /\ pc[h] \in {"report", "done"})
    BY <1>0, <2>1, <2>2 DEF Goto, LabelType, QuietType
  <2> QED BY <1>a, <2>2, <2>4, <2>5
<1>7. ASSUME NEW g \in Goals, Yields(g) PROVE [Lease!LeaseNext]_(Lease!leaseVars)
  <2>1. /\ "report" \in Labels /\ Goto(g, "report") /\ pc[g] = "release"
        /\ UNCHANGED <<quiet, live>>
    BY <1>7 DEF Yields, Release, Labels
  <2>2. /\ \A h \in Goals : LeaseStatus(h)' = IF h = g THEN "closed" ELSE LeaseStatus(h)
        /\ LeaseStatus(g) = "holding"
    BY <1>0, <2>1, OneMoves DEF StatusOf
  <2>3. \A h \in Goals : (quiet[h] /\ pc[h] \in {"report", "done"})' =
          IF h = g THEN quiet[g] ELSE quiet[h] /\ pc[h] \in {"report", "done"}
    BY <1>0, <2>1 DEF Goto, LabelType, QuietType
  <2>4. (quiet[g] /\ pc[g] \in {"report", "done"}) = FALSE
    BY <2>1
  <2>5. quiet[g] => ~(live[g] > 0)
    BY <1>0 DEF QuietSettled
  <2>6. Lease!Close(g)
    <3>1. CASE quiet[g] = TRUE
      BY <2>1, <2>2, <2>3, <2>5, <3>1 DEF Lease!Close
    <3>2. CASE quiet[g] = FALSE
      BY <2>1, <2>2, <2>3, <2>4, <3>2 DEF Lease!Close
    <3> QED BY <1>0, <3>1, <3>2 DEF QuietType
  <2> QED BY <2>6 DEF Lease!LeaseNext
<1>8. ASSUME NEW g \in Goals, Answers(g) PROVE [Lease!LeaseNext]_(Lease!leaseVars)
  <2>1. /\ "done" \in Labels /\ Goto(g, "done") /\ pc[g] = "report"
        /\ UNCHANGED <<quiet, live>>
    BY <1>8 DEF Answers, Report, Labels
  <2>2. \A h \in Goals : LeaseStatus(h)' = LeaseStatus(h)
    BY <1>0, <2>1, OneMoves DEF StatusOf
  <2>3. \A h \in Goals : (quiet[h] /\ pc[h] \in {"report", "done"})' =
                         (quiet[h] /\ pc[h] \in {"report", "done"})
    BY <1>0, <2>1 DEF Goto, LabelType, QuietType
  <2> QED BY <1>a, <2>1, <2>2, <2>3
<1> QED
  BY <1>0, <1>1, <1>2, <1>3, <1>4, <1>5, <1>6, <1>7, <1>8, StepKinds DEF GoalStep

\* The server implements MotionLease: whatever happens in its loops, one goal at
\* a time may move the machine and confirmed quiescence is real.
THEOREM ServerKeepsLease == Spec => KeepsLease
<1>1. Init => Lease!LeaseInit
  BY LeaseMapInit
<1>2. LeaseInv /\ [Next]_vars => [Lease!LeaseNext]_(Lease!leaseVars)
  BY LeaseMapStep
<1> QED BY <1>1, <1>2, LeaseInvariant, PTL DEF Spec, KeepsLease, Lease!LeaseSpec

-----------------------------------------------------------------------------
(* destroy_node(): once disarmed the sink moves nothing, and the drain that   *)
(* follows outlasts the last command.                                         *)

Node == <<node, nodeTimer, disarmed>>

\* A motion command leaves only while the sink is armed, and nothing but time
\* and destroy_node() touches the node's own progress.
LEMMA Senders ==
  ASSUME [Next]_vars
  PROVE  \/ Tick
         \/ Destroy /\ UNCHANGED live
         \/ UNCHANGED Node /\ UNCHANGED live
         \/ /\ UNCHANGED Node /\ ~disarmed
            /\ \E g \in Goals : live' = [live EXCEPT ![g] = ValidTicks]
<1> USE DEF stateVars, cacheVars, sinkVars, nodeVars, machine, loopVars, goalVars, Node
<1>1. CASE Input
  <2>1. CASE \E gate \in {"open", "closed", "actuator"} : ReceiveState(gate)
    BY <2>1 DEF ReceiveState
  <2>2. CASE \E s \in 1 .. Latest : OnTip(s)
    BY <2>2 DEF OnTip
  <2>3. CASE \E g \in Follows : OnOperatorHeartbeat(g)
    BY <2>3 DEF OnOperatorHeartbeat
  <2>4. CASE \E g \in Jogs : OnJogHeartbeat(g)
    BY <2>4 DEF OnJogHeartbeat
  <2>5. CASE \E p \in Plans : OnPlannedTrajectory(p)
    BY <2>5 DEF OnPlannedTrajectory
  <2> QED BY <1>1, <2>1, <2>2, <2>3, <2>4, <2>5 DEF Input
<1>2. ASSUME NEW g \in Goals, GoalCallback(g) \/ OnCancel(g) \/ Stop(g)
      PROVE  UNCHANGED Node /\ UNCHANGED live
  <2>1. CASE GoalCallback(g)
    BY <2>1 DEF GoalCallback, GoalArrives, PlanFound, PlanTimeout, HeartbeatFound,
                HeartbeatMissing, Reserve
  <2>2. CASE OnCancel(g)
    BY <2>2 DEF OnCancel
  <2>3. CASE Stop(g)
    BY <2>3 DEF Stop, StopZero, StopFails, StopDone, Drained, Release, Report, Others
  <2> QED BY <1>2, <2>1, <2>2, <2>3
<1>3. ASSUME NEW g \in Goals, Loop(g), ~EmitAllowed(g)
      PROVE  UNCHANGED Node /\ UNCHANGED live
  <2>1. Others \/ EmitDenied(g) \/ EmitRaises(g)
    BY <1>3 DEF Loop, Begin, LoopExits, Cancelled, SupervisionLost, Raise, FixedStart,
                FixedStartRefused, FixedFirst, LoopTop, NewState, NoNewState, TipMissing,
                TipFound, Decide, JogTurn
  <2> QED BY <2>1 DEF Others, EmitDenied, EmitRaises
<1>4. ASSUME NEW g \in Goals, EmitAllowed(g)
      PROVE  \/ UNCHANGED Node /\ UNCHANGED live
             \/ /\ UNCHANGED Node /\ ~disarmed
                /\ live' = [live EXCEPT ![g] = ValidTicks]
  <2>1. UNCHANGED Node /\ ~disarmed
    BY <1>4 DEF EmitAllowed, SinkAllows
  <2>2. live' = live \/ live' = [live EXCEPT ![g] = ValidTicks]
    BY <1>4 DEF EmitAllowed
  <2> QED BY <2>1, <2>2
<1>5. CASE JournalFails \/ ContextDown
  BY <1>5 DEF JournalFails, ContextDown, KeepServer
<1>6. CASE Destroy
  BY <1>6 DEF Destroy, DestroyBegin, DestroyDisarm, DestroyRaises, DestroyZeroed,
              DestroyDrained, DestroyEnd, KeepServer
<1>7. CASE UNCHANGED vars
  BY <1>7 DEF vars
<1> QED BY <1>1, <1>2, <1>3, <1>4, <1>5, <1>6, <1>7 DEF Next

\* No motion command leaves after disarm(), whoever is still in a loop.
THEOREM Disarmed == Spec => DisarmIsFinal
<1>1. CoreType /\ [Next]_vars => [disarmed => \A g \in Goals : live'[g] <= live[g]]_vars
  <2> SUFFICES ASSUME CoreType, [Next]_vars, disarmed, NEW g \in Goals
               PROVE  live'[g] <= live[g]
    OBVIOUS
  <2>1. ClockType
    BY DEF CoreType
  <2>2. CASE Tick
    BY <2>1, <2>2, Deadlines DEF Tick, Less, ClockType
  <2>3. CASE UNCHANGED live
    BY <2>1, <2>3, Deadlines DEF ClockType
  <2> QED BY <2>2, <2>3, Senders
<1>2. LeaseInv => CoreType
  BY DEF LeaseInv
<1> QED BY <1>1, <1>2, LeaseInvariant, PTL DEF Spec, DisarmIsFinal

\* The inductive invariant of the exit sequence.
ExitInv ==
  /\ node \in {"zeroing", "draining", "quiet"} => disarmed = TRUE
  /\ node = "draining" => nodeTimer \in Nat /\ \A g \in Goals : live[g] <= nodeTimer
  /\ node = "quiet" => \A g \in Goals : live[g] = 0

\* Every step keeps what destroy_node() relies on: nothing sends once the sink is
\* disarmed, and its drain lasts until the last command is void.
LEMMA ExitStep == ExitInv /\ CoreType /\ [Next]_vars => ExitInv'
<1> SUFFICES ASSUME ExitInv, ClockType, [Next]_vars PROVE ExitInv'
  BY DEF CoreType
<1> USE DEF Node
<1>1. CASE Tick
  <2>1. UNCHANGED <<node, disarmed>>
    BY <1>1 DEF Tick, sinkVars
  <2>2. \A g \in Goals : live'[g] = Less(live[g])
    BY <1>1 DEF Tick
  <2>3. nodeTimer' = Less(nodeTimer)
    BY <1>1 DEF Tick
  <2>4. node' = "draining" => nodeTimer' \in Nat /\ \A g \in Goals : live'[g] <= nodeTimer'
    BY <2>1, <2>2, <2>3, Deadlines DEF ExitInv, ClockType, Less
  <2>5. node' = "quiet" => \A g \in Goals : live'[g] = 0
    BY <2>1, <2>2 DEF ExitInv, Less
  <2> QED BY <2>1, <2>4, <2>5 DEF ExitInv
<1>2. CASE Destroy /\ UNCHANGED live
  <2>1. CASE DestroyBegin \/ DestroyRaises \/ DestroyEnd
    BY <2>1 DEF DestroyBegin, DestroyRaises, DestroyEnd, NodeStep, ExitInv
  <2>2. CASE DestroyDisarm
    BY <2>2 DEF DestroyDisarm, NodeStep, ExitInv
  <2>3. CASE DestroyZeroed
    <3>1. node = "zeroing" /\ node' = "draining" /\ nodeTimer' = DrainTicks /\ UNCHANGED disarmed
      BY <2>3 DEF DestroyZeroed, NodeStep
    <3>2. \A g \in Goals : live'[g] <= DrainTicks
      BY <1>2, Deadlines DEF ClockType
    <3> QED BY <3>1, <3>2, Deadlines DEF ExitInv
  <2>4. CASE DestroyDrained
    <3>1. node = "draining" /\ node' = "quiet" /\ nodeTimer = 0 /\ UNCHANGED disarmed
      BY <2>4 DEF DestroyDrained, NodeStep
    <3>2. \A g \in Goals : live'[g] = 0
      BY <1>2, <3>1, Deadlines DEF ExitInv, ClockType
    <3> QED BY <3>1, <3>2 DEF ExitInv
  <2> QED BY <1>2, <2>1, <2>2, <2>3, <2>4 DEF Destroy
<1>3. CASE UNCHANGED Node /\ UNCHANGED live
  BY <1>3 DEF ExitInv
<1>4. CASE UNCHANGED Node /\ ~disarmed
  BY <1>4 DEF ExitInv
<1> QED BY <1>1, <1>2, <1>3, <1>4, Senders

\* When destroy_node() has drained without an error the machine is at rest.
THEOREM ExitIsQuiet == Spec => []ExitQuiet
<1>1. Init => ExitInv
  BY DEF Init, ExitInv
<1>2. LeaseInv => CoreType
  BY DEF LeaseInv
<1>3. ExitInv => ExitQuiet
  BY DEF ExitInv, ExitQuiet
<1> QED BY <1>1, <1>2, <1>3, ExitStep, LeaseInvariant, PTL DEF Spec

-----------------------------------------------------------------------------
(* One publication, one Follow goal: a goal past its plan has taken a         *)
(* publication out of those that are remembered.                              *)

PastPlan == Owning \cup {"heartbeat", "reserve", "report", "done"}
Admitted == {g \in Follows : pc[g] \in PastPlan}

PlanInv ==
  /\ planned \in Seq(Plans) /\ published \in Nat /\ IsFiniteSet(Admitted)
  /\ Cardinality(Admitted) + Len(planned) <= published

\* A goal that moves to a place past its plan was past it before.
LEMMA NoneAdmitted ==
  ASSUME CoreType, NEW g \in Goals, NEW l \in Labels, Goto(g, l),
         g \in Follows /\ l \in PastPlan => pc[g] \in PastPlan
  PROVE  Admitted' \subseteq Admitted
<1>1. \A h \in Goals : pc'[h] = IF h = g THEN l ELSE pc[h]
  BY DEF CoreType, LabelType, Goto
<1> QED BY <1>1 DEF Admitted, Goals

\* A step takes a publication in, takes one out for a goal, or admits nobody.
LEMMA PlanKinds ==
  ASSUME CoreType, [Next]_vars
  PROVE  \/ UNCHANGED <<planned, published>> /\ Admitted' \subseteq Admitted
         \/ UNCHANGED pc /\ \E p \in Plans : OnPlannedTrajectory(p)
         \/ \E g \in Goals : PlanFound(g)
<1> USE DEF stateVars, cacheVars, sinkVars, nodeVars, machine, loopVars, goalVars
<1> DEFINE Kept == UNCHANGED <<planned, published>>
<1>1. UNCHANGED pc => Admitted' = Admitted
  BY DEF Admitted
<1>2. CASE Input
  <2>1. ASSUME NEW gate \in {"open", "closed", "actuator"}, ReceiveState(gate) PROVE Kept /\ UNCHANGED pc
    BY <2>1 DEF ReceiveState
  <2>2. ASSUME NEW s \in 1 .. Latest, OnTip(s) PROVE Kept /\ UNCHANGED pc
    BY <2>2 DEF OnTip
  <2>3. ASSUME NEW g \in Follows, OnOperatorHeartbeat(g) PROVE Kept /\ UNCHANGED pc
    BY <2>3 DEF OnOperatorHeartbeat
  <2>4. ASSUME NEW g \in Jogs, OnJogHeartbeat(g) PROVE Kept /\ UNCHANGED pc
    BY <2>4 DEF OnJogHeartbeat
  <2>5. ASSUME NEW p \in Plans, OnPlannedTrajectory(p) PROVE UNCHANGED pc
    BY <2>5 DEF OnPlannedTrajectory
  <2> QED BY <1>1, <1>2, <2>1, <2>2, <2>3, <2>4, <2>5 DEF Input
<1>3. ASSUME NEW g \in Goals, GoalCallback(g), ~PlanFound(g) PROVE Kept /\ Admitted' \subseteq Admitted
  <2>1. CASE GoalArrives(g)
    <3>1. PICK l \in {"plan", "heartbeat", "reserve", "rejected"} :
            Goto(g, l) /\ (g \in Follows => l \in {"plan", "rejected"})
      BY <2>1, LiveAssumption DEF GoalArrives, Reject, Fixeds
    <3>2. l \in Labels /\ (g \in Follows => l \notin PastPlan)
      BY <3>1 DEF Labels, PastPlan, Owning, Looping, Stopping
    <3> QED BY <2>1, <3>1, <3>2, NoneAdmitted DEF GoalArrives
  <2>2. CASE PlanTimeout(g) \/ HeartbeatFound(g) \/ HeartbeatMissing(g) \/ Reserve(g)
    <3>1. PICK l \in {"reserve", "rejected", "begin"} : Goto(g, l)
      BY <2>2 DEF PlanTimeout, HeartbeatFound, HeartbeatMissing, Reserve, Reject
    <3>2. pc[g] = "plan" => Goto(g, "rejected")
      BY <2>2 DEF PlanTimeout, HeartbeatFound, HeartbeatMissing, Reserve, Reject
    <3>3. pc[g] \in {"plan", "heartbeat", "reserve"} /\ Kept
      BY <2>2 DEF PlanTimeout, HeartbeatFound, HeartbeatMissing, Reserve
    <3>4. CASE pc[g] = "plan"
      BY <3>2, <3>3, <3>4, NoneAdmitted DEF Labels, PastPlan, Owning, Looping, Stopping
    <3>5. CASE pc[g] # "plan"
      BY <3>1, <3>3, <3>5, NoneAdmitted DEF Labels, PastPlan, Owning, Looping, Stopping
    <3> QED BY <3>4, <3>5
  <2> QED BY <1>3, <2>1, <2>2 DEF GoalCallback
<1>4. ASSUME NEW g \in Goals, OnCancel(g) PROVE Kept /\ UNCHANGED pc
  BY <1>4 DEF OnCancel
<1>5. ASSUME NEW g \in Goals, Loop(g) PROVE Kept /\ Admitted' \subseteq Admitted
  <2>1. Kept
    BY <1>5 DEF Loop, Begin, LoopExits, Cancelled, SupervisionLost, Raise, FixedStart,
                FixedStartRefused, FixedFirst, LoopTop, NewState, NoNewState, TipMissing,
                TipFound, Decide, JogTurn, EmitAllowed, EmitDenied, EmitRaises, Others
  <2>2. Loops(g)
    BY <1>5, LoopKinds
  <2>3. PICK l \in Looping \cup {"zero", "exited"} : Goto(g, l)
    BY <2>2 DEF Loops
  <2>4. pc[g] \in PastPlan /\ l \in Labels
    BY <2>2, <2>3 DEF Loops, PastPlan, Labels, Owning, Stopping
  <2> QED BY <2>1, <2>3, <2>4, NoneAdmitted
<1>6. ASSUME NEW g \in Goals, Stop(g) PROVE Kept /\ Admitted' \subseteq Admitted
  <2>1. Kept /\ pc[g] \in {"zero", "stopping", "drain", "release", "report"}
    BY <1>6 DEF Stop, StopZero, StopFails, StopDone, Drained, Release, Report, Others
  <2>2. PICK l \in {"stopping", "release", "drain", "report", "done"} : Goto(g, l)
    BY <1>6 DEF Stop, StopZero, StopFails, StopDone, Drained, Release, Report
  <2>3. pc[g] \in PastPlan /\ l \in Labels
    BY <2>1, <2>2 DEF PastPlan, Labels, Owning, Stopping
  <2> QED BY <2>1, <2>2, <2>3, NoneAdmitted
<1>7. CASE JournalFails \/ ContextDown \/ Destroy \/ Tick
  <2>1. Kept /\ UNCHANGED pc
    BY <1>7 DEF JournalFails, ContextDown, Destroy, DestroyBegin, DestroyDisarm, DestroyRaises,
                DestroyZeroed, DestroyDrained, DestroyEnd, KeepServer, Tick
  <2> QED BY <1>1, <2>1
<1>8. CASE UNCHANGED vars
  BY <1>1, <1>8 DEF vars
<1> QED BY <1>1, <1>2, <1>3, <1>4, <1>5, <1>6, <1>7, <1>8 DEF Next, GoalCallback

\* The publications that are remembered and the goals that took one.
LEMMA PlanStep == PlanInv /\ CoreType /\ [Next]_vars => PlanInv'
<1> SUFFICES ASSUME PlanInv, CoreType, [Next]_vars PROVE PlanInv'
  OBVIOUS
<1>0. planned \in Seq(Plans) /\ published \in Nat /\ IsFiniteSet(Admitted)
      /\ Cardinality(Admitted) \in Nat /\ Len(planned) \in Nat
      /\ Cardinality(Admitted) + Len(planned) <= published
  BY FS_CardinalityType, LenProperties DEF PlanInv
<1>1. CASE UNCHANGED <<planned, published>> /\ Admitted' \subseteq Admitted
  <2>1. IsFiniteSet(Admitted') /\ Cardinality(Admitted') <= Cardinality(Admitted)
    BY <1>0, <1>1, FS_Subset
  <2>2. Cardinality(Admitted') \in Nat
    BY <2>1, FS_CardinalityType
  <2> QED BY <1>0, <1>1, <2>1, <2>2 DEF PlanInv
<1>2. ASSUME UNCHANGED pc, NEW p \in Plans, OnPlannedTrajectory(p) PROVE PlanInv'
  <2>1. Admitted' = Admitted /\ published' = published + 1
    BY <1>2 DEF Admitted, OnPlannedTrajectory
  <2>2. planned' \in Seq(Plans) /\ Len(planned') <= Len(planned) + 1
    <3> DEFINE kept == IF Len(planned) < PlanCap THEN planned ELSE Tail(planned)
               at   == {i \in DOMAIN kept : kept[i].digest = p.digest}
    <3>1. planned' = IF at = {} THEN Append(kept, p)
                     ELSE [i \in DOMAIN kept |-> IF i \in at THEN p ELSE kept[i]]
      BY <1>2 DEF OnPlannedTrajectory
    <3>2. kept \in Seq(Plans) /\ Len(kept) \in Nat /\ Len(kept) <= Len(planned)
      <4>1. CASE Len(planned) < PlanCap
        BY <1>0, <4>1
      <4>2. CASE ~(Len(planned) < PlanCap)
        <5>1. planned # << >>
          BY <4>2, LiveAssumption, EmptySeq
        <5> QED BY <1>0, <4>2, <5>1, HeadTailProperties
      <4> QED BY <4>1, <4>2
    <3> HIDE DEF kept
    <3>3. Append(kept, p) \in Seq(Plans) /\ Len(Append(kept, p)) = Len(kept) + 1
      BY <3>2, AppendProperties
    <3>4. /\ [i \in DOMAIN kept |-> IF i \in at THEN p ELSE kept[i]] \in Seq(Plans)
          /\ Len([i \in DOMAIN kept |-> IF i \in at THEN p ELSE kept[i]]) = Len(kept)
      BY <3>2, LenProperties
    <3> HIDE DEF at
    <3> QED BY <1>0, <3>1, <3>2, <3>3, <3>4
  <2>3. Len(planned') \in Nat
    BY <2>2, LenProperties
  <2> QED BY <1>0, <2>1, <2>2, <2>3 DEF PlanInv
<1>3. ASSUME NEW g \in Goals, PlanFound(g) PROVE PlanInv'
  <2>1. PICK i \in DOMAIN planned :
          /\ planned' = [j \in 1 .. Len(planned) - 1 |-> planned[IF j < i THEN j ELSE j + 1]]
          /\ Goto(g, "heartbeat") \/ Goto(g, "rejected")
          /\ UNCHANGED published
    BY <1>3 DEF PlanFound, Reject
  <2>2. planned' \in Seq(Plans) /\ Len(planned') = Len(planned) - 1 /\ Len(planned) - 1 \in Nat
    <3>1. i \in 1 .. Len(planned)
      BY <1>0, <2>1, LenProperties
    <3>2. Len(planned) - 1 \in Nat /\ \A j \in 1 .. Len(planned) - 1 : planned[IF j < i THEN j ELSE j + 1] \in Plans
      BY <1>0, <3>1, ElementOfSeq
    <3> QED BY <2>1, <3>2
  <2>3. Admitted' \subseteq Admitted \cup {g}
    BY <2>1 DEF CoreType, LabelType, Goto, Admitted, Goals
  <2>4. /\ IsFiniteSet(Admitted \cup {g})
        /\ Cardinality(Admitted \cup {g}) <= Cardinality(Admitted) + 1
        /\ Cardinality(Admitted \cup {g}) \in Nat
    <3>1. IsFiniteSet(Admitted \cup {g})
      BY <1>0, FS_AddElement
    <3>2. Cardinality(Admitted \cup {g}) = IF g \in Admitted THEN Cardinality(Admitted) ELSE Cardinality(Admitted) + 1
      BY <1>0, FS_AddElement
    <3> QED BY <1>0, <3>1, <3>2
  <2>5. /\ IsFiniteSet(Admitted') /\ Cardinality(Admitted') <= Cardinality(Admitted \cup {g})
    BY <2>3, <2>4, FS_Subset
  <2>6. Cardinality(Admitted') \in Nat
    BY <2>5, FS_CardinalityType
  <2> QED BY <1>0, <2>1, <2>2, <2>4, <2>5, <2>6 DEF PlanInv
<1> QED BY <1>1, <1>2, <1>3, PlanKinds

\* No more Follow goals get past their plan than trajectories were published, whatever
\* digests and trajectory_ids they share, and however many publications are forgotten.
THEOREM OncePerPlan == Spec => []PlanUsedOnce
<1>1. Init => PlanInv
  <2> SUFFICES ASSUME Init PROVE PlanInv
    OBVIOUS
  <2>1. Admitted = {}
    BY DEF Init, Admitted, PastPlan, Owning, Looping, Stopping, Goals
  <2>2. IsFiniteSet({}) /\ Cardinality({}) = 0
    BY FS_EmptySet
  <2>3. planned = << >> /\ published = 0 /\ << >> \in Seq(Plans) /\ Len(<< >>) = 0
    BY EmptySeq DEF Init
  <2> QED BY <2>1, <2>2, <2>3 DEF PlanInv
<1>2. PlanInv => PlanUsedOnce
  <2> SUFFICES ASSUME PlanInv PROVE PlanUsedOnce
    OBVIOUS
  <2>1. Admitted = {g \in Follows : Owner(g) \/ pc[g] \in {"heartbeat", "reserve", "report", "done"}}
    BY DEF Admitted, PastPlan, Owner
  <2>2. Cardinality(Admitted) \in Nat /\ Len(planned) \in Nat
    BY FS_CardinalityType, LenProperties DEF PlanInv
  <2> QED BY <2>1, <2>2 DEF PlanInv, PlanUsedOnce
<1>3. LeaseInv => CoreType
  BY DEF LeaseInv
<1> QED BY <1>1, <1>2, <1>3, PlanStep, LeaseInvariant, PTL DEF Spec

-----------------------------------------------------------------------------
(* Motion on the strength of an old state.  While the node is up, the waits   *)
(* of the owner's loop return the newest state: one command may still be      *)
(* under way when it comes.  Once the node is going down there is no next     *)
(* turn of a loop, only what is left of the one it is in.                     *)

Late(g) == pc[g] \in {"tip", "decide", "emit"}

BlindInv ==
  /\ gates \in Seq({"open", "closed", "actuator"}) /\ last \in [Goals -> Nat] /\ blind \in Nat
  /\ \A g \in Goals : pc[g] \in Looping =>
       Len(gates) >= 1 /\ (pc[g] # "begin" => last[g] \in 1 .. Len(gates))
  /\ node # "up" => ~context
  /\ blind > 0 => Len(gates) >= 1 /\ gates[Len(gates)] # "open"
  /\ node = "up" /\ blind > 0 =>
       /\ blind = 1
       /\ \A g \in Goals : pc[g] \notin {"begin", "start", "first"} /\ (Late(g) => gates[last[g]] # "open")
  /\ node # "up" =>
       /\ blind <= 2
       /\ (\E g \in Goals : pc[g] = "wait" \/ Late(g)) => blind <= 1

\* What a goal must not do on its way for the invariant to be kept.
LEMMA BlindMoves ==
  ASSUME BlindInv, CoreType, NEW g \in Goals, NEW l \in Labels, Goto(g, l),
         UNCHANGED <<gates, blind, node, context>>,
         last' \in [Goals -> Nat], \A h \in Goals : h # g => last'[h] = last[h],
         l \in Looping => Len(gates) >= 1 /\ (l # "begin" => last'[g] \in 1 .. Len(gates)),
         node = "up" /\ blind > 0 =>
           l \notin {"begin", "start", "first"} /\ (l \in {"tip", "decide", "emit"} => gates[last'[g]] # "open"),
         node # "up" /\ l \in {"wait", "tip", "decide", "emit"} => blind <= 1
  PROVE  BlindInv'
<1>1. \A h \in Goals : pc'[h] = IF h = g THEN l ELSE pc[h]
  BY DEF CoreType, LabelType, Goto
<1>2. \A h \in Goals : pc'[h] \in Looping =>
        Len(gates') >= 1 /\ (pc'[h] # "begin" => last'[h] \in 1 .. Len(gates'))
  BY <1>1 DEF BlindInv
<1>3. node' = "up" /\ blind' > 0 =>
        \A h \in Goals : pc'[h] \notin {"begin", "start", "first"} /\ (Late(h)' => gates'[last'[h]] # "open")
  BY <1>1 DEF BlindInv, Late
<1>4. node' # "up" /\ (\E h \in Goals : pc'[h] = "wait" \/ Late(h)') => blind' <= 1
  BY <1>1 DEF BlindInv, Late
<1> QED BY <1>2, <1>3, <1>4 DEF BlindInv

\* The loop is left: its state counts no more.
LEMMA BlindLeaves ==
  ASSUME BlindInv, CoreType, NEW g \in Goals, NEW l \in Labels \ Looping, Goto(g, l),
         UNCHANGED <<gates, blind, node, context>>,
         last' = last \/ last' = [last EXCEPT ![g] = 0]
  PROVE  BlindInv'
<1>1. last' \in [Goals -> Nat] /\ \A h \in Goals : h # g => last'[h] = last[h]
  BY DEF BlindInv
<1>2. l \notin {"begin", "start", "first", "tip", "decide", "emit", "wait"}
  BY DEF Looping
<1> QED BY <1>1, <1>2, BlindMoves

\* The same of _finish_*().
LEMMA BlindFinish ==
  ASSUME BlindInv, CoreType, NEW g \in Goals, NEW outcome, Finish(g, outcome),
         UNCHANGED <<gates, blind, node, context>>
  PROVE  BlindInv'
<1>1. "zero" \in Labels \ Looping
  BY DEF Labels, Owning, Looping, Stopping
<1>2. Goto(g, "zero") /\ last' = [last EXCEPT ![g] = 0]
  BY DEF Finish, ForgetLoop
<1> QED BY <1>1, <1>2, BlindLeaves

\* A command is computed from a state that allows it, or the last one before the end.
LEMMA BlindHandOver ==
  ASSUME BlindInv, CoreType, NEW g \in Goals, NEW s \in 1 .. Len(gates), NEW what, NEW outcome,
         SendMotion(g, s, what, outcome), UNCHANGED <<gates, blind, node, context>>,
         node = "up" /\ blind > 0 => gates[s] # "open",
         node # "up" => blind <= 1
  PROVE  BlindInv'
<1>1. CASE gates[s] = "actuator"
  BY <1>1, BlindFinish DEF SendMotion
<1>2. CASE gates[s] # "actuator"
  <2>1. Goto(g, "emit") /\ last' = [last EXCEPT ![g] = s] /\ "emit" \in Labels
    BY <1>2 DEF SendMotion, Labels, Owning, Looping
  <2>2. /\ last' \in [Goals -> Nat] /\ last'[g] = s /\ \A h \in Goals : h # g => last'[h] = last[h]
        /\ Len(gates) \in Nat /\ Len(gates) >= 1
    BY <2>1, LenProperties DEF BlindInv
  <2> QED BY <2>1, <2>2, BlindMoves
<1> QED BY <1>1, <1>2

\* A step of a goal that sends nothing.
LEMMA BlindLoop ==
  ASSUME BlindInv, CoreType, NEW g \in Goals, Loop(g), ~EmitAllowed(g)
  PROVE  BlindInv'
<1> USE DEF stateVars, cacheVars, sinkVars, nodeVars, machine, loopVars, goalVars, Others, KeepGoal
<1>0. /\ Len(gates) \in Nat
      /\ \A l \in Looping \cup {"zero", "exited"} : l \in Labels
      /\ pc[g] \in Looping => Len(gates) >= 1 /\ (pc[g] # "begin" => last[g] \in 1 .. Len(gates))
      /\ last \in [Goals -> Nat]
      /\ node # "up" => ~context /\ (pc[g] = "wait" \/ Late(g) => blind <= 1)
      /\ node = "up" /\ blind > 0 =>
           /\ gates[Len(gates)] # "open"
           /\ pc[g] \notin {"begin", "start", "first"} /\ (Late(g) => gates[last[g]] # "open")
  BY LenProperties DEF BlindInv, Labels, Owning, Stopping
<1>1. CASE Begin(g)
  <2>1. pc[g] = "begin" /\ last' = [last EXCEPT ![g] = Len(gates)] /\ UNCHANGED <<gates, blind, node, context>>
    BY <1>1 DEF Begin, Latest
  <2>2. PICK l \in {"start", "top"} : Goto(g, l)
    BY <1>1 DEF Begin
  <2>3. last' \in [Goals -> Nat] /\ last'[g] = Len(gates) /\ \A h \in Goals : h # g => last'[h] = last[h]
    BY <1>0, <2>1
  <2>4. pc[g] \in Looping /\ l \in Looping
    BY <2>1, <2>2 DEF Looping
  <2> QED BY <1>0, <2>1, <2>2, <2>3, <2>4, BlindMoves
<1>2. CASE LoopExits(g)
  <2>1. Goto(g, "exited") /\ last' = [last EXCEPT ![g] = 0] /\ UNCHANGED <<gates, blind, node, context>>
    BY <1>2 DEF LoopExits, ForgetLoop
  <2>2. "exited" \in Labels \ Looping
    BY DEF Labels, Looping
  <2> QED BY <2>1, <2>2, BlindLeaves
<1>3. CASE Cancelled(g) \/ SupervisionLost(g) \/ Raise(g) \/ FixedStartRefused(g)
             \/ TipMissing(g) \/ EmitDenied(g) \/ EmitRaises(g)
  <2>1. PICK outcome : Finish(g, outcome)
    BY <1>3 DEF Cancelled, SupervisionLost, Raise, FixedStartRefused, TipMissing,
                EmitDenied, EmitRaises
  <2>2. UNCHANGED <<gates, blind, node, context>>
    BY <1>3 DEF Cancelled, SupervisionLost, Raise, FixedStartRefused, TipMissing,
                EmitDenied, EmitRaises
  <2> QED BY <2>1, <2>2, BlindFinish
\* The goal keeps its state, and goes where a new command is not yet decided on.
<1>4. ASSUME NEW l \in {"first", "wait", "top", "decide"}, Goto(g, l), pc[g] \in Looping, pc[g] # "begin",
             UNCHANGED <<gates, last, blind, node, context>>,
             l = "first" => pc[g] = "start", l = "wait" => context, l = "decide" => pc[g] = "tip"
      PROVE  BlindInv'
  <2>1. l \in Looping /\ l \in Labels
    BY <1>0 DEF Looping
  <2> QED BY <1>0, <1>4, <2>1, BlindMoves DEF Late
<1>5. CASE FixedStart(g) \/ LoopTop(g)
  BY <1>4, <1>5 DEF FixedStart, LoopTop, Looping
<1>6. ASSUME NEW s \in 1 .. Len(gates), FixedStep(g, s), UNCHANGED <<gates, blind, node, context>>,
             node = "up" /\ blind > 0 => gates[s] # "open", node # "up" => blind <= 1
      PROVE  BlindInv'
  BY <1>6, BlindHandOver DEF FixedStep
<1>7. CASE FixedFirst(g)
  <2>1. pc[g] = "first" /\ context /\ FixedStep(g, last[g]) /\ UNCHANGED <<gates, blind, node, context>>
    BY <1>7 DEF FixedFirst
  <2>2. last[g] \in 1 .. Len(gates) /\ node = "up" /\ ~(blind > 0)
    BY <1>0, <2>1 DEF Looping
  <2> QED BY <1>6, <2>1, <2>2
<1>8. CASE NewState(g)
  <2>1. pc[g] = "wait" /\ node = "up" /\ UNCHANGED <<gates, blind, node, context>>
    BY <1>8 DEF NewState
  <2>2. Len(gates) \in 1 .. Len(gates)
    BY <1>0, <2>1 DEF Looping
  <2>3. CASE g \in Fixeds
    <3>1. FixedStep(g, Len(gates))
      BY <1>8, <2>3 DEF NewState, Latest
    <3> QED BY <1>0, <1>6, <2>1, <2>2, <3>1
  <2>4. CASE g \notin Fixeds
    <3>1. Goto(g, "tip") /\ last' = [last EXCEPT ![g] = Len(gates)]
      BY <1>8, <2>4 DEF NewState, Latest
    <3>2. last' \in [Goals -> Nat] /\ last'[g] = Len(gates) /\ \A h \in Goals : h # g => last'[h] = last[h]
      BY <1>0, <3>1
    <3>3. "tip" \in Looping /\ "tip" \in Labels
      BY <1>0 DEF Looping
    <3> QED BY <1>0, <2>1, <2>2, <3>1, <3>2, <3>3, BlindMoves
  <2> QED BY <2>3, <2>4
<1>9. CASE NoNewState(g)
  <2>1. pc[g] = "wait" /\ (Len(gates) = last[g] \/ node # "up") /\ UNCHANGED <<gates, blind, node, context>>
        /\ pc[g] \in Looping
    BY <1>9 DEF NoNewState, Latest, Looping
  <2>2. CASE Finish(g, "failed")
    BY <2>1, <2>2, BlindFinish
  <2>3. CASE Goto(g, "top") /\ KeepGoal
    BY <1>4, <2>1, <2>3
  <2>4. CASE SendMotion(g, last[g], pend[g], "")
    <3>1. last[g] \in 1 .. Len(gates) /\ (node = "up" /\ blind > 0 => gates[last[g]] # "open")
      BY <1>0, <2>1
    <3> QED BY <1>0, <2>1, <2>4, <3>1, BlindHandOver
  <2> QED BY <1>9, <2>2, <2>3, <2>4 DEF NoNewState
<1>10. CASE TipFound(g)
  <2>1. pc[g] = "tip" /\ UNCHANGED <<gates, blind, node, context>> /\ pc[g] \in Looping
    BY <1>10 DEF TipFound, Looping
  <2>2. ASSUME NEW outcome, Finish(g, outcome) PROVE BlindInv'
    BY <2>1, <2>2, BlindFinish
  <2>3. CASE Goto(g, "top") /\ KeepGoal
    BY <1>4, <2>1, <2>3
  <2>4. CASE Goto(g, "decide") /\ UNCHANGED last
    BY <1>4, <2>1, <2>4
  <2> QED BY <1>10, <2>2, <2>3, <2>4 DEF TipFound
<1>11. CASE Decide(g)
  <2>1. pc[g] = "decide" /\ SendMotion(g, last[g], "motion", "") /\ UNCHANGED <<gates, blind, node, context>>
        /\ pc[g] \in Looping
    BY <1>11 DEF Decide, Looping
  <2> QED BY <1>0, <2>1, BlindHandOver DEF Late
<1>12. CASE JogTurn(g)
  <2>1. pc[g] = "top" /\ context /\ UNCHANGED <<gates, blind, node, context>> /\ pc[g] \in Looping
    BY <1>12 DEF JogTurn, Looping
  <2>2. ASSUME NEW outcome, Finish(g, outcome) PROVE BlindInv'
    BY <2>1, <2>2, BlindFinish
  <2>3. CASE SendMotion(g, Len(gates), "motion", "")
    <3>1. Len(gates) \in 1 .. Len(gates) /\ node = "up"
      BY <1>0, <2>1
    <3> QED BY <1>0, <2>1, <2>3, <3>1, BlindHandOver
  <2> QED BY <1>12, <2>2, <2>3 DEF JogTurn, Latest
<1> QED BY <1>1, <1>2, <1>3, <1>5, <1>7, <1>8, <1>9, <1>10, <1>11, <1>12 DEF Loop

\* A command leaves.  Nobody else is in a loop, and this goal will look at the newest
\* state before it sends another one.
LEMMA BlindEmits ==
  ASSUME BlindInv, CoreType, LeaseExclusive, NEW g \in Goals, EmitAllowed(g)
  PROVE  BlindInv'
<1> USE DEF stateVars, nodeVars
<1>1. /\ pc[g] = "emit" /\ gates[last[g]] = "open"
      /\ UNCHANGED <<gates, node, context>>
      /\ blind' = blind \/ blind' = IF gates[Len(gates)] = "open" THEN blind ELSE blind + 1
  BY DEF EmitAllowed, SinkAllows, Latest, machine
<1>2. PICK l \in {"top", "zero"} : Goto(g, l) /\ (l = "top" => UNCHANGED last)
  BY DEF EmitAllowed, Finish
<1>3. last' = last \/ last' = [last EXCEPT ![g] = 0]
  BY DEF EmitAllowed, Finish, ForgetLoop
<1>4. \A h \in Goals : pc'[h] = IF h = g THEN l ELSE pc[h]
  BY <1>2 DEF CoreType, LabelType, Goto
<1>5. \A h \in Goals : h # g => pc[h] \notin Looping
  BY <1>1 DEF LeaseExclusive, HoldsLease, Owner, Owning, Looping
<1>6. \A h \in Goals : ~(pc'[h] \in {"wait", "tip", "decide", "emit", "begin", "start", "first"})
  BY <1>2, <1>4, <1>5 DEF Looping
<1>7. pc[g] \in Looping /\ Late(g) /\ last' \in [Goals -> Nat] /\ \A h \in Goals : h # g => last'[h] = last[h]
  BY <1>1, <1>3 DEF Looping, Late, BlindInv
<1>8. \A h \in Goals : pc'[h] \in Looping =>
        Len(gates') >= 1 /\ (pc'[h] # "begin" => last'[h] \in 1 .. Len(gates'))
  BY <1>1, <1>2, <1>4, <1>5, <1>7 DEF BlindInv, Looping
<1>9. node = "up" => blind = 0
  BY <1>1, <1>7 DEF BlindInv
<1>10. node # "up" => blind <= 1
  BY <1>7 DEF BlindInv
<1>11. blind' \in Nat /\ (blind' > 0 => Len(gates) >= 1 /\ gates[Len(gates)] # "open")
  BY <1>1, <1>7 DEF BlindInv
<1>12. (node = "up" => blind' <= 1) /\ (node # "up" => blind' <= 2)
  BY <1>1, <1>9, <1>10 DEF BlindInv
<1>13. \A h \in Goals : ~Late(h)' /\ pc'[h] # "wait" /\ pc'[h] \notin {"begin", "start", "first"}
  BY <1>6 DEF Late
<1>14. node' = "up" /\ blind' > 0 =>
        /\ blind' = 1
        /\ \A h \in Goals : pc'[h] \notin {"begin", "start", "first"} /\ (Late(h)' => gates'[last'[h]] # "open")
  BY <1>1, <1>11, <1>12, <1>13
<1>15. node' # "up" =>
         /\ blind' <= 2
         /\ (\E h \in Goals : pc'[h] = "wait" \/ Late(h)') => blind' <= 1
  BY <1>1, <1>12, <1>13
<1>16. (node' # "up" => ~context') /\ gates' \in Seq({"open", "closed", "actuator"})
  BY <1>1 DEF BlindInv
<1> QED BY <1>1, <1>7, <1>8, <1>11, <1>14, <1>15, <1>16 DEF BlindInv

\* Every step keeps the account of old states.
LEMMA BlindStep == BlindInv /\ LeaseInv /\ [Next]_vars => BlindInv'
<1> SUFFICES ASSUME BlindInv, CoreType, LeaseExclusive, [Next]_vars PROVE BlindInv'
  BY DEF LeaseInv
<1> USE DEF stateVars, cacheVars, sinkVars, nodeVars, machine, loopVars, goalVars
<1>1. ASSUME UNCHANGED <<pc, last, gates, blind, node, context>> PROVE BlindInv'
  BY <1>1 DEF BlindInv, Late
<1>2. ASSUME NEW gate \in {"open", "closed", "actuator"}, ReceiveState(gate) PROVE BlindInv'
  <2>1. /\ node = "up" /\ gates' = Append(gates, gate)
        /\ blind' = IF gate = "open" THEN 0 ELSE blind
        /\ UNCHANGED <<pc, last, node, context>>
    BY <1>2 DEF ReceiveState
  <2>2. /\ gates' \in Seq({"open", "closed", "actuator"}) /\ Len(gates') = Len(gates) + 1 /\ Len(gates) \in Nat
        /\ gates'[Len(gates')] = gate /\ \A i \in 1 .. Len(gates) : gates'[i] = gates[i]
    BY <2>1, AppendProperties, LenProperties DEF BlindInv
  <2>3. \A g \in Goals : Late(g) => last[g] \in 1 .. Len(gates)
    BY DEF BlindInv, Late, Looping
  <2>4. \A g \in Goals : pc'[g] \in Looping =>
          Len(gates') >= 1 /\ (pc'[g] # "begin" => last'[g] \in 1 .. Len(gates'))
    BY <2>1, <2>2 DEF BlindInv
  <2>5. blind' \in Nat /\ (blind' > 0 => Len(gates') >= 1 /\ gates'[Len(gates')] # "open")
    BY <2>1, <2>2 DEF BlindInv
  <2>6. blind' > 0 =>
          /\ blind' = 1
          /\ \A g \in Goals : pc'[g] \notin {"begin", "start", "first"} /\ (Late(g)' => gates'[last'[g]] # "open")
    BY <2>1, <2>2, <2>3 DEF BlindInv, Late
  <2> QED BY <2>1, <2>2, <2>4, <2>5, <2>6 DEF BlindInv
<1>3. CASE Input
  <2>1. ASSUME NEW s \in 1 .. Latest, OnTip(s) PROVE BlindInv'
    BY <1>1, <2>1 DEF OnTip
  <2>2. ASSUME NEW g \in Follows, OnOperatorHeartbeat(g) PROVE BlindInv'
    BY <1>1, <2>2 DEF OnOperatorHeartbeat
  <2>3. ASSUME NEW g \in Jogs, OnJogHeartbeat(g) PROVE BlindInv'
    BY <1>1, <2>3 DEF OnJogHeartbeat
  <2>4. ASSUME NEW p \in Plans, OnPlannedTrajectory(p) PROVE BlindInv'
    BY <1>1, <2>4 DEF OnPlannedTrajectory
  <2> QED BY <1>2, <1>3, <2>1, <2>2, <2>3, <2>4 DEF Input
<1>4. ASSUME NEW g \in Goals, GoalCallback(g) PROVE BlindInv'
  <2>1. UNCHANGED <<last, gates, blind, node, context>>
    BY <1>4 DEF GoalCallback, GoalArrives, PlanFound, PlanTimeout, HeartbeatFound,
                HeartbeatMissing, Reserve, KeepGoal
  <2>2. \/ Goto(g, "plan") \/ Goto(g, "heartbeat") \/ Goto(g, "reserve") \/ Goto(g, "rejected")
        \/ Goto(g, "begin") /\ CanReserve
    <3>1. CASE GoalArrives(g)
      BY <3>1 DEF GoalArrives, Reject
    <3>2. CASE PlanFound(g) \/ PlanTimeout(g) \/ HeartbeatFound(g) \/ HeartbeatMissing(g)
      BY <3>2 DEF PlanFound, PlanTimeout, HeartbeatFound, HeartbeatMissing, Reject
    <3>3. CASE Reserve(g)
      BY <3>3 DEF Reserve, Reject
    <3> QED BY <1>4, <3>1, <3>2, <3>3 DEF GoalCallback
  <2>3. ASSUME NEW l \in {"plan", "heartbeat", "reserve", "rejected"}, Goto(g, l) PROVE BlindInv'
    <3>1. l \in Labels \ Looping
      BY <2>3 DEF Labels, Looping
    <3> QED BY <2>1, <2>3, <3>1, BlindLeaves
  <2>4. CASE Goto(g, "begin") /\ CanReserve
    <3>1. Len(gates) > 0 /\ gates[Len(gates)] = "open" /\ Len(gates) \in Nat
      BY <2>4, LenProperties DEF CanReserve, StateFresh, Latest, BlindInv
    <3>2. ~(blind > 0) /\ "begin" \in Labels
      BY <3>1 DEF BlindInv, Labels, Owning, Looping
    <3>3. last' \in [Goals -> Nat]
      BY <2>1 DEF BlindInv
    <3> QED BY <2>1, <2>4, <3>1, <3>2, <3>3, BlindMoves
  <2> QED BY <2>2, <2>3, <2>4
<1>5. ASSUME NEW g \in Goals, OnCancel(g) PROVE BlindInv'
  BY <1>1, <1>5 DEF OnCancel
<1>6. ASSUME NEW g \in Goals, Stop(g) PROVE BlindInv'
  <2>1. UNCHANGED <<last, gates, blind, node, context>>
    BY <1>6 DEF Stop, StopZero, StopFails, StopDone, Drained, Release, Report, Others, KeepGoal
  <2>2. PICK l \in {"stopping", "release", "drain", "report", "done"} : Goto(g, l)
    BY <1>6 DEF Stop, StopZero, StopFails, StopDone, Drained, Release, Report
  <2>3. l \in Labels \ Looping
    BY <2>2 DEF Labels, Owning, Looping, Stopping
  <2> QED BY <2>1, <2>2, <2>3, BlindLeaves
<1>7. CASE ContextDown
  BY <1>7 DEF ContextDown, KeepServer, BlindInv, Late
<1>8. CASE DestroyBegin
  <2>1. node = "up" /\ node' = "disarming" /\ ~context' /\ UNCHANGED <<pc, last, gates, blind>>
    BY <1>8 DEF DestroyBegin, NodeStep, KeepServer
  <2>2. blind' <= 1
    BY <2>1 DEF BlindInv
  <2> QED BY <2>1, <2>2 DEF BlindInv, Late
<1>9. CASE DestroyDisarm \/ DestroyRaises \/ DestroyZeroed \/ DestroyDrained \/ DestroyEnd
  <2>1. node # "up" /\ node' # "up" /\ UNCHANGED <<pc, last, gates, blind, context>>
    BY <1>9 DEF DestroyDisarm, DestroyRaises, DestroyZeroed, DestroyDrained, DestroyEnd, NodeStep, KeepServer
  <2> QED BY <2>1 DEF BlindInv, Late
<1>10. CASE JournalFails \/ Tick \/ UNCHANGED vars
  BY <1>1, <1>10 DEF JournalFails, Tick, vars
<1> QED BY <1>3, <1>4, <1>5, <1>6, <1>7, <1>8, <1>9, <1>10, BlindLoop, BlindEmits DEF Next, Destroy

\* After a state that forbids motion at most one command more is computed from the state
\* before it, two while the node goes down.
THEOREM FewBlindCommands == Spec => []BlindMotionBounded
<1>1. Init => BlindInv
  <2> SUFFICES ASSUME Init PROVE BlindInv
    OBVIOUS
  <2>1. gates \in Seq({"open", "closed", "actuator"}) /\ last \in [Goals -> Nat] /\ blind = 0 /\ node = "up"
    BY EmptySeq DEF Init
  <2>2. \A g \in Goals : pc[g] \notin Looping
    BY DEF Init, Looping
  <2> QED BY <2>1, <2>2 DEF BlindInv
<1>2. BlindInv => BlindMotionBounded
  BY DEF BlindInv, BlindMotionBounded
<1> QED BY <1>1, <1>2, BlindStep, LeaseInvariant, PTL DEF Spec
=================================================================================
