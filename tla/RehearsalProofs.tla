--------------------------- MODULE RehearsalProofs ---------------------------
(***************************************************************************)
(* Proofs of the rehearsal: the shadow server's lease, the reservation,    *)
(* the files and the topics of the Plan server, and the client that sends  *)
(* a Plan and a Follow to them, for any goals, plans and previews.         *)
(***************************************************************************)
EXTENDS PlanFollowShadow, TLAPS

-----------------------------------------------------------------------------
(* The shadow server's lease. *)

Holding == {"reserved", "accepted", "loop", "terminal", "transition"}

\* The lease of a goal is _active_behavior, from the reservation to
\* _complete_terminal(): whoever holds it is alone, and a status waits to be
\* published only where a callback publishes one.
LeaseInv ==
  /\ at \in [Goals -> Places]
  /\ DOMAIN seen = Goals \union {"timer"}
  /\ \A g \in Goals : at[g] \in Holding => activeBehavior # ""
  /\ \A g, h \in Goals : at[g] \in Holding /\ at[h] \in Holding => g = h
  /\ \A g \in Goals : seen[g] # Unread => at[g] \in DOMAIN Publishing

\* The ways of a callback, and the lease on each.
Goes(g, from, to) == at[g] = from /\ at' = [at EXCEPT ![g] = to]

Plain(g) ==
  /\ \/ Goes(g, "unsent", "sent") \/ Goes(g, "sent", "rejected") \/ Goes(g, "rejected", "refused")
     \/ Goes(g, "reserved", "accepted") \/ Goes(g, "accepted", "loop") \/ Goes(g, "loop", "terminal")
     \/ Goes(g, "terminal", "transition") \/ Goes(g, "completed", "done")
  /\ UNCHANGED activeBehavior
Takes(g) == Goes(g, "sent", "reserved") /\ activeBehavior = "" /\ activeBehavior' # ""
Gives(g) == Goes(g, "transition", "completed") /\ activeBehavior' = ""

\* Every step of the shadow server goes one of these ways.
LEMMA CallbackMoves ==
  ASSUME LeaseInv, [ShadowNext]_shadowVars
  PROVE  \/ UNCHANGED <<at, activeBehavior>>
         \/ \E g \in Goals : Plain(g) \/ Takes(g) \/ Gives(g)
<1> USE DEF leaseState
<1>1. CASE Timer \/ ContextDown \/ UNCHANGED shadowVars
  BY <1>1 DEF Timer, TimerReads, TimerPublishes, ContextDown, shadowVars
<1>2. ASSUME NEW g \in Goals, Arrives(g) \/ OnCancel(g) \/ Callback(g)
      PROVE  UNCHANGED <<at, activeBehavior>> \/ Plain(g) \/ Takes(g) \/ Gives(g)
  <2>1. CASE Arrives(g) \/ OnCancel(g) \/ ReadStatus(g) \/ Reject(g) \/ Begin(g)
    BY <2>1 DEF Arrives, OnCancel, ReadStatus, Reject, Begin, Goto, Plain, Goes
  <2>2. CASE Cancelled(g) \/ LoopEnds(g) \/ ContextStopped(g)
    BY <2>2 DEF Cancelled, LoopEnds, ContextStopped, Finish, Goto, Plain, Goes
  <2>3. CASE CompleteTerminal(g)
    BY <2>3 DEF CompleteTerminal, Goto, Gives, Goes
  <2>4. CASE ReserveLease(g)
    <3>1. CASE Busy
      BY <2>4, <3>1 DEF ReserveLease, Goto, Plain, Goes
    <3>2. CASE ~Busy
      BY <2>4, <3>2 DEF ReserveLease, Goto, Takes, Goes, Busy, Behavior
    <3> QED BY <3>1, <3>2
  <2>5. CASE PublishStatus(g)
    <3>1. at[g] \in {"rejected", "reserved", "terminal", "completed"}
      BY <2>5 DEF PublishStatus, LeaseInv, Publishing
    <3>2. at' = [at EXCEPT ![g] = Publishing[at[g]]] /\ UNCHANGED activeBehavior
      BY <2>5 DEF PublishStatus, Goto
    <3>3. /\ Publishing["rejected"] = "refused" /\ Publishing["reserved"] = "accepted"
          /\ Publishing["terminal"] = "transition" /\ Publishing["completed"] = "done"
      BY DEF Publishing
    <3> QED BY <3>1, <3>2, <3>3 DEF Plain, Goes
  <2>6. CASE PublishRaises(g)
    BY <2>6 DEF PublishRaises
  <2> QED BY <1>2, <2>1, <2>2, <2>3, <2>4, <2>5, <2>6 DEF Callback
<1> QED BY <1>1, <1>2 DEF ShadowNext

\* The status a callback has read is published where it was read, or not at all.
LEMMA StatusMoves ==
  ASSUME LeaseInv, [ShadowNext]_shadowVars
  PROVE  /\ DOMAIN seen' = Goals \union {"timer"}
         /\ \A g \in Goals : seen'[g] # Unread => at'[g] \in DOMAIN Publishing
<1> USE ShadowAssumption DEF LeaseInv, leaseState
<1>1. CASE Timer
  BY <1>1 DEF Timer, TimerReads, TimerPublishes
<1>2. CASE ContextDown \/ UNCHANGED shadowVars
  BY <1>2 DEF ContextDown, shadowVars
<1>3. ASSUME NEW g \in Goals, Arrives(g) \/ OnCancel(g) \/ Callback(g)
      PROVE  /\ DOMAIN seen' = Goals \union {"timer"}
             /\ \A h \in Goals : seen'[h] # Unread => at'[h] \in DOMAIN Publishing
  <2>1. CASE Arrives(g) \/ Reject(g) \/ ReserveLease(g) \/ Begin(g) \/ CompleteTerminal(g)
    <3>1. UNCHANGED seen /\ at[g] \notin DOMAIN Publishing
      BY <2>1 DEF Arrives, Reject, ReserveLease, Begin, CompleteTerminal, Publishing
    <3>2. \E place : at' = [at EXCEPT ![g] = place]
      BY <2>1 DEF Arrives, Reject, ReserveLease, Begin, CompleteTerminal, Goto
    <3> QED BY <3>1, <3>2
  <2>2. CASE Cancelled(g) \/ LoopEnds(g) \/ ContextStopped(g)
    <3>1. UNCHANGED seen /\ at[g] = "loop" /\ at' = [at EXCEPT ![g] = "terminal"]
      BY <2>2 DEF Cancelled, LoopEnds, ContextStopped, Finish, Goto
    <3> QED BY <3>1 DEF Publishing
  <2>3. CASE OnCancel(g)
    BY <2>3 DEF OnCancel
  <2>4. CASE ReadStatus(g)
    BY <2>4 DEF ReadStatus
  <2>5. CASE PublishStatus(g)
    BY <2>5 DEF PublishStatus, Goto
  <2>6. CASE PublishRaises(g)
    BY <2>6 DEF PublishRaises
  <2> QED BY <1>3, <2>1, <2>2, <2>3, <2>4, <2>5, <2>6 DEF Callback
<1> QED BY <1>1, <1>2, <1>3 DEF ShadowNext

\* Whoever holds the lease of the shadow server holds it alone.
THEOREM ShadowLeaseInvariant == ShadowSpec => []LeaseInv
<1>1. ShadowInit => LeaseInv
  BY DEF ShadowInit, LeaseInv, Holding, Places
<1>2. LeaseInv /\ [ShadowNext]_shadowVars => LeaseInv'
  <2> SUFFICES ASSUME LeaseInv, [ShadowNext]_shadowVars PROVE LeaseInv'
    OBVIOUS
  <2> USE DEF LeaseInv, Holding, Places
  <2>1. /\ DOMAIN seen' = Goals \union {"timer"}
        /\ \A g \in Goals : seen'[g] # Unread => at'[g] \in DOMAIN Publishing
    BY StatusMoves
  <2>2. CASE UNCHANGED <<at, activeBehavior>>
    BY <2>1, <2>2
  <2>3. ASSUME NEW g \in Goals, Plain(g) \/ Takes(g) \/ Gives(g) PROVE LeaseInv'
    <3>1. CASE Plain(g)
      <4>1. at[g] \in Holding <=> at'[g] \in Holding
        BY <3>1 DEF Plain, Goes
      <4>2. (\A h \in Goals : h # g => at'[h] = at[h]) /\ activeBehavior' = activeBehavior
        BY <3>1 DEF Plain, Goes
      <4>3. at' \in [Goals -> Places]
        BY <3>1 DEF Plain, Goes
      <4> QED BY <2>1, <4>1, <4>2, <4>3
    <3>2. CASE Takes(g)
      BY <2>1, <3>2 DEF Takes, Goes
    <3>3. CASE Gives(g)
      BY <2>1, <3>3 DEF Gives, Goes
    <3> QED BY <2>3, <3>1, <3>2, <3>3
  <2> QED BY <2>2, <2>3, CallbackMoves
<1> QED BY <1>1, <1>2, PTL DEF ShadowSpec

-----------------------------------------------------------------------------
(* The refinement: a Result always confirms quiescence, and nothing moves. *)

StatusOf(place) ==
  CASE place \in {"unsent", "sent"} -> "waiting"
    [] place \in {"rejected", "refused"} -> "refused"
    [] place \in {"completed", "done"} -> "closed"
    [] OTHER -> "holding"

\* What the status of a lease says of the place of the goal's callback.
LEMMA StatusOfPlace ==
  ASSUME NEW place \in Places
  PROVE  /\ place \in {"unsent", "sent"} => StatusOf(place) = "waiting"
         /\ place \in {"rejected", "refused"} => StatusOf(place) = "refused"
         /\ place \in {"completed", "done"} => StatusOf(place) = "closed"
         /\ place \in Holding => StatusOf(place) = "holding"
         /\ StatusOf(place) = "holding" => place \in Holding
BY DEF StatusOf, Places, Holding

\* Every step of the shadow server is a step of MotionLease, or none.
LEMMA LeaseMapStep ==
  ASSUME LeaseInv, LeaseInv', [ShadowNext]_shadowVars
  PROVE  [Lease!LeaseNext]_(Lease!leaseVars)
<1>1. LeaseStatus = [g \in Goals |-> StatusOf(at[g])]
  BY DEF LeaseStatus, StatusOf
<1>2. LeaseStatus' = [g \in Goals |-> StatusOf(at'[g])]
  BY DEF LeaseStatus, StatusOf
<1>3. /\ at \in [Goals -> Places] /\ at' \in [Goals -> Places]
      /\ \A g, h \in Goals : at[g] \in Holding /\ at[h] \in Holding => g = h
      /\ \A g \in Goals : at[g] \in Holding => activeBehavior # ""
  BY DEF LeaseInv
<1>4. CASE UNCHANGED <<at, activeBehavior>>
  BY <1>1, <1>2, <1>4 DEF Lease!leaseVars
<1>5. ASSUME NEW g \in Goals, NEW from, NEW to, Goes(g, from, to)
      PROVE  /\ LeaseStatus' = [LeaseStatus EXCEPT ![g] = StatusOf(to)]
             /\ LeaseStatus[g] = StatusOf(from)
  BY <1>1, <1>2, <1>3, <1>5 DEF Goes
<1>6. /\ StatusOf("sent") = "waiting" /\ StatusOf("rejected") = "refused"
      /\ StatusOf("reserved") = "holding" /\ StatusOf("transition") = "holding"
      /\ StatusOf("completed") = "closed"
  BY DEF StatusOf
<1>7. ASSUME NEW g \in Goals, Plain(g) PROVE [Lease!LeaseNext]_(Lease!leaseVars)
  <2>1. CASE Goes(g, "sent", "rejected")
    <3>1. LeaseStatus' = [LeaseStatus EXCEPT ![g] = "refused"] /\ LeaseStatus[g] = "waiting"
      BY <1>5, <1>6, <2>1
    <3>2. \A h \in Goals : (LeaseStatus[h] = "closed")' = (LeaseStatus[h] = "closed")
      BY <1>1, <3>1
    <3>3. Lease!Refuse(g)
      BY <3>1, <3>2 DEF Lease!Refuse
    <3> QED BY <3>3 DEF Lease!LeaseNext
  <2>2. CASE ~Goes(g, "sent", "rejected")
    <3>1. \/ at[g] \in {"unsent", "sent"} /\ at'[g] \in {"unsent", "sent"}
          \/ at[g] \in {"rejected", "refused"} /\ at'[g] \in {"rejected", "refused"}
          \/ at[g] \in {"completed", "done"} /\ at'[g] \in {"completed", "done"}
          \/ at[g] \in Holding /\ at'[g] \in Holding
      BY <1>3, <1>7, <2>2 DEF Plain, Goes, Holding
    <3>2. StatusOf(at'[g]) = StatusOf(at[g])
      BY <1>3, <3>1, StatusOfPlace DEF Holding
    <3>3. \A h \in Goals : h # g => at'[h] = at[h]
      BY <1>3, <1>7 DEF Plain, Goes
    <3>4. LeaseStatus' = LeaseStatus
      BY <1>1, <1>2, <3>2, <3>3
    <3> QED BY <3>4 DEF Lease!leaseVars
  <2> QED BY <2>1, <2>2
<1>8. ASSUME NEW g \in Goals, Takes(g) PROVE [Lease!LeaseNext]_(Lease!leaseVars)
  <2>1. \A h \in Goals : LeaseStatus[h] # "holding"
    BY <1>1, <1>3, <1>8, StatusOfPlace DEF Takes
  <2>2. LeaseStatus' = [LeaseStatus EXCEPT ![g] = "holding"] /\ LeaseStatus[g] = "waiting"
    <3>1. Goes(g, "sent", "reserved")
      BY <1>8 DEF Takes
    <3> QED BY <1>5, <1>6, <3>1
  <2>3. \A h \in Goals : (LeaseStatus[h] = "closed")' = (LeaseStatus[h] = "closed")
    BY <1>1, <2>2
  <2>4. Lease!Grant(g)
    BY <2>1, <2>2, <2>3 DEF Lease!Grant
  <2> QED BY <2>4 DEF Lease!LeaseNext
<1>9. ASSUME NEW g \in Goals, Gives(g) PROVE [Lease!LeaseNext]_(Lease!leaseVars)
  <2>1. LeaseStatus' = [LeaseStatus EXCEPT ![g] = "closed"] /\ LeaseStatus[g] = "holding"
    <3>1. Goes(g, "transition", "completed")
      BY <1>9 DEF Gives
    <3> QED BY <1>5, <1>6, <3>1
  <2>2. \A h \in Goals : (LeaseStatus[h] = "closed")' = IF h = g THEN TRUE ELSE LeaseStatus[h] = "closed"
    BY <1>1, <2>1
  <2>3. Lease!Close(g)
    BY <2>1, <2>2 DEF Lease!Close
  <2> QED BY <2>3 DEF Lease!LeaseNext
<1> QED BY <1>4, <1>7, <1>8, <1>9, CallbackMoves

\* The shadow server implements MotionLease: one goal at a time from the
\* reservation to a Result, whatever the order of its callbacks.
THEOREM ServerKeepsShadowLease == ShadowSpec => ShadowKeepsLease
<1>1. ShadowInit => Lease!LeaseInit
  BY DEF ShadowInit, LeaseStatus, Lease!LeaseInit
<1>2. LeaseInv /\ LeaseInv' /\ [ShadowNext]_shadowVars => [Lease!LeaseNext]_(Lease!leaseVars)
  BY LeaseMapStep
<1> QED BY <1>1, <1>2, ShadowLeaseInvariant, PTL DEF ShadowSpec, ShadowKeepsLease, Lease!LeaseSpec

-----------------------------------------------------------------------------
(* The Plan server: who runs, and how far it is. *)

PlanPlaces == {"unsent", "sent", "refused", "reserved", "accepted", "waiting", "planning",
               "freezing", "invalidating", "commands", "replacing", "reading", "publishing",
               "showing", "shown", "clear", "transition", "done", "lost"}
PreviewPlaces == {"unsent", "invalidating", "freezing", "commands", "replacing", "done", "lost"}
NotWorking == {"unsent", "sent", "refused", "done", "lost"}
Working(p) == planAt[p] \notin NotWorking

\* How many artifacts, or commands, a run has behind it where it is.
StepOf(p) ==
  /\ planAt[p] = "invalidating" => step[p] \in 0 .. 2
  /\ planAt[p] \in {"commands", "replacing"} => step[p] \in 0 .. Commands(p) - 1

\* One goal has the reservation, one preview runs at a time.
PlaceInv ==
  /\ planAt \in [Runs -> PlanPlaces] /\ step \in [Runs -> Nat]
  /\ \A p \in Previews : planAt[p] \in PreviewPlaces
  /\ \A p \in Runs : StepOf(p)
  /\ \A p \in Plans : Working(p) => goalReserved
  /\ \A p, q \in Plans : Working(p) /\ Working(q) => p = q
  /\ \A p, q \in Previews : Working(p) /\ Working(q) => p = q

\* A step that is one run's: where it goes, and nothing of the others.
Turn(p, place, n) ==
  /\ planAt' = [planAt EXCEPT ![p] = place] /\ step' = [step EXCEPT ![p] = n]

\* A plan replaces four artifacts; a preview three or four.
LEMMA CommandsOfRun ==
  ASSUME NEW p \in Runs
  PROVE  /\ Len(Artifacts) = 4
         /\ Commands(p) \in {3, 4}
         /\ p \in Plans => Commands(p) = 4
BY DEF Artifacts, Commands

\* The kinds of step, seen from the places alone.
Outside(p) ==
  /\ p \in Plans /\ UNCHANGED <<goalReserved, files>>
  /\ \/ planAt[p] = "unsent" /\ Turn(p, "sent", 0)
     \/ planAt[p] = "sent" /\ Turn(p, "refused", 0)
Reserves(p) == p \in Plans /\ planAt[p] = "sent" /\ ~goalReserved /\ goalReserved' = TRUE
               /\ Turn(p, "reserved", 0) /\ UNCHANGED files
Releases(p) == p \in Plans /\ planAt[p] = "transition" /\ goalReserved' = FALSE /\ Turn(p, "done", 0)
               /\ UNCHANGED files

\* A working run goes on, to a place the files say nothing of.
FreePlaces == PlanPlaces \ {"unsent", "sent", "refused", "lost", "invalidating", "commands", "replacing",
                            "reading"}
GoesOn(p) ==
  /\ Working(p) /\ UNCHANGED <<goalReserved, files>>
  /\ \/ \E place \in FreePlaces \ {"done", "freezing"} : p \in Plans /\ Turn(p, place, 0)
     \/ p \in Plans /\ planAt[p] = "accepted" /\ Turn(p, "freezing", 0)
     \/ p \in Previews /\ Turn(p, "done", 0)
\* Every step of the Plan server is of one of these kinds.
LEMMA PlanStepKinds ==
  ASSUME PlaceInv, [PlanNext]_planVars
  PROVE  \/ UNCHANGED <<planAt, step, goalReserved, files>>
         \/ PlanServerRestarts
         \/ \E p \in Runs : \/ Outside(p) \/ Reserves(p) \/ Releases(p) \/ GoesOn(p)
                            \/ (PreviewStarts(p) /\ p \in Previews) \/ PlanningRun(p)
<1> USE DEF PlanGoto, Turn
<1>1. ASSUME NEW p \in Plans, PlanArrives(p) \/ PlanRejected(p) PROVE Outside(p)
  BY <1>1 DEF PlanArrives, PlanRejected, Outside
<1>2. ASSUME NEW p \in Plans, PlanReserved(p) PROVE Reserves(p)
  BY <1>2 DEF PlanReserved, Reserves
<1>3. ASSUME NEW p \in Plans, Release(p) PROVE Releases(p)
  BY <1>3 DEF Release, Releases
<1>4. ASSUME NEW p \in Plans,
             \/ PlanAccepted(p) \/ ClearPreview(p) \/ PlanFails(p) \/ FixtureBegins(p) \/ WaitCancelled(p)
             \/ TipArrives(p) \/ PlansFixture(p) \/ LiveBegins(p) \/ ReadTrajectory(p) \/ Publish(p)
             \/ Show(p) \/ Succeeds(p)
      PROVE  GoesOn(p)
  BY <1>4 DEF PlanAccepted, ClearPreview, PlanFails, FixtureBegins, WaitCancelled, TipArrives,
       PlansFixture, LiveBegins, ReadTrajectory, Publish, Show, Succeeds, PlanFinish, GoesOn, Working,
       NotWorking, FreePlaces, PlanPlaces
<1>5. ASSUME NEW p \in Previews, PreviewFails(p) PROVE GoesOn(p)
  BY <1>5 DEF PreviewFails, GoesOn, Working, NotWorking
<1>6. ASSUME NEW p \in Plans, PlanCancel(p) PROVE UNCHANGED <<planAt, step, goalReserved, files>>
  BY <1>6 DEF PlanCancel
<1>7. CASE UNCHANGED planVars
  BY <1>7 DEF planVars
<1>8. Plans \subseteq Runs /\ Previews \subseteq Runs
  BY DEF Runs
<1> QED BY <1>1, <1>2, <1>3, <1>4, <1>5, <1>6, <1>7, <1>8 DEF PlanNext, PlanCallback, Preview

\* What a run does to its own place and step keeps the others where they are.
LEMMA PlaceTurn ==
  ASSUME PlaceInv, NEW p \in Runs, NEW place \in PlanPlaces, NEW n \in Nat, Turn(p, place, n),
         p \in Previews => place \in PreviewPlaces,
         place = "invalidating" => n \in 0 .. 2,
         place \in {"commands", "replacing"} => n \in 0 .. Commands(p) - 1,
         \/ Working(p) /\ UNCHANGED goalReserved
         \/ p \in Plans /\ place \in NotWorking /\ UNCHANGED goalReserved
         \/ p \in Plans /\ place = "reserved" /\ ~goalReserved /\ goalReserved'
         \/ p \in Previews /\ (\A q \in Previews : ~Working(q)) /\ UNCHANGED goalReserved
         \/ p \in Plans /\ Working(p) /\ place = "done"
  PROVE  PlaceInv'
<1> USE PlanAssumption DEF PlaceInv, Turn, Working, Runs
<1>1. /\ \A q \in Runs : q # p => planAt'[q] = planAt[q] /\ step'[q] = step[q]
      /\ planAt'[p] = place /\ step'[p] = n
      /\ planAt' \in [Runs -> PlanPlaces] /\ step' \in [Runs -> Nat]
  OBVIOUS
<1>2. \A q \in Previews : planAt'[q] \in PreviewPlaces
  BY <1>1
<1>3. \A q \in Runs : StepOf(q)'
  BY <1>1 DEF StepOf, Commands
<1>4. (\A q, r \in Plans : Working(q)' /\ Working(r)' => q = r) /\ \A q \in Plans : Working(q)' => goalReserved'
  BY <1>1 DEF NotWorking
<1>5. \A q, r \in Previews : Working(q)' /\ Working(r)' => q = r
  BY <1>1
<1> QED BY <1>1, <1>2, <1>3, <1>4, <1>5

\* A turn of the planning run.
PlanningTurn(p) ==
  \E place \in {"invalidating", "freezing", "commands", "replacing", "reading", "done"}, n \in Nat :
    /\ Turn(p, place, n)
    /\ place = "invalidating" => n \in 0 .. 2
    /\ place \in {"commands", "replacing"} => n \in 0 .. Commands(p) - 1
    /\ place = "done" => p \in Previews
    /\ place = "reading" => p \in Plans

\* A loop over artifacts or commands goes on with the next, or past the last.
LEMMA StepOnTurns ==
  ASSUME PlaceInv, NEW p \in Runs, NEW last, NEW next, StepOn(p, last, next)
  PROVE  Turn(p, next, 0) \/ (step[p] + 1 # last /\ Turn(p, planAt[p], step[p] + 1))
BY DEF PlaceInv, StepOn, Turn, PlanGoto

\* No step gives two goals the reservation, or runs two previews at once.
LEMMA PlaceStep ==
  ASSUME PlaceInv, [PlanNext]_planVars PROVE PlaceInv'
<1> USE DEF Turn, PlanGoto
<1>1. CASE UNCHANGED <<planAt, step, goalReserved, files>>
  BY <1>1 DEF PlaceInv, Working, StepOf
<1>2. CASE PlanServerRestarts
  <2>1. /\ planAt' \in [Runs -> PlanPlaces] /\ step' = [p \in Runs |-> 0]
        /\ \A p \in Runs : planAt'[p] \in NotWorking
        /\ \A p \in Previews : planAt'[p] \in PreviewPlaces
    BY <1>2 DEF PlanServerRestarts, PlanExecuting, PlaceInv, PlanPlaces, PreviewPlaces, NotWorking, Runs
  <2> QED BY <2>1 DEF PlaceInv, Working, StepOf, NotWorking, Runs
<1>3. ASSUME NEW p \in Runs, Outside(p) \/ Reserves(p) \/ Releases(p) PROVE PlaceInv'
  BY <1>3, PlaceTurn, PlanAssumption DEF Outside, Reserves, Releases, PlanPlaces, NotWorking, Working
<1>4. ASSUME NEW p \in Runs, GoesOn(p) PROVE PlaceInv'
  BY <1>4, PlaceTurn, PlanAssumption DEF GoesOn, FreePlaces, PlanPlaces, PreviewPlaces
<1>5. ASSUME NEW p \in Previews, PreviewStarts(p) PROVE PlaceInv'
  <2>1. \A q \in Previews : ~Working(q)
    BY <1>5 DEF PreviewStarts, Working, NotWorking
  <2>2. Turn(p, "invalidating", 0) /\ UNCHANGED goalReserved /\ p \in Runs /\ 0 \in 0 .. 2
    BY <1>5 DEF PreviewStarts, Runs
  <2>3. "invalidating" \in PlanPlaces /\ "invalidating" \in PreviewPlaces
    BY DEF PlanPlaces, PreviewPlaces
  <2> HIDE DEF Turn
  <2> QED BY <2>1, <2>2, <2>3, PlaceTurn
<1>6. ASSUME NEW p \in Runs, PlanningRun(p) PROVE PlaceInv'
  <2>1. Working(p) /\ UNCHANGED goalReserved
    BY <1>6 DEF PlanningRun, Frozen, Invalidate, RunCommand, Replace, Working, NotWorking
  <2>2. PlanningTurn(p)
    <3> HIDE DEF Turn, PlanGoto
    <3> USE CommandsOfRun
    <3>1. CASE Frozen(p)
      <4>1. Turn(p, "invalidating", 0) \/ Turn(p, "commands", 0)
        BY <3>1 DEF Frozen, PlanGoto, Turn
      <4> QED BY <4>1 DEF PlanningTurn
    <3>2. ASSUME NEW last \in Nat, NEW next \in {"freezing", "commands", "replacing", "reading", "done"},
                 StepOn(p, last, next), step[p] \in 0 .. last - 1,
                 planAt[p] \in {"invalidating", "commands", "replacing"},
                 planAt[p] = "invalidating" => last = 3,
                 planAt[p] \in {"commands", "replacing"} => last = Commands(p),
                 next = "done" => p \in Previews, next = "reading" => p \in Plans
          PROVE  PlanningTurn(p)
      <4>1. CASE Turn(p, next, 0)
        BY <3>2, <4>1 DEF PlanningTurn
      <4>2. CASE step[p] + 1 # last /\ Turn(p, planAt[p], step[p] + 1)
        <5>1. step[p] + 1 \in Nat /\ step[p] + 1 \in 0 .. last - 1
          BY <3>2, <4>2
        <5>2. planAt[p] = "invalidating" => step[p] + 1 \in 0 .. 2
          BY <3>2, <5>1
        <5> DEFINE n == step[p] + 1
        <5> HIDE DEF n
        <5> QED BY <3>2, <4>2, <5>1, <5>2 DEF PlanningTurn, n
      <4> QED BY <3>2, <4>1, <4>2, StepOnTurns
    <3>3. CASE Invalidate(p)
      <4>1. StepOn(p, 3, IF p \in Plans THEN "commands" ELSE "freezing")
        BY <3>3, Len(Artifacts) - 1 = 3 DEF Invalidate
      <4>2. planAt[p] = "invalidating" /\ step[p] \in 0 .. 3 - 1
        BY <3>3 DEF Invalidate, PlaceInv, StepOf
      <4> QED BY <3>2, <4>1, <4>2
    <3>4. CASE RunCommand(p)
      <4>1. planAt[p] = "commands" /\ step[p] \in 0 .. Commands(p) - 1 /\ StepOn(p, Commands(p), "replacing")
        BY <3>4 DEF RunCommand, PlaceInv, StepOf
      <4> QED BY <3>2, <4>1
    <3>5. CASE Replace(p)
      <4>1. planAt[p] = "replacing" /\ step[p] \in 0 .. Commands(p) - 1
        BY <3>5 DEF Replace, PlaceInv, StepOf
      <4>2. StepOn(p, Commands(p), IF p \in Plans THEN "reading" ELSE "done")
        BY <3>5 DEF Replace
      <4> QED BY <3>2, <4>1, <4>2 DEF Runs
    <3> QED BY <1>6, <3>1, <3>3, <3>4, <3>5 DEF PlanningRun
  <2>3. PICK place \in {"invalidating", "freezing", "commands", "replacing", "reading", "done"}, n \in Nat :
          /\ Turn(p, place, n)
          /\ place = "invalidating" => n \in 0 .. 2
          /\ place \in {"commands", "replacing"} => n \in 0 .. Commands(p) - 1
          /\ place = "done" => p \in Previews
          /\ place = "reading" => p \in Plans
    BY <2>2 DEF PlanningTurn
  <2>4. place \in PlanPlaces /\ (p \in Previews => place \in PreviewPlaces)
    BY <2>3, PlanAssumption DEF PlanPlaces, PreviewPlaces
  <2> HIDE DEF Turn
  <2> QED BY <2>1, <2>3, <2>4, PlaceTurn
<1>7. Previews \subseteq Runs
  BY DEF Runs
<1> QED BY <1>1, <1>2, <1>3, <1>4, <1>5, <1>6, <1>7, PlanStepKinds
-----------------------------------------------------------------------------
(* The files a run has removed, and those it has put there. *)

Directories == {"live_latest", "live_preview"}
ArtifactNames == {"local_map", "request", "trajectory", "observation_slice"}
FilesType == files \in [Directories -> [ArtifactNames -> Runs \union {Nothing}]]

Output(p, i) == files[Directory(p)][Artifacts[i]]

\* What a run at its place has removed already, and what it has replaced.
FilesOf(p) ==
  /\ planAt[p] = "invalidating" => \A i \in 1 .. 3 : i <= step[p] => Output(p, i) = Nothing
  /\ planAt[p] = "commands" \/ (p \in Previews /\ planAt[p] = "freezing") =>
       \A i \in 1 .. 3 : Output(p, i) = Nothing
  /\ planAt[p] = "replacing" => \A i \in 1 .. 3 : Output(p, i) = IF i <= step[p] THEN p ELSE Nothing
  /\ planAt[p] = "reading" => \A i \in 1 .. 4 : Output(p, i) = p

\* The three files that are read together are of one run.
Agree(d) == \A i, j \in 1 .. 3 :
  files[d][Artifacts[i]] # Nothing /\ files[d][Artifacts[j]] # Nothing =>
    files[d][Artifacts[i]] = files[d][Artifacts[j]]

\* It is FilesOf that keeps Agree: nothing is replaced before all three are removed.
FilesInv ==
  /\ FilesType
  /\ \A p \in Runs : FilesOf(p)
  /\ \A d \in Directories : Agree(d)

\* The artifacts of a directory.
LEMMA TheArtifacts ==
  /\ Artifacts \in [1 .. 4 -> ArtifactNames]
  /\ \A i, j \in 1 .. 4 : Artifacts[i] = Artifacts[j] => i = j
  /\ Artifacts[1] = "local_map" /\ Artifacts[2] = "request" /\ Artifacts[3] = "trajectory"
  /\ Len(Artifacts) = 4
BY DEF Artifacts, ArtifactNames

\* Two runs that work on one directory are one.
LEMMA OneInDirectory ==
  ASSUME PlaceInv, NEW p \in Runs, NEW q \in Runs, Working(p), Working(q), Directory(p) = Directory(q)
  PROVE  p = q
BY DEF PlaceInv, Runs, Directory

\* A run whose place, step and files are as they were, or that does not work, has
\* nothing to answer for.
LEMMA FilesOfOther ==
  ASSUME PlaceInv, FilesInv, NEW p \in Runs, NEW q \in Runs, q # p, FilesType',
         planAt'[q] = planAt[q], step'[q] = step[q],
         Working(p), \A d \in Directories : d # Directory(p) => files'[d] = files[d]
  PROVE  FilesOf(q)'
<1>1. CASE Directory(q) = Directory(p)
  <2>1. ~Working(q)
    BY <1>1, OneInDirectory
  <2> QED BY <2>1 DEF Working, NotWorking, FilesOf
<1>2. CASE Directory(q) # Directory(p)
  <2>1. \A i \in 1 .. 4 : Output(q, i)' = Output(q, i)
    BY <1>2 DEF Output, Directory, Directories
  <2> QED BY <2>1 DEF FilesInv, FilesOf
<1> QED BY <1>1, <1>2

\* The files stay: the run goes where they are no matter, or where they are right.
LEMMA FilesKept ==
  ASSUME PlaceInv, FilesInv, NEW p \in Runs, NEW place, NEW n \in Nat, Turn(p, place, n), UNCHANGED files,
         \/ place \in FreePlaces \union {"sent", "refused"} /\ (place = "freezing" => p \notin Previews)
         \/ place = "invalidating" /\ n = 0
         \/ place = "commands" /\ \A i \in 1 .. 3 : Output(p, i) = Nothing
         \/ place = "replacing" /\ n = 0 /\ \A i \in 1 .. 3 : Output(p, i) = Nothing
  PROVE  FilesInv'
<1>1. FilesType' /\ \A d \in Directories : Agree(d)'
  BY DEF FilesInv, FilesType, Agree
<1>2. ASSUME NEW q \in Runs, q # p PROVE FilesOf(q)'
  BY <1>2 DEF FilesInv, FilesOf, Output, Turn, PlaceInv
<1>3. planAt'[p] = place /\ step'[p] = n
  BY DEF Turn, PlaceInv
<1>4. \A i \in 1 .. 3 : Output(p, i)' = Output(p, i)
  BY DEF Output
<1>5. FilesOf(p)'
  BY <1>3, <1>4 DEF FilesOf, FreePlaces
<1> QED BY <1>1, <1>2, <1>5 DEF FilesInv

\* One artifact of the run is removed or replaced.
LEMMA OutputChanges ==
  ASSUME PlaceInv, FilesInv, NEW p \in Runs, NEW k \in 1 .. 4, NEW v \in Runs \union {Nothing},
         files' = [files EXCEPT ![Directory(p)][Artifacts[k]] = v]
  PROVE  /\ FilesType'
         /\ \A i \in 1 .. 4 : Output(p, i)' = IF i = k THEN v ELSE Output(p, i)
         /\ \A d \in Directories : d # Directory(p) => files'[d] = files[d]
<1> Directory(p) \in Directories
  BY DEF Directory, Directories
<1> QED BY TheArtifacts DEF FilesInv, FilesType, Output

\* Removing the next artifact leaves those that remain of one run.
LEMMA FilesInvalidate ==
  ASSUME PlaceInv, FilesInv, NEW p \in Runs, Invalidate(p)
  PROVE  FilesInv'
<1> DEFINE k == step[p] + 1
<1>1. planAt[p] = "invalidating" /\ k \in 1 .. 3 /\ Len(Artifacts) - 1 = 3
  BY TheArtifacts DEF Invalidate, PlaceInv, StepOf
<1>2. files' = [files EXCEPT ![Directory(p)][Artifacts[k]] = Nothing]
  BY DEF Invalidate
<1>3. Working(p)
  BY <1>1 DEF Working, NotWorking
<1>4. /\ FilesType'
      /\ \A i \in 1 .. 4 : Output(p, i)' = IF i = k THEN Nothing ELSE Output(p, i)
      /\ \A d \in Directories : d # Directory(p) => files'[d] = files[d]
  <2>1. k \in 1 .. 4 /\ Nothing \in Runs \union {Nothing}
    BY <1>1
  <2> HIDE DEF k
  <2> QED BY <1>2, <2>1, OutputChanges
<1>5. \A i \in 1 .. 3 : i <= k => Output(p, i)' = Nothing
  <2>1. \A i \in 1 .. 3 : i <= step[p] => Output(p, i) = Nothing
    BY <1>1 DEF FilesInv, FilesOf
  <2>2. \A i \in 1 .. 3 : i <= k => i = k \/ i <= step[p]
    BY <1>1 DEF PlaceInv
  <2>3. \A i \in 1 .. 3 : i \in 1 .. 4
    OBVIOUS
  <2> HIDE DEF k
  <2> QED BY <1>1, <1>4, <2>1, <2>2, <2>3
<1>6. CASE k = 3 /\ Turn(p, IF p \in Plans THEN "commands" ELSE "freezing", 0)
  <2>1. \A i \in 1 .. 3 : Output(p, i)' = Nothing
    BY <1>5, <1>6
  <2>2. planAt'[p] \in {"commands", "freezing"} /\ \A q \in Runs : q # p => planAt'[q] = planAt[q] /\ step'[q] = step[q]
    BY <1>6 DEF Turn, PlaceInv
  <2>3. FilesOf(p)'
    BY <2>1, <2>2 DEF FilesOf
  <2>4. \A q \in Runs : q # p => FilesOf(q)'
    BY <1>3, <1>4, <2>2, FilesOfOther
  <2>5. Agree(Directory(p))'
    BY <2>1 DEF Agree, Output
  <2>6. \A d \in Directories : Agree(d)'
    BY <1>4, <2>5 DEF Agree, FilesInv
  <2> QED BY <1>4, <2>3, <2>4, <2>6 DEF FilesInv
<1>7. CASE Turn(p, "invalidating", k)
  <2>1. /\ planAt'[p] = "invalidating" /\ step'[p] = k
        /\ \A q \in Runs : q # p => planAt'[q] = planAt[q] /\ step'[q] = step[q]
    BY <1>7 DEF Turn, PlaceInv
  <2>2. FilesOf(p)'
    BY <1>5, <2>1 DEF FilesOf
  <2>3. \A q \in Runs : q # p => FilesOf(q)'
    BY <1>3, <1>4, <2>1, FilesOfOther
  <2>4. Agree(Directory(p)) /\ Agree(Directory(p))'
    <3>1. Agree(Directory(p))
      BY DEF FilesInv, Directory, Directories
    <3> QED BY <1>4, <3>1 DEF Agree, Output
  <2>5. \A d \in Directories : Agree(d)'
    BY <1>4, <2>4 DEF Agree, FilesInv
  <2> QED BY <1>4, <2>2, <2>3, <2>5 DEF FilesInv
<1> QED BY <1>1, <1>6, <1>7, StepOnTurns DEF Invalidate, StepOn, PlanGoto, Turn, PlaceInv

\* Replacing the next artifact leaves a prefix of one run's, or all of them.
LEMMA FilesReplace ==
  ASSUME PlaceInv, FilesInv, NEW p \in Runs, Replace(p)
  PROVE  FilesInv'
<1> DEFINE k == step[p] + 1
<1>1. planAt[p] = "replacing" /\ k \in 1 .. Commands(p) /\ Commands(p) \in {3, 4}
  BY CommandsOfRun DEF Replace, PlaceInv, StepOf
<1>2. files' = [files EXCEPT ![Directory(p)][Artifacts[k]] = p]
  BY DEF Replace
<1>3. Working(p)
  BY <1>1 DEF Working, NotWorking
<1>4. /\ FilesType'
      /\ \A i \in 1 .. 4 : Output(p, i)' = IF i = k THEN p ELSE Output(p, i)
      /\ \A d \in Directories : d # Directory(p) => files'[d] = files[d]
  <2>1. k \in 1 .. 4 /\ p \in Runs \union {Nothing}
    BY <1>1
  <2> HIDE DEF k
  <2> QED BY <1>2, <2>1, OutputChanges
<1>5. \A i \in 1 .. 3 : Output(p, i)' = IF i <= k THEN p ELSE Nothing
  <2>1. \A i \in 1 .. 3 : Output(p, i) = IF i <= step[p] THEN p ELSE Nothing
    BY <1>1 DEF FilesInv, FilesOf
  <2>2. \A i \in 1 .. 3 : i <= k <=> i = k \/ i <= step[p]
    BY <1>1 DEF PlaceInv
  <2>3. \A i \in 1 .. 3 : i \in 1 .. 4
    OBVIOUS
  <2> HIDE DEF k
  <2> QED BY <1>1, <1>4, <2>1, <2>2, <2>3
<1>6. \A d \in Directories : Agree(d)'
  <2>1. Agree(Directory(p))'
    BY <1>5 DEF Agree, Output
  <2> QED BY <1>4, <2>1 DEF Agree, FilesInv
<1>7. CASE k = Commands(p) /\ Turn(p, IF p \in Plans THEN "reading" ELSE "done", 0)
  <2>1. planAt'[p] \in {"reading", "done"} /\ \A q \in Runs : q # p => planAt'[q] = planAt[q] /\ step'[q] = step[q]
    BY <1>7 DEF Turn, PlaceInv
  <2>2. FilesOf(p)'
    <3>1. planAt'[p] = "reading" => p \in Plans
      BY <1>7 DEF Turn, PlaceInv
    <3>2. p \in Plans => Output(p, 4)' = p
      BY <1>4, <1>7, CommandsOfRun
    <3>3. (\A i \in 1 .. 3 : Output(p, i)' = p) /\ \A i \in 1 .. 4 : i \in 1 .. 3 \/ i = 4
      BY <1>1, <1>5, <1>7
    <3> QED BY <2>1, <3>1, <3>2, <3>3 DEF FilesOf
  <2>3. \A q \in Runs : q # p => FilesOf(q)'
    BY <1>3, <1>4, <2>1, FilesOfOther
  <2> QED BY <1>4, <1>6, <2>2, <2>3 DEF FilesInv
<1>8. CASE Turn(p, "replacing", k)
  <2>1. /\ planAt'[p] = "replacing" /\ step'[p] = k
        /\ \A q \in Runs : q # p => planAt'[q] = planAt[q] /\ step'[q] = step[q]
    BY <1>8 DEF Turn, PlaceInv
  <2>2. FilesOf(p)'
    BY <1>5, <2>1 DEF FilesOf
  <2>3. \A q \in Runs : q # p => FilesOf(q)'
    BY <1>3, <1>4, <2>1, FilesOfOther
  <2> QED BY <1>4, <1>6, <2>2, <2>3 DEF FilesInv
<1> QED BY <1>1, <1>7, <1>8 DEF Replace, StepOn, PlanGoto, Turn, PlaceInv

\* Whatever step of a planning run fails or is cut off, the files of a directory agree.
LEMMA FilesStep ==
  ASSUME PlaceInv, FilesInv, [PlanNext]_planVars
  PROVE  FilesInv'
<1>1. CASE UNCHANGED <<planAt, step, goalReserved, files>>
  BY <1>1 DEF FilesInv, FilesType, FilesOf, Output, Agree
<1>2. CASE PlanServerRestarts
  <2>1. files' = files /\ \A p \in Runs : planAt'[p] \in NotWorking
    BY <1>2 DEF PlanServerRestarts, PlanExecuting, PlaceInv, PlanPlaces, NotWorking
  <2> QED BY <2>1 DEF FilesInv, FilesType, FilesOf, Agree, NotWorking
<1>3. ASSUME NEW p \in Runs, Outside(p) \/ Reserves(p) \/ Releases(p) PROVE FilesInv'
  <2>1. \E place \in {"sent", "refused", "reserved", "done"} : Turn(p, place, 0) /\ UNCHANGED files
    BY <1>3 DEF Outside, Reserves, Releases
  <2> QED BY <2>1, FilesKept DEF FreePlaces, PlanPlaces
<1>4. ASSUME NEW p \in Runs, GoesOn(p) PROVE FilesInv'
  <2>1. \E place \in FreePlaces : Turn(p, place, 0) /\ UNCHANGED files /\ (place = "freezing" => p \notin Previews)
    BY <1>4, PlanAssumption DEF GoesOn, FreePlaces, PlanPlaces
  <2> QED BY <2>1, FilesKept
<1>5. ASSUME NEW p \in Previews, PreviewStarts(p) PROVE FilesInv'
  <2>1. p \in Runs /\ Turn(p, "invalidating", 0) /\ UNCHANGED files
    BY <1>5 DEF PreviewStarts, PlanGoto, Turn, Runs
  <2> QED BY <2>1, FilesKept
<1>6. ASSUME NEW p \in Runs, Frozen(p) PROVE FilesInv'
  <2>1. CASE p \in Plans
    <3>1. Turn(p, "invalidating", 0) /\ UNCHANGED files
      BY <1>6, <2>1 DEF Frozen, PlanGoto, Turn
    <3> QED BY <3>1, FilesKept
  <2>2. CASE p \notin Plans
    <3>1. Turn(p, "commands", 0) /\ UNCHANGED files
      BY <1>6, <2>2 DEF Frozen, PlanGoto, Turn
    <3>2. \A i \in 1 .. 3 : Output(p, i) = Nothing
      BY <1>6, <2>2 DEF Frozen, FilesInv, FilesOf, Runs
    <3> QED BY <3>1, <3>2, FilesKept
  <2> QED BY <2>1, <2>2
<1>7. ASSUME NEW p \in Runs, RunCommand(p) PROVE FilesInv'
  <2>1. (\A i \in 1 .. 3 : Output(p, i) = Nothing) /\ UNCHANGED files /\ planAt[p] = "commands"
    BY <1>7 DEF RunCommand, FilesInv, FilesOf
  <2>2. StepOn(p, Commands(p), "replacing") /\ step[p] + 1 \in Nat
    BY <1>7 DEF RunCommand, PlaceInv
  <2>3. CASE Turn(p, "replacing", 0)
    BY <2>1, <2>3, FilesKept
  <2>4. CASE Turn(p, "commands", step[p] + 1)
    BY <2>1, <2>2, <2>4, FilesKept
  <2> QED BY <2>1, <2>2, <2>3, <2>4, StepOnTurns
<1>8. Previews \subseteq Runs
  BY DEF Runs
<1> QED BY <1>1, <1>2, <1>3, <1>4, <1>5, <1>6, <1>7, <1>8, PlanStepKinds, FilesInvalidate, FilesReplace
      DEF PlanningRun
-----------------------------------------------------------------------------
(* What the topics show. *)

\* From its acceptance until it shows its own path a goal has the preview blank.
Blank == {"accepted", "waiting", "planning", "freezing", "invalidating", "commands", "replacing",
          "reading", "publishing"}

\* While a goal plans there is no preview; the one it shows is of its own trajectory.
ShownOf(p) ==
  /\ planAt[p] \in Blank \union {"showing"} => preview = Nothing
  /\ planAt[p] = "showing" => trajectory = content[p]

\* A Result has the goal's own trajectory, and the preview is that of the topic.
ShownInv ==
  /\ DOMAIN content = Plans
  /\ \A p \in Plans : content[p] \in {p, Nothing}
  /\ preview \in {trajectory, Nothing}
  /\ \A p \in Plans : ShownOf(p)

\* A goal goes from one place to another, with the topics and Results as they are.
LEMMA ShownGoes ==
  ASSUME PlaceInv, ShownInv, NEW p \in Plans, NEW place, PlanGoto(p, place), UNCHANGED <<topics, content>>,
         place \notin Blank \union {"showing"} \/ (place \in Blank /\ planAt[p] \in Blank)
  PROVE  ShownInv'
<1>1. planAt'[p] = place /\ \A q \in Plans : q # p => planAt'[q] = planAt[q]
  BY DEF PlanGoto, PlaceInv, Runs
<1>2. UNCHANGED <<preview, trajectory, content>>
  BY DEF topics
<1> QED BY <1>1, <1>2 DEF ShownInv, ShownOf, Blank

\* The turn of the goal that has the reservation, which may change all of it.
LEMMA ShownTurn ==
  ASSUME PlaceInv, ShownInv, NEW p \in Plans, NEW place, PlanGoto(p, place), Working(p),
         preview' \in {trajectory', Nothing}, ShownOf(p)', content'[p] \in {p, Nothing},
         DOMAIN content' = Plans, \A q \in Plans : q # p => content'[q] = content[q]
  PROVE  ShownInv'
<1>1. \A q \in Plans : q # p => planAt'[q] = planAt[q] /\ ~Working(q)
  BY DEF PlanGoto, PlaceInv, Runs
<1>2. \A q \in Plans : q # p => ShownOf(q)'
  BY <1>1 DEF ShownOf, Working, NotWorking, Blank
<1> QED BY <1>1, <1>2 DEF ShownInv

\* No step shows one plan's trajectory beside another's.
LEMMA ShownStep ==
  ASSUME PlaceInv, FilesInv, ShownInv, [PlanNext]_planVars
  PROVE  ShownInv'
<1>1. ASSUME UNCHANGED <<topics, content>>, \A p \in Plans : planAt'[p] = planAt[p]
      PROVE  ShownInv'
  BY <1>1 DEF ShownInv, ShownOf, topics
<1>2. CASE PlanServerRestarts
  BY <1>2 DEF PlanServerRestarts, PlanExecuting, ShownInv, ShownOf, Blank, Runs
<1>3. ASSUME NEW p \in Plans, PlanArrives(p) \/ PlanRejected(p) \/ PlanReserved(p) \/ Release(p) PROVE ShownInv'
  BY <1>3, ShownGoes DEF PlanArrives, PlanRejected, PlanReserved, Release, Blank
<1>4. ASSUME NEW p \in Plans, NEW verdict, PlanFinish(p, verdict) PROVE ShownInv'
  BY <1>4, ShownGoes DEF PlanFinish, Blank
<1>5. ASSUME NEW p \in Plans, FixtureBegins(p) \/ TipArrives(p) \/ LiveBegins(p) \/ Frozen(p) PROVE ShownInv'
  BY <1>5, ShownGoes DEF FixtureBegins, TipArrives, LiveBegins, Frozen, Blank
<1>6. ASSUME NEW p \in Plans, NEW last, NEW next \in {"commands", "replacing", "reading"},
             StepOn(p, last, next), planAt[p] \in {"invalidating", "commands", "replacing"},
             UNCHANGED <<topics, content>>
      PROVE  ShownInv'
  <2>1. CASE PlanGoto(p, next)
    BY <1>6, <2>1, ShownGoes DEF Blank
  <2> QED BY <1>6, <1>1, <2>1 DEF StepOn
<1>7. ASSUME NEW p \in Plans, Invalidate(p) \/ RunCommand(p) \/ Replace(p) PROVE ShownInv'
  BY <1>6, <1>7 DEF Invalidate, RunCommand, Replace
<1>8. ASSUME NEW p \in Plans, PlanAccepted(p) \/ ClearPreview(p) PROVE ShownInv'
  <2>1. /\ preview' = Nothing /\ content' = content
        /\ PlanGoto(p, "accepted") \/ PlanGoto(p, "transition")
    BY <1>8 DEF PlanAccepted, ClearPreview
  <2>2. planAt'[p] # "showing"
    BY <2>1 DEF PlanGoto, PlaceInv, Runs
  <2>3. Working(p)
    BY <1>8 DEF PlanAccepted, ClearPreview, Working, NotWorking
  <2> QED BY <2>1, <2>2, <2>3, ShownTurn DEF ShownInv, ShownOf
<1>9. ASSUME NEW p \in Plans, NEW v \in {p, Nothing}, planAt[p] \in Blank, PlanGoto(p, "publishing"),
             content' = [content EXCEPT ![p] = v], UNCHANGED topics
      PROVE  ShownInv'
  <2>1. planAt'[p] = "publishing" /\ Working(p) /\ preview = Nothing
    BY <1>9 DEF PlanGoto, PlaceInv, Runs, Working, NotWorking, Blank, ShownInv, ShownOf
  <2>2. /\ DOMAIN content' = Plans /\ content'[p] \in {p, Nothing}
        /\ \A q \in Plans : q # p => content'[q] = content[q]
    BY <1>9 DEF ShownInv
  <2> QED BY <1>9, <2>1, <2>2, ShownTurn DEF ShownOf, topics
<1>10. ASSUME NEW p \in Plans, PlansFixture(p) PROVE ShownInv'
  BY <1>4, <1>9, <1>10 DEF PlansFixture, Blank
<1>11. ASSUME NEW p \in Plans, ReadTrajectory(p) PROVE ShownInv'
  <2>1. files[Directory(p)]["trajectory"] = p
    BY <1>11, TheArtifacts DEF ReadTrajectory, FilesInv, FilesOf, Output, Runs
  <2> QED BY <1>4, <1>9, <1>11, <2>1 DEF ReadTrajectory, Blank
<1>12. ASSUME NEW p \in Plans, Publish(p) PROVE ShownInv'
  <2>1. preview = Nothing /\ Working(p) /\ UNCHANGED <<preview, content>> /\ trajectory' = content[p]
    BY <1>12 DEF Publish, ShownInv, ShownOf, Blank, Working, NotWorking
  <2>2. PlanGoto(p, "showing") /\ planAt'[p] = "showing"
    BY <1>12 DEF Publish, PlanGoto, PlaceInv, Runs
  <2> QED BY <2>1, <2>2, ShownTurn DEF ShownOf, ShownInv
<1>13. ASSUME NEW p \in Plans, Show(p) PROVE ShownInv'
  <2>1. Working(p) /\ UNCHANGED <<trajectory, content>> /\ preview' = content[p] /\ trajectory = content[p]
    BY <1>13 DEF Show, ShownInv, ShownOf, Working, NotWorking
  <2>2. PlanGoto(p, "shown") /\ planAt'[p] = "shown"
    BY <1>13 DEF Show, PlanGoto, PlaceInv, Runs
  <2> QED BY <2>1, <2>2, ShownTurn DEF ShownOf, ShownInv, Blank
<1>14. ASSUME NEW p \in Plans, PlanFails(p) \/ WaitCancelled(p) \/ Succeeds(p) PROVE ShownInv'
  BY <1>4, <1>14 DEF PlanFails, WaitCancelled, Succeeds
<1>15. ASSUME NEW p \in Previews, Preview(p) PROVE ShownInv'
  <2>1. UNCHANGED <<topics, content>>
    BY <1>15 DEF Preview, PreviewStarts, PlanningRun, Frozen, Invalidate, RunCommand, Replace, PreviewFails
  <2>2. \A q \in Plans : planAt'[q] = planAt[q]
    BY <1>15, PlanAssumption DEF Preview, PreviewStarts, PlanningRun, Frozen, Invalidate, RunCommand, Replace,
      PreviewFails, StepOn, PlanGoto, PlaceInv, Runs
  <2> QED BY <1>1, <2>1, <2>2
<1>16. ASSUME NEW p \in Plans, PlanCancel(p) PROVE ShownInv'
  BY <1>1, <1>16 DEF PlanCancel
<1>17. CASE UNCHANGED planVars
  BY <1>1, <1>17 DEF planVars, topics
<1> QED BY <1>2, <1>3, <1>5, <1>7, <1>8, <1>10, <1>11, <1>12, <1>13, <1>14, <1>15, <1>16, <1>17
      DEF PlanNext, PlanCallback, PlanningRun

-----------------------------------------------------------------------------
(* The observation slice, which no run removes. *)

\* A plan has put no file in its directory yet.
Fresh == {"unsent", "sent", "refused", "reserved", "accepted", "waiting", "planning", "freezing",
          "invalidating", "commands"}
NotRead == Fresh \union {"replacing", "reading"}

\* When a plan's trajectory is read all four files are its own; the next plan has
\* replaced the other three when it replaces the slice.
SliceOf(p) ==
  /\ planAt[p] \in Fresh => \A i \in 1 .. 3 : Output(p, i) # p
  /\ planAt[p] \in NotRead => content[p] = Nothing
  /\ content[p] = p => \A i \in 1 .. 3 : Output(p, i) = p => Output(p, 4) = p
SliceInv == \A p \in Plans : SliceOf(p)

\* A plan never goes back to where it had put no file, or had not read its trajectory.
LEMMA GoesForward ==
  ASSUME PlaceInv, [PlanNext]_planVars, NEW p \in Plans
  PROVE  (planAt'[p] \in Fresh => planAt[p] \in Fresh) /\ (planAt'[p] \in NotRead => planAt[p] \in NotRead)
<1> DEFINE Forward == (planAt'[p] \in Fresh => planAt[p] \in Fresh) /\ (planAt'[p] \in NotRead => planAt[p] \in NotRead)
<1>1. ASSUME planAt'[p] = planAt[p] PROVE Forward
  BY <1>1
<1>2. ASSUME NEW q \in Runs, NEW place, PlanGoto(q, place), place \in Fresh => planAt[q] \in Fresh,
             place \in NotRead => planAt[q] \in NotRead
      PROVE  Forward
  <2>1. planAt'[p] = IF p = q THEN place ELSE planAt[p]
    BY <1>2 DEF PlanGoto, PlaceInv, Runs
  <2> QED BY <1>2, <2>1
<1>3. CASE PlanServerRestarts
  BY <1>3 DEF PlanServerRestarts, Fresh, NotRead, Runs
<1>4. ASSUME NEW q \in Plans,
             \/ PlanArrives(q) \/ PlanRejected(q) \/ PlanReserved(q) \/ PlanAccepted(q) \/ ClearPreview(q)
             \/ Release(q) \/ PlanFails(q) \/ FixtureBegins(q) \/ WaitCancelled(q) \/ TipArrives(q)
             \/ PlansFixture(q) \/ LiveBegins(q) \/ ReadTrajectory(q) \/ Publish(q) \/ Show(q) \/ Succeeds(q)
      PROVE  Forward
  <2>1. \E place : /\ PlanGoto(q, place)
                   /\ (place \in Fresh => planAt[q] \in Fresh) /\ (place \in NotRead => planAt[q] \in NotRead)
    BY <1>4 DEF PlanArrives, PlanRejected, PlanReserved, PlanAccepted, ClearPreview, Release, PlanFails,
      FixtureBegins, WaitCancelled, TipArrives, PlansFixture, LiveBegins, ReadTrajectory, Publish, Show,
      Succeeds, PlanFinish, Fresh, NotRead
  <2> QED BY <1>2, <2>1 DEF Runs
<1>5. ASSUME NEW q \in Runs, PlanningRun(q) \/ PreviewStarts(q) \/ PreviewFails(q) PROVE Forward
  <2>1. \/ planAt' = planAt
        \/ \E place : /\ PlanGoto(q, place)
                      /\ (place \in Fresh => planAt[q] \in Fresh) /\ (place \in NotRead => planAt[q] \in NotRead)
    BY <1>5 DEF PlanningRun, Frozen, Invalidate, RunCommand, Replace, PreviewStarts, PreviewFails, StepOn,
      Fresh, NotRead
  <2> QED BY <1>1, <1>2, <2>1
<1>6. ASSUME NEW q \in Plans, PlanCancel(q) PROVE Forward
  BY <1>1, <1>6 DEF PlanCancel
<1>7. CASE UNCHANGED planVars
  BY <1>1, <1>7 DEF planVars
<1> QED BY <1>3, <1>4, <1>5, <1>6, <1>7 DEF PlanNext, PlanCallback, Preview, Runs

\* The steps that change what the slice is compared with.
LEMMA SliceSteps ==
  ASSUME [PlanNext]_planVars
  PROVE  \/ UNCHANGED <<files, content>>
         \/ \E p \in Plans : PlansFixture(p) \/ ReadTrajectory(p)
         \/ \E p \in Runs : Invalidate(p) \/ Replace(p)
<1>1. ASSUME NEW p \in Plans, PlanArrives(p) \/ PlanCancel(p) \/ PlanCallback(p)
      PROVE  UNCHANGED <<files, content>> \/ PlansFixture(p) \/ ReadTrajectory(p) \/ Invalidate(p) \/ Replace(p)
  BY <1>1 DEF PlanArrives, PlanCancel, PlanCallback, PlanRejected, PlanReserved, PlanAccepted, ClearPreview,
    Release, PlanFails, FixtureBegins, WaitCancelled, TipArrives, LiveBegins, PlanningRun, Frozen, RunCommand,
    Publish, Show, Succeeds, PlanFinish
<1>2. ASSUME NEW p \in Previews, Preview(p)
      PROVE  UNCHANGED <<files, content>> \/ Invalidate(p) \/ Replace(p)
  BY <1>2 DEF Preview, PreviewStarts, PlanningRun, Frozen, RunCommand, PreviewFails
<1>3. CASE PlanServerRestarts \/ UNCHANGED planVars
  BY <1>3 DEF PlanServerRestarts, planVars
<1> QED BY <1>1, <1>2, <1>3 DEF PlanNext, Runs

\* No step leaves an older slice beside a trajectory that has been read.
LEMMA SliceStep ==
  ASSUME PlaceInv, FilesInv, ShownInv, SliceInv, [PlanNext]_planVars
  PROVE  SliceInv'
<1> USE GoesForward
<1>1. CASE UNCHANGED <<files, content>>
  BY <1>1 DEF SliceInv, SliceOf, Output
<1>2. ASSUME NEW p \in Plans, PlansFixture(p) \/ ReadTrajectory(p) PROVE SliceInv'
  <2>1. files' = files
    BY <1>2 DEF PlansFixture, ReadTrajectory, PlanFinish
  <2>2. \A q \in Plans, i \in 1 .. 4 : Output(q, i)' = Output(q, i)
    BY <2>1 DEF Output
  <2>3. ASSUME NEW q \in Plans, q # p PROVE SliceOf(q)'
    <3>1. content'[q] = content[q]
      BY <1>2, <2>3 DEF PlansFixture, ReadTrajectory, PlanFinish, ShownInv
    <3> QED BY <2>2, <3>1 DEF SliceInv, SliceOf
  <2>4. planAt'[p] \notin NotRead
    BY <1>2 DEF PlansFixture, ReadTrajectory, PlanFinish, PlanGoto, PlaceInv, Runs, NotRead, Fresh
  <2>5. \A i \in 1 .. 3 : Output(p, i) = p => Output(p, 4) = p
    BY <1>2 DEF PlansFixture, ReadTrajectory, SliceInv, SliceOf, Fresh, FilesInv, FilesOf, Runs
  <2>6. SliceOf(p)'
    BY <2>2, <2>4, <2>5 DEF SliceOf, NotRead
  <2> QED BY <2>3, <2>6 DEF SliceInv
<1>3. ASSUME NEW p \in Runs, Invalidate(p) \/ Replace(p) PROVE SliceInv'
  <2> DEFINE k == step[p] + 1
             v == IF Invalidate(p) THEN Nothing ELSE p
  <2>1. k \in 1 .. 4 /\ v \in Runs \union {Nothing} /\ (Invalidate(p) => k \in 1 .. 3)
    BY <1>3, CommandsOfRun DEF Invalidate, Replace, PlaceInv, StepOf
  <2>2. files' = [files EXCEPT ![Directory(p)][Artifacts[k]] = v] /\ content' = content
    BY <1>3 DEF Invalidate, Replace
  <2>3. v = IF Invalidate(p) THEN Nothing ELSE p
    OBVIOUS
  <2> HIDE DEF k, v
  <2>4. /\ \A i \in 1 .. 4 : Output(p, i)' = IF i = k THEN v ELSE Output(p, i)
        /\ \A d \in Directories : d # Directory(p) => files'[d] = files[d]
    BY <2>1, <2>2, OutputChanges
  <2>5. CASE p \in Previews
    <3>1. \A q \in Plans, i \in 1 .. 4 : Output(q, i)' = Output(q, i)
      BY <2>4, <2>5, PlanAssumption DEF Output, Directory, Directories
    <3> QED BY <2>2, <3>1 DEF SliceInv, SliceOf
  <2>6. CASE p \in Plans
    <3>1. \A q \in Plans, i \in 1 .. 4 : Output(q, i)' = IF i = k THEN v ELSE Output(q, i)
      BY <2>4, <2>6 DEF Output, Directory
    <3>2. ASSUME NEW q \in Plans, Invalidate(p) PROVE SliceOf(q)'
      <4>1. v = Nothing /\ Nothing # q /\ k # 4
        BY <2>1, <2>3, <3>2, PlanAssumption
      <4> QED BY <2>2, <3>1, <4>1 DEF SliceInv, SliceOf
    <3>3. ASSUME NEW q \in Plans, Replace(p) PROVE SliceOf(q)'
      <4>1. planAt[p] = "replacing" /\ v = p /\ content[p] # p
        BY <2>3, <2>6, <3>3, PlanAssumption DEF Replace, Invalidate, SliceInv, SliceOf, NotRead
      <4>2. \A i \in 1 .. 3 : Output(q, i) \in {p, Nothing}
        BY <2>6, <4>1 DEF FilesInv, FilesOf, Output, Directory, Runs
      <4>3. \A i \in 1 .. 3 : Output(q, i)' \in {p, Nothing}
        BY <3>1, <4>1, <4>2
      <4>4. planAt'[p] \notin Fresh
        BY <2>6, <4>1, GoesForward DEF Fresh
      <4>5. CASE q = p
        BY <2>2, <4>1, <4>4, <4>5 DEF SliceInv, SliceOf
      <4>6. CASE q # p
        <5>1. \A i \in 1 .. 3 : Output(q, i)' # q
          BY <4>3, <4>6, PlanAssumption
        <5> QED BY <2>2, <5>1 DEF SliceInv, SliceOf
      <4> QED BY <4>5, <4>6
    <3> QED BY <1>3, <3>2, <3>3 DEF SliceInv
  <2> QED BY <2>5, <2>6 DEF Runs
<1> QED BY <1>1, <1>2, <1>3, SliceSteps

PlanInv == PlaceInv /\ FilesInv /\ ShownInv /\ SliceInv

\* In every reachable state one goal has the reservation, the files of a directory are
\* the prefix of one run's, and what is shown is of one plan.
THEOREM PlanInvariant == PlanSpec => []PlanInv
<1>1. PlanInit => PlanInv
  <2> SUFFICES ASSUME PlanInit PROVE PlanInv
    OBVIOUS
  <2>1. PlaceInv
    BY DEF PlanInit, PlaceInv, PlanPlaces, PreviewPlaces, StepOf, Working, NotWorking, Runs
  <2>2. FilesType /\ \A d \in Directories, i \in 1 .. 3 : files[d][Artifacts[i]] = Nothing
    <3>1. {Artifacts[i] : i \in 1 .. 4} = ArtifactNames
      BY DEF Artifacts, ArtifactNames
    <3>2. files = [d \in Directories |-> [a \in ArtifactNames |-> Nothing]]
      BY <3>1 DEF PlanInit, Directories
    <3> QED BY <3>2, TheArtifacts DEF FilesType
  <2>3. FilesInv
    BY <2>2 DEF PlanInit, FilesInv, FilesOf, Agree, Runs
  <2>4. ShownInv
    BY DEF PlanInit, ShownInv, ShownOf, Blank, Runs
  <2>5. SliceInv
    BY <2>2, PlanAssumption DEF PlanInit, SliceInv, SliceOf, Output, Directory, Directories, NotRead, Fresh, Runs
  <2> QED BY <2>1, <2>3, <2>4, <2>5 DEF PlanInv
<1>2. PlanInv /\ [PlanNext]_planVars => PlanInv'
  BY PlaceStep, FilesStep, ShownStep, SliceStep DEF PlanInv
<1> QED BY <1>1, <1>2, PTL DEF PlanSpec

\* The invariant puts the artifacts and the topics of one run together.
LEMMA PlanInvAgrees == PlanInv => OutputsOfOneRun
<1> SUFFICES ASSUME PlanInv PROVE OutputsOfOneRun
  OBVIOUS
<1>1. ASSUME NEW d \in DOMAIN files, NEW a \in ReadTogether, NEW b \in ReadTogether,
             files[d][a] # Nothing, files[d][b] # Nothing
      PROVE  files[d][a] = files[d][b]
  <2>1. d \in Directories
    BY DEF PlanInv, FilesInv, FilesType
  <2>2. (\E i \in 1 .. 3 : a = Artifacts[i]) /\ (\E j \in 1 .. 3 : b = Artifacts[j])
    BY TheArtifacts DEF ReadTogether
  <2> QED BY <1>1, <2>1, <2>2 DEF PlanInv, FilesInv, Agree
<1>2. ASSUME NEW p \in Plans, NEW a \in ReadTogether, content[p] = p, files[Directory(p)][a] = p
      PROVE  files[Directory(p)]["observation_slice"] = p
  <2>1. PICK i \in 1 .. 3 : a = Artifacts[i]
    BY TheArtifacts DEF ReadTogether
  <2>2. Output(p, 4) = p
    BY <1>2, <2>1 DEF PlanInv, SliceInv, SliceOf, Output
  <2> QED BY <2>2 DEF Output, Artifacts
<1> QED BY <1>1, <1>2 DEF OutputsOfOneRun, PlanInv, ShownInv

\* The map, the request and the trajectory in a directory are of one run at every moment,
\* and once a plan's trajectory has been read the observation slice beside it is its own;
\* only beside a run that did not get that far may an older slice lie.
THEOREM FilesOfOneRun == PlanSpec => []OutputsOfOneRun
BY PlanInvariant, PlanInvAgrees, PTL
-----------------------------------------------------------------------------
(* The client, next to the servers. *)

\* In the rehearsal each server does what it does alone.
LEMMA ServersStep ==
  ASSUME [RehearsalNext]_rehearsalVars
  PROVE  [ShadowNext]_shadowVars /\ [PlanNext]_planVars
<1>1. CASE UNCHANGED rehearsalVars
  BY <1>1 DEF rehearsalVars
<1>2. CASE OthersNext
  BY <1>2 DEF OthersNext, ShadowNext, PlanNext
<1>3. CASE Client
  <2>1. CASE \/ ClientHears \/ StatusBad \/ StatusGood \/ NotSent \/ PlanResponse \/ PlanResult
             \/ FollowResponse \/ FollowResult \/ WaitFails \/ Cleaned \/ GivesUp
    BY <2>1 DEF ClientHears, StatusBad, StatusGood, NotSent, PlanResponse, PlanResult, FollowResponse,
      FollowResult, WaitFails, Cleaned, GivesUp, servers
  <2>2. CASE SendPlan \/ SendFollow \/ CancelRequest
    BY <2>2, RehearsalAssumption DEF SendPlan, SendFollow, CancelRequest, ShadowNext, PlanNext, Goals
  <2> QED BY <1>3, <2>1, <2>2 DEF Client
<1> QED BY <1>1, <1>2, <1>3 DEF RehearsalNext

\* A goal that is over stays so.
LEMMA PlanStaysDone ==
  ASSUME PlaceInv, [PlanNext]_planVars, planAt[OwnPlan] = "done"
  PROVE  planAt'[OwnPlan] = "done"
<1> OwnPlan \in Runs
  BY RehearsalAssumption DEF Runs
<1> ~Working(OwnPlan)
  BY DEF Working, NotWorking
<1>1. CASE PlanServerRestarts
  BY <1>1 DEF PlanServerRestarts, PlanExecuting
<1>2. ASSUME NEW p \in Runs, Outside(p) \/ Reserves(p) \/ Releases(p) \/ GoesOn(p)
      PROVE  planAt'[OwnPlan] = "done"
  BY <1>2 DEF Outside, Reserves, Releases, GoesOn, Turn, PlaceInv, Working
<1>3. ASSUME NEW p \in Runs, PreviewStarts(p) \/ PlanningRun(p)
      PROVE  planAt'[OwnPlan] = "done"
  BY <1>3 DEF PreviewStarts, PlanningRun, Frozen, Invalidate, RunCommand, Replace, StepOn, PlanGoto, PlaceInv
<1> QED BY <1>1, <1>2, <1>3, PlanStepKinds

\* A Follow that is done stays done.
LEMMA FollowStaysDone ==
  ASSUME LeaseInv, [ShadowNext]_shadowVars, at[OwnFollow] = "done"
  PROVE  at'[OwnFollow] = "done"
<1>1. OwnFollow \in Goals
  BY RehearsalAssumption DEF Goals
<1> QED BY <1>1, CallbackMoves DEF LeaseInv, Plain, Takes, Gives, Goes

Over(g) == IF g = OwnPlan THEN planAt[g] = "done" ELSE at[g] = "done"

\* A goal the client has heard the acceptance of is over, or it has its handle still:
\* it lets go of the handle with the Result, and without one it does not end.
ClientInv ==
  /\ accepted \subseteq {OwnPlan, OwnFollow} /\ known \in accepted \union {Nothing}
  /\ \A g \in accepted : g # known => Over(g)
  /\ client = "ended" => \A g \in accepted : Over(g)
  /\ client \in {"cancel", "cancelling"} => known # Nothing
  /\ client = "planResult" => known = OwnPlan
  /\ client = "followResult" => known = OwnFollow
  /\ client \in {"status", "sendPlan", "planResponse", "followStatus", "sendFollow", "followResponse"} =>
       known = Nothing

\* What the client waits for is over when it goes on.
LEMMA ClientStep ==
  ASSUME ClientInv, PlaceInv, LeaseInv, [RehearsalNext]_rehearsalVars
  PROVE  ClientInv'
<1> USE RehearsalAssumption, PlanAssumption DEF ClientInv
<1>1. \A g \in accepted : Over(g) => Over(g)'
  BY ServersStep, PlanStaysDone, FollowStaysDone DEF Over
<1>2. ASSUME UNCHANGED <<client, known, accepted>> PROVE ClientInv'
  BY <1>1, <1>2
<1>3. CASE UNCHANGED rehearsalVars \/ OthersNext \/ ClientHears
  BY <1>2, <1>3 DEF rehearsalVars, clientVars, OthersNext, ClientHears
<1>4. ASSUME Fail, UNCHANGED accepted, client \notin {"ended", "cancel", "cancelling"} PROVE ClientInv'
  BY <1>1, <1>4 DEF Fail
<1>5. CASE StatusBad \/ NotSent \/ WaitFails
  BY <1>4, <1>5 DEF StatusBad, NotSent, WaitFails, Waiting
<1>6. CASE StatusGood \/ SendPlan \/ SendFollow
  BY <1>1, <1>6 DEF StatusGood, SendPlan, SendFollow
<1>7. CASE PlanResponse
  BY <1>1, <1>4, <1>7 DEF PlanResponse
<1>8. CASE FollowResponse
  BY <1>1, <1>4, <1>8 DEF FollowResponse
<1>9. CASE PlanResult
  <2>1. Over(OwnPlan)
    BY <1>9 DEF PlanResult, Over
  <2> QED BY <1>1, <1>9, <2>1 DEF PlanResult
<1>10. CASE FollowResult
  <2>1. Over(OwnFollow)
    BY <1>10 DEF FollowResult, Over
  <2> QED BY <1>1, <1>10, <2>1 DEF FollowResult
<1>11. CASE CancelRequest \/ GivesUp
  BY <1>1, <1>11 DEF CancelRequest, GivesUp
<1>12. CASE Cleaned
  <2>1. Over(known)
    BY <1>12 DEF Cleaned, Over
  <2> QED BY <1>1, <1>12, <2>1 DEF Cleaned
<1> QED BY <1>3, <1>5, <1>6, <1>7, <1>8, <1>9, <1>10, <1>11, <1>12 DEF RehearsalNext, Client

\* In the rehearsal the servers keep what they promise, whatever the client does.
THEOREM RehearsalKeepsServers == RehearsalSpec => ShadowSpec /\ PlanSpec
<1>1. RehearsalInit => ShadowInit /\ PlanInit
  BY DEF RehearsalInit
<1>2. [RehearsalNext]_rehearsalVars => [ShadowNext]_shadowVars /\ [PlanNext]_planVars
  BY ServersStep
<1> QED BY <1>1, <1>2, PTL DEF RehearsalSpec, ShadowSpec, PlanSpec

\* The client of plan_follow_shadow goes away only when the goals it knows of are over.
THEOREM RehearsalLeavesNothing == RehearsalSpec => []ClientLeavesNothing
<1>1. RehearsalInit => ClientInv
  BY DEF RehearsalInit, ClientInv
<1>2. ClientInv /\ PlaceInv /\ LeaseInv /\ [RehearsalNext]_rehearsalVars => ClientInv'
  BY ClientStep
<1>3. ClientInv => ClientLeavesNothing
  BY DEF ClientInv, ClientLeavesNothing, Over
<1>4. PlanInv => PlaceInv
  BY DEF PlanInv
<1> QED BY <1>1, <1>2, <1>3, <1>4, RehearsalKeepsServers, ShadowLeaseInvariant, PlanInvariant, PTL
      DEF RehearsalSpec
==============================================================================
