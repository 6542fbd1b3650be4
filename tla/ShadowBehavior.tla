----------------------------- MODULE ShadowBehavior -----------------------------
(***************************************************************************)
(* The machine behaviour server of a shadow runtime                        *)
(* (mission/runtime_ros/follow_action_server.py): Follow and ReturnHome    *)
(* share one lease, nothing moves, and RuntimeStatus tells everybody who   *)
(* has the lease.                                                          *)
(*                                                                         *)
(* Every callback runs in a thread of its own.  What one does under _lock  *)
(* is one step.  _publish_status() reads under the lock and publishes      *)
(* after it: two steps.  The samples an execute callback works on are left *)
(* out: its loop ends as it likes.                                         *)
(***************************************************************************)
CONSTANTS
  Follows,       \* goals sent to /excavator/follow
  Homes          \* goals sent to /excavator/return_home

Goals == Follows \union Homes

\* The status timer has a thread as well.
ASSUME ShadowAssumption == "timer" \notin Goals

VARIABLES
  at,             \* per goal: where the thread of its callback is
  seen,           \* per goal and for the timer: the status read and not yet published
  cancelled,      \* goals whose is_cancel_requested is set
  outcome,        \* per goal: outcome of the Result
  activeBehavior, \* _active_behavior
  leaseHeld,      \* _lease_held
  finishing,      \* _finishing
  rejection,      \* _last_rejection_reason
  shown,          \* the status last published, latched
  context,        \* rclpy.ok()
  raised          \* goals whose callback an exception has ended

shadowVars ==
  <<at, seen, cancelled, outcome, activeBehavior, leaseHeld, finishing, rejection, shown, context, raised>>
leaseState == <<activeBehavior, leaseHeld, finishing, rejection>>

Behavior(g) == IF g \in Follows THEN "Follow" ELSE "ReturnHome"

Status == [active |-> activeBehavior, quiescent |-> ~leaseHeld, rejection |-> rejection]
Unread == [active |-> "unread", quiescent |-> FALSE, rejection |-> ""]

\* The constructor publishes the first status; the timer publishes it again.
ShadowInit ==
  /\ at = [g \in Goals |-> "unsent"] /\ seen = [t \in Goals \union {"timer"} |-> Unread]
  /\ cancelled = {} /\ outcome = [g \in Goals |-> ""]
  /\ activeBehavior = "" /\ leaseHeld = FALSE /\ finishing = FALSE /\ rejection = ""
  /\ shown = Status /\ context = TRUE /\ raised = {}

Goto(g, place) == at' = [at EXCEPT ![g] = place]

-----------------------------------------------------------------------------
(* _publish_status(), the last thing done at each of these places; from each  *)
(* the thread goes on to the next.  Once the context is down publish() raises *)
(* and no timer fires.                                                        *)

Publishing == [rejected |-> "refused", reserved |-> "accepted",
               terminal |-> "transition", completed |-> "done"]

ReadStatus(g) ==
  /\ at[g] \in DOMAIN Publishing /\ seen[g] = Unread /\ g \notin raised
  /\ seen' = [seen EXCEPT ![g] = Status]
  /\ UNCHANGED <<at, cancelled, outcome, leaseState, shown, context, raised>>

PublishStatus(g) ==
  /\ seen[g] # Unread /\ context
  /\ shown' = seen[g] /\ seen' = [seen EXCEPT ![g] = Unread]
  /\ Goto(g, Publishing[at[g]])
  /\ UNCHANGED <<cancelled, outcome, leaseState, context, raised>>

\* The callback ends where it is: no answer, no transition, no Result.  In the try
\* statement of an execute callback _abort() comes first, which begins the terminal again
\* and raises as well; what rclpy then makes of the goal reaches nobody.
PublishRaises(g) ==
  /\ seen[g] # Unread /\ ~context
  /\ raised' = raised \union {g} /\ seen' = [seen EXCEPT ![g] = Unread]
  /\ finishing' \in IF at[g] = "completed" THEN BOOLEAN ELSE {finishing}
  /\ UNCHANGED <<at, cancelled, outcome, activeBehavior, leaseHeld, rejection, shown, context>>

\* MUTANT: the timer repeats the status it published first.
TimerReadsFirst ==
  /\ seen["timer"] = Unread /\ context
  /\ seen' = [seen EXCEPT !["timer"] = [active |-> "", quiescent |-> TRUE, rejection |-> ""]]
  /\ UNCHANGED <<at, cancelled, outcome, leaseState, shown, context, raised>>

\* _status_timer, twice a second.
TimerReads ==
  /\ seen["timer"] = Unread /\ context
  /\ seen' = [seen EXCEPT !["timer"] = Status]
  /\ UNCHANGED <<at, cancelled, outcome, leaseState, shown, context, raised>>

TimerPublishes ==
  /\ seen["timer"] # Unread
  /\ shown' = IF context THEN seen["timer"] ELSE shown
  /\ seen' = [seen EXCEPT !["timer"] = Unread]
  /\ UNCHANGED <<at, cancelled, outcome, leaseState, context, raised>>

-----------------------------------------------------------------------------
(* Goal and cancel callbacks. *)

Arrives(g) ==
  /\ at[g] = "unsent" /\ Goto(g, "sent")
  /\ UNCHANGED <<seen, cancelled, outcome, leaseState, shown, context, raised>>

\* _reject() of a digest that does not match, an expired or eligible trajectory, an
\* unknown pose or another pose set: one reason here.
Reject(g) ==
  /\ at[g] = "sent" /\ context
  /\ rejection' = "INVALID" /\ Goto(g, "rejected")
  /\ UNCHANGED <<seen, cancelled, outcome, activeBehavior, leaseHeld, finishing, shown, context, raised>>

\* MUTANT: the lease counts as free as soon as it is not held.
BusyHeld == leaseHeld

Busy == activeBehavior # "" \/ finishing

\* _reserve_lease(), under the lock.
ReserveLease(g) ==
  /\ at[g] = "sent" /\ context
  /\ IF Busy
     THEN rejection' = "BUSY" /\ Goto(g, "rejected") /\ UNCHANGED <<activeBehavior, leaseHeld>>
     ELSE rejection' = "" /\ Goto(g, "reserved") /\ activeBehavior' = Behavior(g) /\ leaseHeld' = TRUE
  /\ UNCHANGED <<seen, cancelled, outcome, finishing, shown, context, raised>>

\* _on_cancel() accepts, as long as the goal has not ended.
OnCancel(g) ==
  /\ at[g] \in {"accepted", "loop", "terminal", "transition"}
  /\ cancelled' = cancelled \union {g}
  /\ UNCHANGED <<at, seen, outcome, leaseState, shown, context, raised>>

-----------------------------------------------------------------------------
(* Execute callbacks. *)

Begin(g) ==
  /\ at[g] = "accepted" /\ Goto(g, "loop")
  /\ UNCHANGED <<seen, cancelled, outcome, leaseState, shown, context, raised>>

\* _finish() and _finish_return_home() up to _prepare_terminal(): the backend cannot
\* move and always confirms quiescence.
Finish(g, verdict) ==
  /\ outcome' = [outcome EXCEPT ![g] = verdict]
  /\ leaseHeld' = FALSE /\ finishing' = TRUE
  /\ Goto(g, "terminal")
  /\ UNCHANGED <<seen, cancelled, activeBehavior, rejection, shown, context, raised>>

\* The head of the loop: cancel goes first.
Cancelled(g) == at[g] = "loop" /\ context /\ g \in cancelled /\ Finish(g, "cancelled")

\* The rest of the loop, the handlers included.
LoopEnds(g) ==
  /\ at[g] = "loop" /\ context
  /\ \E verdict \in {"succeeded", "failed"} : Finish(g, verdict)

ContextStopped(g) == at[g] = "loop" /\ ~context /\ Finish(g, "failed")

\* The goal's own transition, which may raise with the context down, and then in any case
\* _complete_terminal(), under the lock.
CompleteTerminal(g) ==
  /\ at[g] = "transition"
  /\ activeBehavior' = "" /\ finishing' = FALSE
  /\ Goto(g, "completed")
  /\ UNCHANGED <<seen, cancelled, outcome, leaseHeld, rejection, shown, context, raised>>

\* Ctrl-C: spin() is over, and no goal is taken any more.
ContextDown ==
  /\ context /\ context' = FALSE
  /\ UNCHANGED <<at, seen, cancelled, outcome, leaseState, shown, raised>>

-----------------------------------------------------------------------------

Callback(g) ==
  \/ Reject(g) \/ ReserveLease(g) \/ ReadStatus(g) \/ PublishStatus(g) \/ PublishRaises(g)
  \/ Begin(g) \/ Cancelled(g) \/ LoopEnds(g) \/ ContextStopped(g) \/ CompleteTerminal(g)

Timer == TimerReads \/ TimerPublishes

ShadowNext == Timer \/ ContextDown \/ \E g \in Goals : Arrives(g) \/ OnCancel(g) \/ Callback(g)

ShadowSpec == ShadowInit /\ [][ShadowNext]_shadowVars

-----------------------------------------------------------------------------

Places == {"unsent", "sent", "rejected", "refused", "reserved", "accepted", "loop",
           "terminal", "transition", "completed", "done"}
AnyStatus == [active : {"", "Follow", "ReturnHome", "unread"}, quiescent : BOOLEAN,
              rejection : {"", "BUSY", "INVALID"}]

\* Types.
ShadowTypeOK ==
  /\ at \in [Goals -> Places] /\ seen \in [Goals \union {"timer"} -> AnyStatus]
  /\ cancelled \subseteq Goals /\ outcome \in [Goals -> {"", "succeeded", "cancelled", "failed"}]
  /\ activeBehavior \in {"", "Follow", "ReturnHome"} /\ leaseHeld \in BOOLEAN /\ finishing \in BOOLEAN
  /\ rejection \in {"", "BUSY", "INVALID"}
  /\ shown \in AnyStatus /\ context \in BOOLEAN /\ raised \subseteq Goals

\* What a client of the server sees of the lease.
LeaseStatus == [g \in Goals |->
  CASE at[g] \in {"unsent", "sent"} -> "waiting"
    [] at[g] \in {"rejected", "refused"} -> "refused"
    [] at[g] \in {"completed", "done"} -> "closed"
    [] OTHER -> "holding"]

Lease == INSTANCE MotionLease WITH
  status <- LeaseStatus,
  claim <- [g \in Goals |-> LeaseStatus[g] = "closed"],
  force <- [g \in Goals |-> FALSE]

\* The shadow server keeps the promise of the live one, whose place it takes: one goal at
\* a time from the reservation to the end of its terminal, although the lease passes
\* through three fields that change at different moments.  A callback that an exception
\* ends in its terminal keeps the lease.  Nothing moves here, so that is what is left of
\* the promise.
ShadowKeepsLease == Lease!LeaseSpec

\* RuntimeStatus is published outside the lock, so an old one may overtake a newer one
\* and stay latched; the timer heals it.  In a runtime that is up, once goals have come
\* and gone, it tells the truth and keeps to it.  One that goes down may leave an older
\* status behind.
StatusCatchesUp == <>[](context => shown = Status)
=================================================================================
