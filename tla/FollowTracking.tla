----------------------------- MODULE FollowTracking -----------------------------
(***************************************************************************)
(* One Follow on the live server, as a consumer of Machine States: the     *)
(* sampling part of _execute_follow() in                                   *)
(* runtime_bridge/apps/live_machine_behavior_server.py, with               *)
(* FollowSession.observe() (mission/follow.py) and                         *)
(* TrajectoryTracker.advance() (mission/trajectory_tracker.py).            *)
(*                                                                         *)
(* The lease, the heartbeat and what is sent are LiveBehavior's; here they *)
(* are one action, Interrupted.  A bucket tip is the set of the waypoints  *)
(* it is within the tolerance of.                                          *)
(***************************************************************************)
EXTENDS StateStream

CONSTANTS
  Tips,        \* where the bucket tip of a Machine State may be
  Waypoints,   \* number of waypoints of the trajectory
  Dwell,       \* waypoint_dwell_s
  Timeout,     \* tracking_timeout_s
  TurnTicks    \* what waiting for a tip, or the policy, may take

ASSUME TrackingAssumption ==
  /\ Waypoints \in Nat \ {0} /\ Dwell \in Nat \ {0} /\ Timeout \in Nat \ {0}
  /\ TurnTicks \in Nat /\ TurnTicks <= MaxAge
  /\ Tips \subseteq SUBSET (1 .. Waypoints)

VARIABLES
  phase,      \* "idle", "loop" (for a state), "tip" (for its tip), "ended"
  outcome,    \* reason_code of the Result; "" before
  acceptedAt, \* session.accepted_at_s
  seen,       \* last_sequence
  sample,     \* last_sample
  session,    \* the FollowSession and its tracker; times and stamps 0 are None
  patience,   \* ticks the current turn of the loop may still take
  log         \* history: when each sample was accepted, and the sample

followVars == <<phase, outcome, acceptedAt, seen, sample, session, patience, log>>
vars       == <<streamVars, followVars>>

NewSession == [index |-> 1, started |-> 0, within |-> 0, stamp |-> 0]

Init ==
  /\ StreamInit
  /\ phase = "idle" /\ outcome = "" /\ acceptedAt = 0 /\ seen = 0 /\ sample = NoSample
  /\ session = NewSession /\ patience = 0 /\ log = << >>

-----------------------------------------------------------------------------
(* The session, without side effects. *)

\* MUTANT: a sample made before the Follow was accepted counts.
NewToSessionEver(stamp) == session.stamp # 0 => stamp > session.stamp

\* The condition at the head of observe().
NewToSession(stamp) ==
  /\ stamp > acceptedAt
  /\ session.stamp # 0 => stamp > session.stamp

\* started_at, within_since and the two verdicts of advance().
Started == IF session.started = 0 THEN now ELSE session.started

TimedOut == now - Started > Timeout

\* MUTANT: leaving the waypoint does not restart the dwell.
WithinKept(tip) == IF session.within = 0 /\ session.index \in tip THEN now ELSE session.within

Within(tip) ==
  IF session.index \notin tip THEN 0
  ELSE IF session.within = 0 THEN now ELSE session.within

Dwelt(tip) == Within(tip) # 0 /\ now - Within(tip) >= Dwell

\* MUTANT: the index moves past the last waypoint.
AdvancePastLast(tip) ==
  IF TimedOut THEN [session EXCEPT !.started = Started]
  ELSE [session EXCEPT
          !.started = Started,
          !.within  = IF Dwelt(tip) THEN 0 ELSE Within(tip),
          !.index   = IF Dwelt(tip) THEN @ + 1 ELSE @]

\* TrajectoryTracker.advance().  The tolerance of 1e-12 s is rounding and left out.
Advance(tip) ==
  IF TimedOut THEN [session EXCEPT !.started = Started]
  ELSE [session EXCEPT
          !.started = Started,
          !.within  = IF Dwelt(tip) THEN 0 ELSE Within(tip),
          !.index   = IF Dwelt(tip) /\ @ < Waypoints THEN @ + 1 ELSE @]

\* The tracker's completed, with which the loop ends.
Completes(tip) == ~TimedOut /\ Dwelt(tip) /\ session.index = Waypoints

-----------------------------------------------------------------------------
(* The execute callback. *)

\* The setup of _execute_follow().  It reads the number and the state one after the
\* other without the lock; a state that falls in between is as if it had been late.
FollowStarts ==
  /\ phase = "idle" /\ receiving
  /\ phase' = "loop" /\ patience' = 0
  /\ acceptedAt' = now /\ seen' = stateSequence /\ sample' = latestState
  /\ UNCHANGED <<outcome, session, log, streamVars>>

FollowEnds(reason) == phase' = "ended" /\ outcome' = reason /\ patience' = 0

\* _wait_state() returns the newest state and the loop turns to its tip.
TakesState ==
  /\ phase = "loop" /\ stateSequence > seen
  /\ phase' = "tip" /\ patience' = TurnTicks
  /\ seen' = stateSequence /\ sample' = latestState
  /\ UNCHANGED <<outcome, acceptedAt, session, log, streamVars>>

\* MUTANT: only a Follow that never saw a state gives up.
GivesUpUnseen == stateSequence = seen /\ sample.at = 0

\* _wait_state() returns none, and the last state is too old or there was none.
GivesUp == stateSequence = seen /\ ~Fresh(sample)

StateStale ==
  /\ phase = "loop" /\ GivesUp
  /\ FollowEnds("STATE_STALE")
  /\ UNCHANGED <<acceptedAt, seen, sample, session, log, streamVars>>

TipMissing ==
  /\ phase = "tip" /\ patience = 0
  /\ FollowEnds("STATE_TIP_NOT_SYNCHRONIZED")
  /\ UNCHANGED <<acceptedAt, seen, sample, session, log, streamVars>>

\* The tip of the state is there, but the session does not take it.
SampleIgnored ==
  /\ phase = "tip" /\ ~NewToSession(sample.stamp)
  /\ phase' = "loop" /\ patience' = 0
  /\ UNCHANGED <<outcome, acceptedAt, seen, sample, session, log, streamVars>>

\* The tip is there and the session takes it: timeout, success or another turn.
SampleTaken ==
  /\ phase = "tip" /\ NewToSession(sample.stamp)
  /\ \E tip \in Tips :
       /\ log' = Append(log, [t |-> now, made |-> sample.made, tip |-> tip])
       /\ session' = [Advance(tip) EXCEPT !.stamp = sample.stamp]
       /\ IF Completes(tip) THEN FollowEnds("SUCCEEDED")
          ELSE IF TimedOut THEN FollowEnds("TIMEOUT")
          ELSE phase' = "loop" /\ patience' = TurnTicks /\ outcome' = outcome
  /\ UNCHANGED <<acceptedAt, seen, sample, streamVars>>

\* A cancel, a lost heartbeat, a closed gate or an exception.
Interrupted ==
  /\ phase = "loop"
  /\ FollowEnds("INTERRUPTED")
  /\ UNCHANGED <<acceptedAt, seen, sample, session, log, streamVars>>

\* A turn of the loop takes no longer than its waits and the policy may.
FollowWaits ==
  \/ phase \in {"idle", "ended"}
  \/ patience > 0
  \/ phase = "loop" /\ stateSequence = seen /\ ~GivesUp

Tick ==
  /\ FollowWaits /\ TimePasses
  /\ patience' = IF patience > 0 THEN patience - 1 ELSE 0
  /\ UNCHANGED <<phase, outcome, acceptedAt, seen, sample, session, log>>

Stream ==
  /\ OrinSends \/ OrinRestarts \/ Loses \/ StartReceiver \/ Receive
  /\ UNCHANGED followVars

Next ==
  \/ FollowStarts \/ TakesState \/ StateStale \/ TipMissing
  \/ SampleIgnored \/ SampleTaken \/ Interrupted
  \/ Tick \/ Stream

Spec == Init /\ [][Next]_vars

-----------------------------------------------------------------------------

\* Types of the stream and of the Follow.
TypeOK ==
  /\ StreamTypeOK
  /\ phase \in {"idle", "loop", "tip", "ended"}
  /\ outcome \in {"", "STATE_STALE", "STATE_TIP_NOT_SYNCHRONIZED", "SUCCEEDED", "TIMEOUT", "INTERRUPTED"}
  /\ acceptedAt \in 0 .. MaxTime /\ seen \in 0 .. stateSequence /\ sample \in Sample
  /\ session \in [index : 1 .. Waypoints, started : Nat, within : Nat, stamp : Int]
  /\ patience \in 0 .. TurnTicks
  /\ log \in Seq([t : Nat, made : Nat, tip : Tips])

\* A Follow that succeeded was at each waypoint, in their order, for the whole
\* dwell time without a sample that says otherwise in between.
SuccessMeansDwelt ==
  outcome = "SUCCEEDED" =>
    \E from, to \in [1 .. Waypoints -> DOMAIN log] : \A w \in 1 .. Waypoints :
      /\ from[w] <= to[w] /\ log[to[w]].t - log[from[w]].t >= Dwell
      /\ \A k \in from[w] .. to[w] : w \in log[k].tip
      /\ w > 1 => to[w - 1] < from[w]

\* A Follow does not succeed after its tracking timeout, and one that timed out
\* had that time.
TimeoutDecides ==
  /\ outcome = "SUCCEEDED" => Last(log).t - log[1].t <= Timeout
  /\ outcome = "TIMEOUT" => Last(log).t - log[1].t > Timeout

\* src/README.md: a Follow lasts until it arrives, until the timeout of its
\* trajectory or until something stops it.  Once it has taken a sample, it is over
\* at the latest when the timeout, the age limit of the states and a turn of the
\* loop have passed, even if states come in all the time.
EndsInTime ==
  phase \in {"loop", "tip"} /\ log # << >> =>
    now <= log[1].t + Timeout + MaxAge + TurnTicks + 1

\* While the Orin's clock is not stepped, no sample counts that was made before the
\* Follow was accepted, by more than that clock is ahead, and each was made after
\* the one before it.
NewSamplesOnly ==
  ~stepped => \A k \in DOMAIN log :
    log[k].made > (IF k > 1 THEN log[k - 1].made
                   ELSE IF skew > 0 THEN acceptedAt - skew ELSE acceptedAt)
==================================================================================
