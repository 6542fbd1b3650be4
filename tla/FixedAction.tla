------------------------------- MODULE FixedAction -------------------------------
(***************************************************************************)
(* One ExecuteDig or ExecuteDump on the live server, as a consumer of      *)
(* Machine States: _run_fixed() in                                         *)
(* runtime_bridge/apps/live_machine_behavior_server.py with the            *)
(* FixedActionExecutor (runtime_bridge/fixed_actions.py), which moves the  *)
(* joints by given amounts, one step after the other.                      *)
(*                                                                         *)
(* Normalized joint positions are small integers.  The lease and what is   *)
(* sent while no state comes in are LiveBehavior's.                        *)
(***************************************************************************)
EXTENDS StateStream

CONSTANTS
  Axes,          \* the joints
  Limit,         \* positions are in -Limit .. Limit
  Poses,         \* where the joints of a Machine State may be
  Steps,         \* delta_normalized_qpos of each step of the profile
  PoseTolerance, \* tolerance
  StepTimeout,   \* step_timeout_s
  Hold,          \* hold_s
  TipTicks       \* what the wait for the bucket tip may take

ASSUME FixedAssumption ==
  /\ Limit \in Nat /\ PoseTolerance \in Nat /\ TipTicks \in Nat
  /\ StepTimeout \in Nat \ {0} /\ Hold \in Nat
  /\ Poses \subseteq [Axes -> -Limit .. Limit]
  /\ Steps \in Seq([Axes -> -(2 * Limit) .. 2 * Limit]) /\ Steps # << >>

VARIABLES
  place,        \* "idle", "tip" (waits for the tip), "loop", "ended"
  verdict,      \* reason_code of the Result; "" before
  lastSequence, \* last_sequence
  lastSample,   \* last_sample
  wait,         \* ticks the wait for the tip may still take
  executor,     \* the FixedActionExecutor; times 0 are None
  record        \* history: every state it was given, and whether it moved a joint

fixedVars == <<place, verdict, lastSequence, lastSample, wait, executor, record>>
fixedAllVars == <<streamVars, fixedVars>>

AtZero == [a \in Axes |-> 0]
NewExecutor == [index |-> 1, started |-> 0, hold |-> 0, from |-> AtZero]

FixedInit ==
  /\ StreamInit
  /\ place = "idle" /\ verdict = "" /\ lastSequence = 0 /\ lastSample = NoSample /\ wait = 0
  /\ executor = NewExecutor /\ record = << >>

-----------------------------------------------------------------------------
(* FixedActionExecutor.step() *)

Clamp(v) == IF v > Limit THEN Limit ELSE IF v < -Limit THEN -Limit ELSE v

\* The target is relative to where the joints were when the step began; joints
\* the step does not move are not looked at.
Moved(k) == {a \in Axes : Steps[k][a] # 0}
Target(k, from) == [a \in Axes |-> Clamp(from[a] + Steps[k][a])]
InPlace(k, from, pose) == \A a \in Moved(k) : Distance(Target(k, from)[a], pose[a]) <= PoseTolerance

\* MUTANT: the next step begins as soon as the joints are in place.
HoldOverAtOnce == executor.hold # 0

\* The hold is over: the executor goes on to the next step.
HoldOver == executor.hold # 0 /\ now >= executor.hold
Holding  == executor.hold # 0 /\ ~HoldOver

\* _advance_step()
Advanced(ex) == [NewExecutor EXCEPT !.index = ex.index + 1]

Completed(ex) == ex.index > Len(Steps)

\* MUTANT: the time of a step counts from the last state.
BegunAgain(ex, pose) == IF ex.started = 0 THEN [ex EXCEPT !.started = now, !.from = pose] ELSE [ex EXCEPT !.started = now]

\* The first state of a step
Begun(ex, pose) == IF ex.started = 0 THEN [ex EXCEPT !.started = now, !.from = pose] ELSE ex

\* What one call makes of a state: the executor after it, whether it failed and
\* whether it asks for motion.  The servo's gains only say how fast.
StepResult(pose) ==
  LET ex   == IF HoldOver THEN Advanced(executor) ELSE executor
      cur  == Begun(ex, pose)
      late == now - cur.started >= StepTimeout
  IN  IF Holding \/ Completed(ex)
        THEN [executor |-> ex, failed |-> FALSE, moving |-> FALSE]
      ELSE IF late
        THEN [executor |-> cur, failed |-> TRUE, moving |-> FALSE]
      ELSE IF InPlace(cur.index, cur.from, pose)
        THEN [executor |-> [cur EXCEPT !.hold = now + Hold], failed |-> FALSE, moving |-> FALSE]
      ELSE [executor |-> cur, failed |-> FALSE, moving |-> TRUE]

-----------------------------------------------------------------------------
(* _run_fixed() *)

FixedEnds(reason) == place' = "ended" /\ verdict' = reason

\* The state whose tip and start envelope are checked, if there is one.
FixedStarts ==
  /\ place = "idle" /\ receiving
  /\ lastSequence' = stateSequence /\ lastSample' = latestState
  /\ IF latestState = NoSample
       THEN FixedEnds("STALE_MACHINE_STATE") /\ UNCHANGED wait
       ELSE place' = "tip" /\ wait' = TipTicks /\ UNCHANGED verdict
  /\ UNCHANGED <<executor, record, streamVars>>

\* No tip in time, not at the target, outside the start envelope.
FixedRefused ==
  /\ place = "tip" /\ FixedEnds("REFUSED")
  /\ UNCHANGED <<lastSequence, lastSample, wait, executor, record, streamVars>>

\* The executor gets a state and its command goes to the gate, which may be closed.
Drives(pose) ==
  LET result == StepResult(pose) IN
  /\ executor' = result.executor
  /\ record' = Append(record, [t |-> now, pose |-> pose, moving |-> result.moving])
  /\ \/ FixedEnds("GATE_CLOSED")
     \/ result.failed /\ FixedEnds("STEP_TIMEOUT")
     \/ Completed(result.executor) /\ FixedEnds("SEQUENCE_COMPLETED")
     \/ ~result.failed /\ ~Completed(result.executor) /\ place' = "loop" /\ UNCHANGED verdict

\* The first one is the state that was checked, though newer ones may be there.
FixedBegins ==
  /\ place = "tip" /\ wait' = 0
  /\ \E pose \in Poses : Drives(pose)
  /\ UNCHANGED <<lastSequence, lastSample, streamVars>>

FixedTakesState ==
  /\ place = "loop" /\ stateSequence > lastSequence
  /\ lastSequence' = stateSequence /\ lastSample' = latestState
  /\ \E pose \in Poses : Drives(pose)
  /\ UNCHANGED <<wait, streamVars>>

\* No state for 50 ms, and the last one is too old.
FixedStale ==
  /\ place = "loop" /\ stateSequence = lastSequence /\ ~Fresh(lastSample)
  /\ FixedEnds("STATE_STALE")
  /\ UNCHANGED <<lastSequence, lastSample, wait, executor, record, streamVars>>

FixedCancelled ==
  /\ place = "loop" /\ FixedEnds("CANCELLED")
  /\ UNCHANGED <<lastSequence, lastSample, wait, executor, record, streamVars>>

FixedWaits ==
  \/ place \in {"idle", "ended"}
  \/ place = "tip" /\ wait > 0
  \/ place = "loop" /\ stateSequence = lastSequence /\ Fresh(lastSample)

FixedTick ==
  /\ FixedWaits /\ TimePasses
  /\ wait' = IF wait > 0 THEN wait - 1 ELSE 0
  /\ UNCHANGED <<place, verdict, lastSequence, lastSample, executor, record>>

FixedStep ==
  FixedStarts \/ FixedRefused \/ FixedBegins \/ FixedTakesState \/ FixedStale \/ FixedCancelled

FixedNext ==
  \/ FixedStep \/ FixedTick
  \/ (OrinSends \/ OrinRestarts \/ Loses \/ StartReceiver \/ Receive) /\ UNCHANGED fixedVars

FixedSpec == FixedInit /\ [][FixedNext]_fixedAllVars

-----------------------------------------------------------------------------

\* Types.
FixedTypeOK ==
  /\ StreamTypeOK
  /\ place \in {"idle", "tip", "loop", "ended"} /\ wait \in 0 .. TipTicks
  /\ verdict \in {"", "STALE_MACHINE_STATE", "REFUSED", "GATE_CLOSED", "STEP_TIMEOUT",
                  "SEQUENCE_COMPLETED", "STATE_STALE", "CANCELLED"}
  /\ lastSequence \in 0 .. stateSequence /\ lastSample \in Sample
  /\ executor \in [index : 1 .. Len(Steps) + 1, started : Nat, hold : Nat, from : [Axes -> -Limit .. Limit]]
  /\ record \in Seq([t : Nat, pose : Poses, moving : BOOLEAN])

\* SUCCEEDED means that every step of the profile, in its order, was carried out: from
\* the state it began with the joints got within the tolerance of its target before its
\* time was over, and nothing moved until the hold was over, where the next one began.
StepsCarriedOut ==
  verdict = "SEQUENCE_COMPLETED" =>
    \E reached, left \in [1 .. Len(Steps) -> DOMAIN record] : \A k \in 1 .. Len(Steps) :
      LET first == IF k = 1 THEN 1 ELSE left[k - 1] IN
      /\ first <= reached[k] /\ reached[k] < left[k]
      /\ InPlace(k, record[first].pose, record[reached[k]].pose)
      /\ record[reached[k]].t - record[first].t < StepTimeout
      /\ record[left[k]].t - record[reached[k]].t >= Hold
      /\ \A i \in reached[k] .. left[k] - 1 : ~record[i].moving

\* A fixed action is over in the time its steps have, each with its hold and a state that
\* is as late as it may be, whatever the machine does.
FixedEndsInTime ==
  place = "loop" =>
    now <= record[1].t + Len(Steps) * (StepTimeout + Hold + MaxAge)
==================================================================================
