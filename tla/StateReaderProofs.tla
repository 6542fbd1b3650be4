-------------------------- MODULE StateReaderProofs --------------------------
(***************************************************************************)
(* Proofs of the two that read the stream of Machine States while the      *)
(* machine moves: a Follow and its trajectory tracker, for any number of   *)
(* waypoints, tips, dwell times and timeouts, and a fixed action and its   *)
(* executor, for any steps, axes and tolerances; whatever the stream does. *)
(* Then of the evidence a fixed action of production needs to begin.       *)
(***************************************************************************)
EXTENDS FollowTracking, FixedAction, ActionEvidence, StateStreamProofs

-----------------------------------------------------------------------------
(* A Follow. *)

Entry == [t : Nat, made : Nat, tip : Tips]

FollowType ==
  /\ now \in Nat /\ now > 0 /\ acceptedAt \in Nat
  /\ session \in [index : 1 .. Waypoints, started : Nat, within : Nat, stamp : Int]
  /\ log \in Seq(Entry)

\* A Follow that has not ended has no reason code, one that has not begun no log.
FollowPhase ==
  /\ phase # "ended" => outcome = ""
  /\ phase = "idle" => log = << >>

\* The tracker's clock starts with the first sample.
FollowStarted ==
  IF log = << >> THEN session.started = 0
  ELSE session.started = log[1].t /\ log[1].t > 0

\* The dwells of the first n waypoints, by the log.
Dwells(n, from, to) ==
  \A w \in 1 .. n :
    /\ from[w] <= to[w] /\ log[to[w]].t - log[from[w]].t >= Dwell
    /\ \A k \in from[w] .. to[w] : w \in log[k].tip
    /\ w > 1 => to[w - 1] < from[w]

\* A dwell at waypoint w that lasts since sample k, after what ended at sample m.
DwellsSince(w, m) ==
  \E k \in 1 .. Len(log) :
    /\ log[k].t = session.within /\ m < k
    /\ \A j \in k .. Len(log) : w \in log[j].tip

\* A Follow that goes on has dwelt at the waypoints before its own, and at its own
\* as long as the tracker says.
FollowDwells ==
  phase # "ended" =>
    \E from, to \in [1 .. session.index - 1 -> 1 .. Len(log)] :
      /\ Dwells(session.index - 1, from, to)
      /\ session.within # 0 =>
           DwellsSince(session.index, IF session.index = 1 THEN 0 ELSE to[session.index - 1])

\* The inductive invariant of the verdicts.
VerdictInv ==
  /\ FollowType /\ FollowPhase /\ FollowStarted /\ FollowDwells
  /\ TimeoutDecides /\ SuccessMeansDwelt

\* The state a Follow works on is none or one that was accepted.
FollowSample == sample \in HonestSamples /\ (sample.at = 0 => sample = NoSample)

\* NewSamplesOnly for a clock that is not stepped, and the stamp it rests on.
StampsNew ==
  /\ \A k \in 1 .. Len(log) :
       log[k].made > (IF k > 1 THEN log[k - 1].made
                      ELSE IF skew > 0 THEN acceptedAt - skew ELSE acceptedAt)
  /\ log # << >> => session.stamp > 0 /\ session.stamp = log[Len(log)].made + skew

\* The inductive invariant of a Follow and its stream.
FollowInv ==
  /\ StreamInv /\ VerdictInv /\ FollowSample
  /\ ~stepped => StampsNew

-----------------------------------------------------------------------------

\* A step of the Follow is a step of the stream or leaves it alone.
LEMMA StreamSteps == [Next]_vars => [StreamNext]_streamVars
<1> SUFFICES ASSUME Next PROVE StreamNext \/ UNCHANGED streamVars
  BY Zenon DEF vars
<1>1. CASE Tick
  BY <1>1, Zenon DEF Tick, StreamNext
<1>2. CASE Stream
  BY <1>2, Zenon DEF Stream, StreamNext
<1>3. CASE FollowStarts \/ TakesState \/ StateStale \/ TipMissing
  BY <1>3, Zenon DEF FollowStarts, TakesState, StateStale, TipMissing
<1>4. CASE SampleIgnored \/ SampleTaken \/ Interrupted
  BY <1>4, Zenon DEF SampleIgnored, SampleTaken, Interrupted
<1> QED
  BY <1>1, <1>2, <1>3, <1>4, Zenon DEF Next

\* Only SampleTaken touches the session and the log, or gives a verdict.
LEMMA OtherSteps ==
  ASSUME [Next]_vars, ~SampleTaken, FollowPhase
  PROVE  /\ log' = log /\ session' = session
         /\ outcome' # outcome => outcome' \in {"STATE_STALE", "STATE_TIP_NOT_SYNCHRONIZED", "INTERRUPTED"}
         /\ phase' # "ended" => phase # "ended" /\ outcome' = outcome
         /\ phase' = "idle" => phase = "idle"
         /\ acceptedAt' = acceptedAt \/ (phase = "idle" /\ acceptedAt' = now)
         /\ sample' = sample \/ sample' = latestState
<1>1. CASE FollowStarts
  BY <1>1, Zenon DEF FollowStarts
<1>2. CASE TakesState
  BY <1>2, Zenon DEF TakesState
<1>3. CASE StateStale
  BY <1>3, Zenon DEF StateStale, FollowEnds
<1>4. CASE TipMissing
  BY <1>4, Zenon DEF TipMissing, FollowEnds
<1>5. CASE SampleIgnored
  BY <1>5, Zenon DEF SampleIgnored
<1>6. CASE Interrupted
  BY <1>6, Zenon DEF Interrupted, FollowEnds
<1>7. CASE Tick
  BY <1>7, Zenon DEF Tick
<1>8. CASE Stream \/ UNCHANGED vars
  BY <1>8, Zenon DEF Stream, vars, followVars
<1> QED
  BY <1>1, <1>2, <1>3, <1>4, <1>5, <1>6, <1>7, <1>8, Zenon DEF Next

\* Time is a number that does not fall below 1.
LEMMA TimeStep ==
  ASSUME [Next]_vars, StreamInv
  PROVE  StreamInv' /\ now' \in Nat /\ now' > 0 /\ now \in Nat /\ now > 0
<1>1. StreamInv'
  BY StreamSteps, StreamStep
<1> QED
  BY <1>1 DEF StreamInv, StreamNumbers

\* A step that is not SampleTaken keeps the invariant.
LEMMA VerdictKept ==
  ASSUME [Next]_vars, ~SampleTaken, StreamInv, VerdictInv
  PROVE  VerdictInv'
<1>0. FollowType /\ FollowPhase /\ FollowStarted /\ FollowDwells /\ TimeoutDecides /\ SuccessMeansDwelt
  BY DEF VerdictInv
<1>1. /\ log' = log /\ session' = session
      /\ outcome' # outcome => outcome' \in {"STATE_STALE", "STATE_TIP_NOT_SYNCHRONIZED", "INTERRUPTED"}
      /\ phase' # "ended" => phase # "ended" /\ outcome' = outcome
      /\ phase' = "idle" => phase = "idle"
      /\ acceptedAt' = acceptedAt \/ acceptedAt' = now
  BY <1>0, OtherSteps, Zenon
<1>2. FollowType'
  BY <1>0, <1>1, TimeStep DEF FollowType, Entry
<1>3. FollowPhase'
  BY <1>0, <1>1, Zenon DEF FollowPhase
<1>4. FollowStarted'
  BY <1>0, <1>1 DEF FollowStarted
<1>5. FollowDwells'
  BY <1>0, <1>1 DEF FollowDwells, Dwells, DwellsSince
<1>6. TimeoutDecides'
  BY <1>0, <1>1 DEF TimeoutDecides
<1>7. SuccessMeansDwelt'
  BY <1>0, <1>1 DEF SuccessMeansDwelt
<1> QED
  BY <1>2, <1>3, <1>4, <1>5, <1>6, <1>7 DEF VerdictInv

\* What SampleTaken() does to the session and its log, for one tip.
LEMMA TakenShape ==
  ASSUME SampleTaken, StreamInv, VerdictInv, sample \in Sample
  PROVE  \E tip \in Tips :
           /\ phase = "tip" /\ outcome = "" /\ NewToSession(sample.stamp)
           /\ log' = Append(log, [t |-> now, made |-> sample.made, tip |-> tip])
           /\ session' = [Advance(tip) EXCEPT !.stamp = sample.stamp]
           /\ phase' \in {"loop", "ended"}
           /\ phase' = "loop" => ~TimedOut /\ ~Completes(tip) /\ outcome' = ""
           /\ phase' = "ended" => outcome' \in {"SUCCEEDED", "TIMEOUT"}
           /\ outcome' = "SUCCEEDED" => Completes(tip)
           /\ outcome' = "TIMEOUT" => TimedOut
           /\ acceptedAt' = acceptedAt /\ sample' = sample /\ UNCHANGED streamVars
<1>0. phase = "tip" /\ outcome = "" /\ NewToSession(sample.stamp)
  BY Zenon DEF SampleTaken, VerdictInv, FollowPhase
<1>1. PICK tip \in Tips :
        /\ log' = Append(log, [t |-> now, made |-> sample.made, tip |-> tip])
        /\ session' = [Advance(tip) EXCEPT !.stamp = sample.stamp]
        /\ IF Completes(tip) THEN FollowEnds("SUCCEEDED")
           ELSE IF TimedOut THEN FollowEnds("TIMEOUT")
           ELSE phase' = "loop" /\ patience' = TurnTicks /\ outcome' = outcome
  BY Zenon DEF SampleTaken
<1>2. acceptedAt' = acceptedAt /\ sample' = sample /\ UNCHANGED streamVars
  BY Zenon DEF SampleTaken
<1>3. CASE Completes(tip)
  BY <1>0, <1>1, <1>2, <1>3, Zenon DEF FollowEnds
<1>4. CASE ~Completes(tip) /\ TimedOut
  BY <1>0, <1>1, <1>2, <1>4, Zenon DEF FollowEnds
<1>5. CASE ~Completes(tip) /\ ~TimedOut
  BY <1>0, <1>1, <1>2, <1>5, Zenon
<1> QED
  BY <1>3, <1>4, <1>5, Zenon

\* The fields of the session that Advance() returns.
LEMMA AdvanceFields ==
  ASSUME NEW tip \in Tips, FollowType, NEW stamp \in Int
  PROVE  LET d == [Advance(tip) EXCEPT !.stamp = stamp] IN
         /\ d \in [index : 1 .. Waypoints, started : Nat, within : Nat, stamp : Int]
         /\ d.started = Started /\ d.stamp = stamp
         /\ TimedOut => d.index = session.index
         /\ ~TimedOut => /\ d.within = IF Dwelt(tip) THEN 0 ELSE Within(tip)
                         /\ d.index = IF Dwelt(tip) /\ session.index < Waypoints
                                      THEN session.index + 1 ELSE session.index
<1> DEFINE T == [index : 1 .. Waypoints, started : Nat, within : Nat, stamp : Int]
<1>1. session \in T /\ now \in Nat /\ Waypoints \in Nat /\ session.index \in 1 .. Waypoints
  BY TrackingAssumption DEF FollowType
<1>2. Started \in Nat /\ Within(tip) \in Nat
  BY <1>1 DEF Started, Within
<1>3. CASE TimedOut
  BY <1>1, <1>2, <1>3 DEF Advance
<1>4. CASE ~TimedOut
  <2> DEFINE i == IF Dwelt(tip) /\ session.index < Waypoints THEN session.index + 1 ELSE session.index
             w == IF Dwelt(tip) THEN 0 ELSE Within(tip)
  <2>1. i \in 1 .. Waypoints /\ w \in Nat
    BY <1>1, <1>2
  <2>2. Advance(tip) = [session EXCEPT !.started = Started, !.within = w, !.index = i]
    BY <1>1, <1>4 DEF Advance
  <2> HIDE DEF i, w
  <2> DEFINE a == Advance(tip)
  <2>3. a \in T /\ a.index = i /\ a.started = Started /\ a.within = w
    BY <1>1, <1>2, <2>1, <2>2
  <2> HIDE DEF a
  <2> DEFINE d == [a EXCEPT !.stamp = stamp]
  <2>4. d \in T /\ d.index = i /\ d.started = Started /\ d.within = w /\ d.stamp = stamp
    BY <2>3
  <2> QED
    BY <1>4, <2>4 DEF i, w, a
<1> QED
  BY <1>3, <1>4

\* The log after a sample was taken.
LEMMA LogGrows ==
  ASSUME log \in Seq(Entry), NEW e \in Entry, log' = Append(log, e)
  PROVE  /\ log' \in Seq(Entry) /\ Len(log) \in Nat /\ Len(log') = Len(log) + 1
         /\ \A k \in 1 .. Len(log) : log'[k] = log[k]
         /\ log'[Len(log) + 1] = e /\ log' # << >> /\ Last(log') = e
<1> QED
  BY AppendProperties, LenProperties DEF Last

\* A taken sample keeps the dwells of the waypoints passed.
LEMMA DwellsKept ==
  ASSUME log \in Seq(Entry), NEW e \in Entry, log' = Append(log, e),
         NEW n \in Nat, NEW from \in [1 .. n -> 1 .. Len(log)], NEW to \in [1 .. n -> 1 .. Len(log)],
         Dwells(n, from, to)
  PROVE  Dwells(n, from, to)' /\ from \in [1 .. n -> 1 .. Len(log')] /\ to \in [1 .. n -> 1 .. Len(log')]
<1>1. Len(log) \in Nat /\ Len(log') = Len(log) + 1 /\ \A k \in 1 .. Len(log) : log'[k] = log[k]
  BY LogGrows
<1>2. \A w \in 1 .. n : from[w] \in 1 .. Len(log) /\ to[w] \in 1 .. Len(log)
  OBVIOUS
<1>3. ASSUME NEW w \in 1 .. n
      PROVE  /\ from[w] <= to[w] /\ log'[to[w]].t - log'[from[w]].t >= Dwell
             /\ \A k \in from[w] .. to[w] : w \in log'[k].tip
             /\ w > 1 => to[w - 1] < from[w]
  <2>1. /\ from[w] <= to[w] /\ log[to[w]].t - log[from[w]].t >= Dwell
        /\ w > 1 => to[w - 1] < from[w]
    BY DEF Dwells
  <2>2. \A k \in from[w] .. to[w] : w \in log[k].tip
    BY DEF Dwells
  <2>3. \A k \in from[w] .. to[w] : k \in 1 .. Len(log)
    BY <1>1, <1>2
  <2> QED
    BY <1>1, <1>2, <2>1, <2>2, <2>3
<1>4. Dwells(n, from, to)'
  BY <1>3 DEF Dwells
<1>5. 1 .. Len(log) \subseteq 1 .. Len(log')
  BY <1>1
<1> QED
  BY <1>4, <1>5

\* A taken sample at the waypoint prolongs the dwell there.
LEMMA SinceKept ==
  ASSUME FollowType, NEW m \in Nat, DwellsSince(session.index, m),
         NEW e \in Entry, session.index \in e.tip, log' = Append(log, e)
  PROVE  \E k \in 1 .. Len(log) :
           /\ log'[k].t = session.within /\ m < k
           /\ \A j \in k .. Len(log') : session.index \in log'[j].tip
<1>1. /\ Len(log) \in Nat /\ Len(log') = Len(log) + 1 /\ \A k \in 1 .. Len(log) : log'[k] = log[k]
      /\ log'[Len(log) + 1] = e
  BY LogGrows DEF FollowType
<1>2. PICK k \in 1 .. Len(log) :
        /\ log[k].t = session.within /\ m < k
        /\ \A j \in k .. Len(log) : session.index \in log[j].tip
  BY DEF DwellsSince
<1>3. ASSUME NEW j \in k .. Len(log') PROVE session.index \in log'[j].tip
  <2>1. CASE j = Len(log) + 1
    BY <1>1, <2>1
  <2>2. CASE j # Len(log) + 1
    BY <1>1, <1>2, <2>2
  <2> QED
    BY <2>1, <2>2
<1> QED
  BY <1>1, <1>2, <1>3

\* A dwell that is long enough is one more waypoint passed.
LEMMA DwellsExtended ==
  ASSUME FollowType, NEW i, i = session.index, NEW e \in Entry, i \in e.tip, log' = Append(log, e),
         NEW from \in [1 .. i - 1 -> 1 .. Len(log)],
         NEW to \in [1 .. i - 1 -> 1 .. Len(log)],
         Dwells(i - 1, from, to),
         DwellsSince(i, IF i = 1 THEN 0 ELSE to[i - 1]),
         e.t - session.within >= Dwell
  PROVE  \E f, g \in [1 .. i -> 1 .. Len(log')] : Dwells(i, f, g)'
<1> DEFINE m == IF i = 1 THEN 0 ELSE to[i - 1]
<1>1. i \in Nat /\ i >= 1 /\ log \in Seq(Entry) /\ Dwell \in Nat /\ session.within \in Nat
  BY TrackingAssumption DEF FollowType
<1>l. PICK l \in Nat : l = Len(log) + 1
  BY <1>1, LenProperties
<1>2. /\ Len(log) \in Nat /\ l \in Nat /\ Len(log') = l /\ \A k \in 1 .. Len(log) : log'[k] = log[k]
      /\ log'[l] = e
  BY <1>1, <1>l, LogGrows
<1>3. m \in Nat /\ (i > 1 => m = to[i - 1])
  BY <1>1, <1>2
<1>4. PICK k \in 1 .. Len(log) :
        /\ log'[k].t = session.within /\ m < k
        /\ \A j \in k .. Len(log') : i \in log'[j].tip
  BY <1>3, SinceKept
<1>5. Dwells(i - 1, from, to)'
  <2>1. i - 1 \in Nat
    BY <1>1
  <2> QED
    BY <1>1, <2>1, DwellsKept
<1> DEFINE f == [w \in 1 .. i |-> IF w = i THEN k ELSE from[w]]
           g == [w \in 1 .. i |-> IF w = i THEN l ELSE to[w]]
<1>6. f \in [1 .. i -> 1 .. Len(log')] /\ g \in [1 .. i -> 1 .. Len(log')]
  <2>1. \A w \in 1 .. i : w # i => w \in 1 .. i - 1
    BY <1>1
  <2>2. \A w \in 1 .. i - 1 : from[w] \in 1 .. Len(log) /\ to[w] \in 1 .. Len(log)
    OBVIOUS
  <2> QED
    BY <1>1, <1>2, <2>1, <2>2
<1>7. ASSUME NEW w \in 1 .. i
      PROVE  /\ f[w] <= g[w] /\ log'[g[w]].t - log'[f[w]].t >= Dwell
             /\ \A j \in f[w] .. g[w] : w \in log'[j].tip
             /\ w > 1 => g[w - 1] < f[w]
  <2>1. CASE w = i
    <3>1. f[w] = k /\ g[w] = l
      BY <2>1
    <3>2. k <= l /\ log'[l].t - log'[k].t >= Dwell
      BY <1>2, <1>4
    <3>3. \A j \in k .. l : w \in log'[j].tip
      BY <1>2, <1>4, <2>1
    <3>4. w > 1 => g[w - 1] = to[w - 1]
      BY <1>1, <2>1
    <3> QED
      BY <1>3, <1>4, <2>1, <3>1, <3>2, <3>3, <3>4
  <2>2. CASE w # i
    <3>1. w \in 1 .. i - 1 /\ f[w] = from[w] /\ g[w] = to[w]
      BY <1>1, <2>2
    <3>2. /\ from[w] <= to[w] /\ log'[to[w]].t - log'[from[w]].t >= Dwell
          /\ w > 1 => to[w - 1] < from[w]
      BY <1>5, <3>1 DEF Dwells
    <3>3. \A j \in from[w] .. to[w] : w \in log'[j].tip
      BY <1>5, <3>1 DEF Dwells
    <3>4. w > 1 => g[w - 1] = to[w - 1]
      <4>1. w > 1 => w - 1 \in 1 .. i /\ w - 1 # i
        BY <1>1, <3>1
      <4> QED
        BY <4>1
    <3> QED
      BY <3>1, <3>2, <3>3, <3>4
  <2> QED
    BY <2>1, <2>2
<1> HIDE DEF f, g
<1>8. Dwells(i, f, g)'
  BY <1>7 DEF Dwells
<1> QED
  BY <1>6, <1>8

\* SampleTaken() keeps the invariant.
LEMMA VerdictTaken ==
  ASSUME SampleTaken, StreamInv, StreamInv', VerdictInv, sample \in Sample
  PROVE  VerdictInv'
<1>0. FollowType /\ FollowPhase /\ FollowStarted /\ FollowDwells /\ TimeoutDecides /\ SuccessMeansDwelt
  BY DEF VerdictInv
<1>1. PICK tip \in Tips :
        /\ phase = "tip" /\ outcome = "" /\ NewToSession(sample.stamp)
        /\ log' = Append(log, [t |-> now, made |-> sample.made, tip |-> tip])
        /\ session' = [Advance(tip) EXCEPT !.stamp = sample.stamp]
        /\ phase' \in {"loop", "ended"}
        /\ phase' = "loop" => ~TimedOut /\ ~Completes(tip) /\ outcome' = ""
        /\ phase' = "ended" => outcome' \in {"SUCCEEDED", "TIMEOUT"}
        /\ outcome' = "SUCCEEDED" => Completes(tip)
        /\ outcome' = "TIMEOUT" => TimedOut
        /\ acceptedAt' = acceptedAt /\ sample' = sample /\ UNCHANGED streamVars
  BY TakenShape
<1> DEFINE e == [t |-> now, made |-> sample.made, tip |-> tip]
<1>2. /\ now' = now /\ now \in Nat /\ now > 0 /\ e \in Entry /\ e.t = now /\ e.tip = tip
      /\ sample.stamp \in Int
  BY <1>0, <1>1 DEF FollowType, Entry, Sample, streamVars
<1>3. /\ log' \in Seq(Entry) /\ Len(log) \in Nat /\ Len(log') = Len(log) + 1
      /\ \A k \in 1 .. Len(log) : log'[k] = log[k]
      /\ log'[Len(log) + 1] = e /\ log' # << >> /\ Last(log') = e
  BY <1>0, <1>1, <1>2, LogGrows DEF FollowType
<1>4. /\ session' \in [index : 1 .. Waypoints, started : Nat, within : Nat, stamp : Int]
      /\ session'.started = Started
      /\ TimedOut => session'.index = session.index
      /\ ~TimedOut => /\ session'.within = IF Dwelt(tip) THEN 0 ELSE Within(tip)
                      /\ session'.index = IF Dwelt(tip) /\ session.index < Waypoints
                                          THEN session.index + 1 ELSE session.index
  BY <1>0, <1>1, <1>2, AdvanceFields
<1>5. FollowType'
  BY <1>0, <1>1, <1>2, <1>3, <1>4 DEF FollowType, Entry
<1>6. FollowPhase'
  BY <1>1, Zenon DEF FollowPhase
<1>7. log'[1].t = Started /\ Started > 0
  <2>1. CASE log = << >>
    <3>1. Len(log) = 0 /\ session.started = 0
      BY <1>0, <2>1 DEF FollowStarted
    <3> QED
      BY <1>2, <1>3, <3>1 DEF Started
  <2>2. CASE log # << >>
    <3>1. Len(log) >= 1
      BY <1>0, <2>2, EmptySeq, LenProperties DEF FollowType
    <3>2. log'[1] = log[1] /\ session.started = log[1].t /\ log[1].t > 0
      BY <1>0, <1>3, <2>2, <3>1 DEF FollowStarted
    <3>3. log[1].t \in Nat
      <4>1. log[1] \in Entry
        BY <1>0, <1>3, <3>1, ElementOfSeq DEF FollowType
      <4> QED
        BY <4>1 DEF Entry
    <3> QED
      BY <3>2, <3>3 DEF Started
  <2> QED
    BY <2>1, <2>2
<1>8. FollowStarted'
  BY <1>3, <1>4, <1>7 DEF FollowStarted
<1>9. TimeoutDecides'
  <2>1. Last(log').t - log'[1].t = now - Started
    BY <1>2, <1>3, <1>7
  <2>2. outcome' = "SUCCEEDED" => now - Started <= Timeout
    <3>1. outcome' = "SUCCEEDED" => ~TimedOut
      BY <1>1, Zenon DEF Completes
    <3>2. Started \in Nat /\ Timeout \in Nat
      BY <1>0, <1>2, TrackingAssumption DEF Started, FollowType
    <3> QED
      BY <1>2, <3>1, <3>2 DEF TimedOut
  <2>3. outcome' = "TIMEOUT" => now - Started > Timeout
    BY <1>1 DEF TimedOut
  <2> QED
    BY <2>1, <2>2, <2>3 DEF TimeoutDecides
<1>10. FollowDwells' /\ SuccessMeansDwelt'
  <2> DEFINE n == session.index - 1
  <2>1. PICK from, to \in [1 .. session.index - 1 -> 1 .. Len(log)] :
          /\ Dwells(session.index - 1, from, to)
          /\ session.within # 0 =>
               DwellsSince(session.index, IF session.index = 1 THEN 0 ELSE to[session.index - 1])
    BY <1>0, <1>1, Zenon DEF FollowDwells
  <2>2. PICK i \in 1 .. Waypoints : i = session.index
    BY <1>0 DEF FollowType
  <2>3. i \in Nat /\ i >= 1 /\ i - 1 \in Nat /\ Waypoints \in Nat /\ Dwell \in Nat /\ Dwell > 0
    BY <2>2, TrackingAssumption
  <2>4. CASE TimedOut
    <3>1. phase' = "ended" /\ outcome' # "SUCCEEDED"
      BY <1>1, <2>4, Zenon DEF Completes
    <3> QED
      BY <3>1, Zenon DEF FollowDwells, SuccessMeansDwelt
  <2>5. CASE ~TimedOut /\ ~Dwelt(tip)
    <3>1. outcome' # "SUCCEEDED"
      BY <1>1, <2>5, Zenon DEF Completes
    <3>2. session'.index = i /\ session'.within = Within(tip)
      BY <1>4, <2>2, <2>5
    <3>3. /\ Dwells(i - 1, from, to)'
          /\ from \in [1 .. i - 1 -> 1 .. Len(log')] /\ to \in [1 .. i - 1 -> 1 .. Len(log')]
      BY <1>0, <1>1, <1>2, <2>1, <2>2, <2>3, DwellsKept DEF FollowType
    <3> DEFINE m == IF i = 1 THEN 0 ELSE to[i - 1]
    <3>4. m \in Nat /\ m <= Len(log)
      BY <1>3, <2>1, <2>2, <2>3
    <3>5. ASSUME session'.within # 0
          PROVE  \E k \in 1 .. Len(log') :
                   /\ log'[k].t = session'.within /\ m < k
                   /\ \A j \in k .. Len(log') : i \in log'[j].tip
      <4>1. i \in tip
        BY <2>2, <3>2, <3>5 DEF Within
      <4>2. CASE session.within = 0
        <5>1. session'.within = now
          BY <2>2, <3>2, <4>1, <4>2 DEF Within
        <5>2. log'[Len(log')] = e /\ Len(log') \in 1 .. Len(log') /\ m < Len(log')
          BY <1>3, <3>4
        <5> QED
          BY <1>2, <1>3, <4>1, <5>1, <5>2
      <4>3. CASE session.within # 0
        <5>1. session'.within = session.within
          BY <2>2, <3>2, <4>1, <4>3 DEF Within
        <5>2. DwellsSince(session.index, m)
          BY <2>1, <2>2, <4>3
        <5>3. \E k \in 1 .. Len(log) :
                /\ log'[k].t = session.within /\ m < k
                /\ \A j \in k .. Len(log') : session.index \in log'[j].tip
          BY <1>0, <1>1, <1>2, <2>2, <3>4, <4>1, <5>2, SinceKept
        <5> QED
          BY <1>3, <2>2, <5>1, <5>3
      <4> QED
        BY <4>2, <4>3
    <3>6. FollowDwells'
      BY <3>2, <3>3, <3>5 DEF FollowDwells, DwellsSince
    <3> QED
      BY <3>1, <3>6, Zenon DEF SuccessMeansDwelt
  <2>6. CASE ~TimedOut /\ Dwelt(tip)
    <3>1. i \in tip /\ session.within # 0 /\ now - session.within >= Dwell
      BY <1>2, <2>2, <2>3, <2>6 DEF Dwelt, Within
    <3>2. PICK f, g \in [1 .. i -> 1 .. Len(log')] : Dwells(i, f, g)'
      BY <1>0, <1>1, <1>2, <2>1, <2>2, <3>1, DwellsExtended
    <3>3. session'.within = 0
      BY <1>4, <2>6
    <3>4. CASE i < Waypoints
      <4>1. session'.index = i + 1 /\ session'.index - 1 = i
        BY <1>4, <2>2, <2>3, <2>6, <3>4
      <4>2. outcome' # "SUCCEEDED"
        <5>1. session.index # Waypoints
          BY <2>2, <2>3, <3>4
        <5> QED
          BY <1>1, <5>1, Zenon DEF Completes
      <4>3. FollowDwells'
        BY <3>2, <3>3, <4>1 DEF FollowDwells
      <4> QED
        BY <4>2, <4>3, Zenon DEF SuccessMeansDwelt
    <3>5. CASE i = Waypoints
      <4>1. Completes(tip)
        BY <2>2, <2>6, <3>5 DEF Completes
      <4>2. phase' = "ended"
        BY <1>1, <4>1, Zenon
      <4>3. DOMAIN log' = 1 .. Len(log')
        BY <1>3, LenProperties
      <4>4. SuccessMeansDwelt'
        BY <3>2, <3>5, <4>3 DEF SuccessMeansDwelt, Dwells
      <4> QED
        BY <4>2, <4>4, Zenon DEF FollowDwells
    <3> QED
      BY <2>3, <3>4, <3>5
  <2> QED
    BY <2>4, <2>5, <2>6
<1> QED
  BY <1>5, <1>6, <1>8, <1>9, <1>10 DEF VerdictInv

-----------------------------------------------------------------------------

\* The initial state of the Follow.
LEMMA FollowStart ==
  ASSUME Init
  PROVE  FollowInv
<1>1. StreamInv
  BY StreamStart DEF Init
<1>a. /\ session = [index |-> 1, started |-> 0, within |-> 0, stamp |-> 0]
      /\ log = << >> /\ acceptedAt = 0 /\ Len(log) = 0
  BY EmptySeq DEF Init, NewSession
<1>2. FollowType /\ FollowStarted
  <2>1. Waypoints \in Nat /\ 1 \in 1 .. Waypoints
    BY TrackingAssumption
  <2>2. session \in [index : 1 .. Waypoints, started : Nat, within : Nat, stamp : Int]
    BY <1>a, <2>1
  <2>3. now \in Nat /\ now > 0
    BY <1>1 DEF StreamInv, StreamNumbers
  <2>4. log \in Seq(Entry)
    BY <1>a, EmptySeq
  <2> QED
    BY <1>a, <2>2, <2>3, <2>4 DEF FollowType, FollowStarted
<1>3. FollowPhase /\ TimeoutDecides /\ SuccessMeansDwelt
  BY Zenon DEF Init, FollowPhase, TimeoutDecides, SuccessMeansDwelt
<1>4. FollowDwells
  <2>1. session.index - 1 = 0 /\ session.within = 0
    BY <1>a
  <2> DEFINE f == [w \in 1 .. 0 |-> w]
  <2>2. f \in [1 .. 0 -> 1 .. Len(log)]
    OBVIOUS
  <2>3. Dwells(0, f, f)
    BY DEF Dwells
  <2> HIDE DEF f
  <2> QED
    BY <2>1, <2>2, <2>3, Zenon DEF FollowDwells
<1>5. FollowSample
  BY <1>1 DEF Init, FollowSample, StreamInv, StreamMemory, StreamInit
<1>6. StampsNew
  BY <1>a DEF StampsNew
<1> QED
  BY <1>1, <1>2, <1>3, <1>4, <1>5, <1>6, Zenon DEF FollowInv, VerdictInv

\* The Orin's clock does not come back into step.
LEMMA StaysStepped ==
  ASSUME [StreamNext]_streamVars, StreamInv, ~stepped'
  PROVE  ~stepped /\ skew' = skew
<1>1. StepOnce
  BY DEF StreamInv
<1>2. CASE OrinRestarts
  <2>1. boots = 0 /\ stepped' = (skew' # skew)
    BY <1>2, Zenon DEF OrinRestarts
  <2> QED
    BY <1>1, <2>1, Zenon DEF StepOnce
<1>3. CASE OrinSends \/ Loses \/ TimePasses \/ StartReceiver \/ Receive \/ UNCHANGED streamVars
  <2>1. stepped' = stepped /\ skew' = skew
    <3>1. CASE OrinSends
      BY <3>1, Zenon DEF OrinSends
    <3>2. CASE Loses
      BY <3>2, Zenon DEF Loses, orinVars
    <3>3. CASE TimePasses
      BY <3>3, Zenon DEF TimePasses, orinVars
    <3>4. CASE StartReceiver
      BY <3>4, Zenon DEF StartReceiver, orinVars
    <3>5. CASE Receive
      BY <3>5, Zenon DEF Receive, orinVars
    <3>6. CASE UNCHANGED streamVars
      BY <3>6, Zenon DEF streamVars, orinVars
    <3> QED
      BY <1>3, <3>1, <3>2, <3>3, <3>4, <3>5, <3>6, Zenon
  <2> QED
    BY <2>1, Zenon
<1> QED
  BY <1>2, <1>3, Zenon DEF StreamNext

\* The state a Follow works on is honest after every step.
LEMMA SampleStep ==
  ASSUME [Next]_vars, FollowInv
  PROVE  FollowSample'
<1>0. StreamInv /\ FollowSample /\ FollowPhase /\ StreamInv'
  BY TimeStep DEF FollowInv, VerdictInv
<1>1. sample' = sample \/ sample' = latestState
  <2>1. CASE SampleTaken
    BY <2>1, Zenon DEF SampleTaken
  <2>2. CASE ~SampleTaken
    BY <1>0, <2>2, OtherSteps, Zenon
  <2> QED
    BY <2>1, <2>2
<1>2. HonestSamples \subseteq HonestSamples'
  <2>1. [StreamNext]_streamVars
    BY StreamSteps
  <2>2. CASE stepped'
    <3>1. stepped' = TRUE
      BY <1>0, <2>2, Zenon DEF StreamInv, StepOnce
    <3> QED
      BY <1>0, <3>1, HonestyGone, Zenon
  <2>3. CASE ~stepped'
    <3>1. ~stepped /\ skew' = skew
      BY <1>0, <2>1, <2>3, StaysStepped, Zenon
    <3>2. stepped' = stepped
      BY <1>0, <2>3, <3>1, Zenon DEF StreamInv, StepOnce
    <3> QED
      BY <3>1, <3>2, HonestyKept, Zenon
  <2> QED
    BY <2>2, <2>3, Zenon
<1>3. sample \in HonestSamples /\ (sample.at = 0 => sample = NoSample)
  BY <1>0, Zenon DEF FollowSample
<1>4. latestState \in HonestSamples /\ (latestState.at = 0 => latestState = NoSample)
  BY <1>0, Zenon DEF StreamInv, StreamMemory
<1>5. NoSample' = NoSample
  BY DEF NoSample
<1> QED
  BY <1>1, <1>2, <1>3, <1>4, <1>5, Zenon DEF FollowSample

\* While the clock is not stepped, every sample taken is newer than what was there.
LEMMA StampsStep ==
  ASSUME [Next]_vars, FollowInv, ~stepped'
  PROVE  StampsNew'
<1>0. StreamInv /\ VerdictInv /\ FollowSample /\ FollowType /\ FollowPhase
  BY DEF FollowInv, VerdictInv
<1>1. ~stepped /\ skew' = skew
  BY <1>0, StreamSteps, StaysStepped, Zenon
<1>2. StampsNew /\ skew \in Int /\ acceptedAt \in Nat /\ log \in Seq(Entry)
  BY <1>0, <1>1 DEF FollowInv, FollowType, StreamInv, StreamNumbers
<1>3. CASE ~SampleTaken
  <2>1. /\ log' = log /\ session' = session
        /\ acceptedAt' = acceptedAt \/ log = << >>
    BY <1>0, <1>3, OtherSteps, Zenon DEF FollowPhase
  <2>2. CASE acceptedAt' = acceptedAt
    BY <1>1, <1>2, <2>1, <2>2 DEF StampsNew
  <2>3. CASE log = << >>
    BY <2>1, <2>3, EmptySeq DEF StampsNew
  <2> QED
    BY <2>1, <2>2, <2>3
<1>4. CASE SampleTaken
  <2>0. sample \in Sample /\ (sample.at # 0 => Honest(sample)) /\ (sample.at = 0 => sample = NoSample)
    BY <1>0 DEF FollowSample, HonestSamples
  <2>1. PICK tip \in Tips :
          /\ NewToSession(sample.stamp)
          /\ log' = Append(log, [t |-> now, made |-> sample.made, tip |-> tip])
          /\ session' = [Advance(tip) EXCEPT !.stamp = sample.stamp]
          /\ acceptedAt' = acceptedAt
    BY <1>0, <1>4, <2>0, TakenShape
  <2> DEFINE e == [t |-> now, made |-> sample.made, tip |-> tip]
  <2>2. sample.stamp \in Int /\ sample.made \in Nat /\ e \in Entry /\ e.made = sample.made
    BY <1>0, <2>0 DEF Sample, Entry, FollowType
  <2>3. sample.stamp > acceptedAt /\ (session.stamp # 0 => sample.stamp > session.stamp)
    BY <2>1 DEF NewToSession
  <2>4. sample.at # 0
    BY <1>2, <2>0, <2>3 DEF NoSample
  <2>5. sample.stamp = sample.made + skew
    BY <1>1, <2>0, <2>4, Zenon DEF Honest
  <2>6. /\ Len(log) \in Nat /\ Len(log') = Len(log) + 1
        /\ \A k \in 1 .. Len(log) : log'[k] = log[k]
        /\ log'[Len(log) + 1] = e
    BY <1>2, <2>1, <2>2, LogGrows
  <2>7. session'.stamp = sample.stamp
    BY <1>0, <2>1, <2>2, AdvanceFields
  <2>8. ASSUME NEW k \in 1 .. Len(log')
        PROVE  log'[k].made > (IF k > 1 THEN log'[k - 1].made
                               ELSE IF skew > 0 THEN acceptedAt - skew ELSE acceptedAt)
    <3>1. CASE k \in 1 .. Len(log)
      <4>1. log'[k] = log[k] /\ (k > 1 => log'[k - 1] = log[k - 1])
        BY <2>6, <3>1
      <4> QED
        BY <1>2, <3>1, <4>1 DEF StampsNew
    <3>2. CASE k = Len(log) + 1 /\ k > 1
      <4>1. log # << >> /\ log'[k - 1] = log[Len(log)] /\ log'[k] = e
        BY <2>6, <3>2, EmptySeq
      <4>2. log[Len(log)] \in Entry
        BY <1>2, <2>6, <3>2, ElementOfSeq
      <4>3. log[Len(log)].made \in Nat
        BY <4>2 DEF Entry
      <4>4. sample.stamp > session.stamp /\ session.stamp = log[Len(log)].made + skew
        BY <1>2, <2>3, <4>1, <4>3 DEF StampsNew
      <4> QED
        BY <1>2, <2>2, <2>5, <3>2, <4>1, <4>3, <4>4
    <3>3. CASE k = Len(log) + 1 /\ k = 1
      BY <1>2, <2>2, <2>3, <2>5, <2>6, <3>3
    <3> QED
      BY <2>6, <3>1, <3>2, <3>3
  <2>9. session'.stamp > 0 /\ session'.stamp = log'[Len(log')].made + skew
    BY <1>2, <2>2, <2>3, <2>5, <2>6, <2>7
  <2> QED
    BY <1>1, <2>1, <2>8, <2>9 DEF StampsNew
<1> QED
  BY <1>3, <1>4

\* Every step keeps the invariant.
LEMMA FollowStep ==
  ASSUME [Next]_vars, FollowInv
  PROVE  FollowInv'
<1>1. StreamInv /\ VerdictInv /\ sample \in Sample /\ StreamInv'
  BY TimeStep DEF FollowInv, FollowSample, HonestSamples
<1>2. VerdictInv'
  <2>1. CASE SampleTaken
    BY <1>1, <2>1, VerdictTaken
  <2>2. CASE ~SampleTaken
    BY <1>1, <2>2, VerdictKept
  <2> QED
    BY <2>1, <2>2
<1>3. FollowSample' /\ (~stepped' => StampsNew')
  BY SampleStep, StampsStep, Zenon
<1> QED
  BY <1>1, <1>2, <1>3, Zenon DEF FollowInv

\* The session and the log of a Follow agree, on any stream of states.
THEOREM FollowInvariant == Spec => []FollowInv
<1>1. Init => FollowInv
  BY FollowStart
<1>2. FollowInv /\ [Next]_vars => FollowInv'
  BY FollowStep
<1> QED
  BY <1>1, <1>2, PTL DEF Spec

\* SUCCEEDED is reported only when the tip was at each waypoint, in their order, for
\* the whole dwell time: TrajectoryTracker.advance().
THEOREM SuccessIsDwelt == Spec => []SuccessMeansDwelt
<1>1. FollowInv => SuccessMeansDwelt
  BY DEF FollowInv, VerdictInv
<1> QED
  BY <1>1, FollowInvariant, PTL

\* SUCCEEDED comes within the tracking timeout and TIMEOUT after it: advance() looks
\* at the timeout first.
THEOREM TimeoutFirst == Spec => []TimeoutDecides
<1>1. FollowInv => TimeoutDecides
  BY DEF FollowInv, VerdictInv
<1> QED
  BY <1>1, FollowInvariant, PTL

\* Only samples made after the acceptance of the Follow count, each once:
\* FollowSession.observe() and evaluate_state_provenance().
THEOREM SamplesAreNew == Spec => []NewSamplesOnly
<1>1. FollowInv => NewSamplesOnly
  <2> SUFFICES ASSUME FollowInv, ~stepped
               PROVE  \A k \in DOMAIN log :
                        log[k].made > (IF k > 1 THEN log[k - 1].made
                                       ELSE IF skew > 0 THEN acceptedAt - skew ELSE acceptedAt)
    BY Zenon DEF NewSamplesOnly
  <2>1. StampsNew
    BY Zenon DEF FollowInv
  <2>2. DOMAIN log = 1 .. Len(log)
    BY LenProperties DEF FollowInv, VerdictInv, FollowType
  <2> QED
    BY <2>1, <2>2 DEF StampsNew
<1> QED
  BY <1>1, FollowInvariant, PTL

-----------------------------------------------------------------------------
(* EndsInTime. *)

\* Receipts are in the past, and a state that waits is newer than the one in hand.
StatesAhead ==
  /\ patience \in Nat /\ seen \in Nat /\ stateSequence \in Nat
  /\ latestState.at <= now /\ sample.at <= now
  /\ sample.stamp <= latestState.stamp
  /\ stateSequence > seen => sample.stamp < latestState.stamp

\* Once a sample was taken the states in hand are never older, so that none is ignored.
StampsAhead ==
  log # << >> => /\ session.stamp > acceptedAt
                 /\ phase = "loop" => sample.stamp = session.stamp
                 /\ phase = "tip" => sample.stamp > session.stamp

\* How far the clock may run after the last sample.
ClockBehind ==
  phase \in {"loop", "tip"} /\ log # << >> =>
    /\ log[Len(log)].t <= log[1].t + Timeout
    /\ phase = "loop" => /\ sample.at <= log[Len(log)].t
                         /\ now + patience <= log[Len(log)].t + MaxAge + 1
    /\ phase = "tip" => now + patience <= log[Len(log)].t + MaxAge + 1 + TurnTicks

\* The inductive invariant of EndsInTime.
EndInv == StatesAhead /\ StampsAhead /\ ClockBehind

\* What a step does to the states in hand and to those that wait.
LEMMA AheadStep ==
  ASSUME [Next]_vars, FollowInv, StatesAhead
  PROVE  StatesAhead'
<1>0. /\ now \in Nat /\ now > 0 /\ latestState \in Sample /\ sample \in Sample
      /\ patience \in Nat /\ seen \in Nat /\ stateSequence \in Nat /\ TurnTicks \in Nat
  BY TrackingAssumption
     DEF FollowInv, FollowSample, HonestSamples, StreamInv, StreamNumbers, StreamMemory, StatesAhead
<1>1. latestState.at \in Nat /\ sample.at \in Nat /\ latestState.stamp \in Int /\ sample.stamp \in Int
  BY <1>0 DEF Sample
<1>2. CASE FollowStarts \/ TakesState
  <2>1. sample' = latestState /\ seen' = stateSequence /\ UNCHANGED streamVars /\ patience' \in {0, TurnTicks}
    BY <1>2, Zenon DEF FollowStarts, TakesState
  <2>2. now' = now /\ latestState' = latestState /\ stateSequence' = stateSequence
    BY <2>1, Zenon DEF streamVars, serverVars
  <2> QED
    BY <1>0, <1>1, <2>1, <2>2 DEF StatesAhead
<1>3. CASE StateStale \/ TipMissing \/ SampleIgnored \/ SampleTaken \/ Interrupted \/ UNCHANGED vars
  <2>1. sample' = sample /\ seen' = seen /\ UNCHANGED streamVars /\ patience' \in {0, TurnTicks, patience}
    <3>1. CASE StateStale \/ TipMissing \/ Interrupted
      BY <3>1, Zenon DEF StateStale, TipMissing, Interrupted, FollowEnds
    <3>2. CASE SampleIgnored
      BY <3>2, Zenon DEF SampleIgnored
    <3>3. CASE SampleTaken
      BY <3>3, Zenon DEF SampleTaken, FollowEnds
    <3>4. CASE UNCHANGED vars
      BY <3>4, Zenon DEF vars, followVars
    <3> QED
      BY <1>3, <3>1, <3>2, <3>3, <3>4, Zenon
  <2>2. now' = now /\ latestState' = latestState /\ stateSequence' = stateSequence
    BY <2>1, Zenon DEF streamVars, serverVars
  <2> QED
    BY <1>0, <1>1, <2>1, <2>2 DEF StatesAhead
<1>4. CASE Tick
  <2>1. /\ now' = now + 1 /\ sample' = sample /\ seen' = seen
        /\ latestState' = latestState /\ stateSequence' = stateSequence
        /\ patience' = IF patience > 0 THEN patience - 1 ELSE 0
    BY <1>4, Zenon DEF Tick, TimePasses, serverVars
  <2> QED
    BY <1>0, <1>1, <2>1 DEF StatesAhead
<1>5. CASE Stream
  <2>1. sample' = sample /\ seen' = seen /\ patience' = patience
    BY <1>5, Zenon DEF Stream, followVars
  <2>2. CASE OrinSends \/ OrinRestarts \/ Loses \/ StartReceiver
    <3>1. now' = now /\ UNCHANGED serverVars
      BY <2>2, Zenon DEF OrinSends, OrinRestarts, Loses, StartReceiver
    <3>2. latestState' = latestState /\ stateSequence' = stateSequence
      BY <3>1, Zenon DEF serverVars
    <3> QED
      BY <1>0, <1>1, <2>1, <3>1, <3>2 DEF StatesAhead
  <2>3. CASE Receive
    <3>1. now' = now
      BY <2>3, Zenon DEF Receive
    <3>2. CASE UNCHANGED serverVars
      <4>1. latestState' = latestState /\ stateSequence' = stateSequence
        BY <3>2, Zenon DEF serverVars
      <4> QED
        BY <1>0, <1>1, <2>1, <3>1, <4>1 DEF StatesAhead
    <3>3. CASE ~UNCHANGED serverVars
      <4>1. PICK i \in DOMAIN flight : Provenance(flight[i]) /\ Accept(flight[i])
        BY <2>3, <3>3, Zenon DEF Receive
      <4> DEFINE p == flight[i]
      <4>2. p \in HonestPackets
        BY <4>1, RemoveAtType DEF FollowInv, StreamInv
      <4>3. p.stamp \in Int /\ p.stamp > 0 /\ (lastSeq # 0 => p.stamp > lastStamp)
        BY <4>1, <4>2 DEF HonestPackets, Packet, Provenance
      <4>4. latestState'.at = now /\ latestState'.stamp = p.stamp /\ stateSequence' = stateSequence + 1
        BY <4>1 DEF Accept
      <4> HIDE DEF p
      <4>5. /\ lastSeq = 0 => latestState = NoSample
            /\ lastSeq # 0 => lastStamp = latestState.stamp
        BY Zenon DEF FollowInv, StreamInv, StreamMemory
      <4>6. p.stamp > latestState.stamp
        BY <1>1, <4>3, <4>5 DEF NoSample
      <4> QED
        BY <1>0, <1>1, <2>1, <3>1, <4>3, <4>4, <4>6 DEF StatesAhead
    <3> QED
      BY <3>2, <3>3
  <2> QED
    BY <1>5, <2>2, <2>3, Zenon DEF Stream
<1> QED
  BY <1>2, <1>3, <1>4, <1>5, Zenon DEF Next

\* A step that takes no sample leaves the log and lets the clock run as far as it may.
LEMMA ClockKept ==
  ASSUME [Next]_vars, ~SampleTaken, FollowInv, EndInv
  PROVE  StampsAhead' /\ ClockBehind'
<1>0. /\ now \in Nat /\ latestState \in Sample /\ sample \in Sample /\ acceptedAt \in Nat
      /\ patience \in Nat /\ seen \in Nat /\ stateSequence \in Nat
      /\ TurnTicks \in Nat /\ MaxAge \in Nat /\ Timeout \in Nat
      /\ session.stamp \in Int /\ log \in Seq(Entry)
  BY TrackingAssumption, StreamAssumption
     DEF FollowInv, FollowSample, HonestSamples, StreamInv, StreamNumbers, StreamMemory, EndInv, StatesAhead,
         VerdictInv, FollowType
<1>1. latestState.at \in Nat /\ sample.at \in Nat /\ latestState.stamp \in Int /\ sample.stamp \in Int
  BY <1>0 DEF Sample
<1>2. StatesAhead /\ StampsAhead /\ ClockBehind /\ FollowPhase
  BY Zenon DEF EndInv, FollowInv, VerdictInv
<1>3. /\ log' = log /\ session' = session
      /\ phase' = "idle" => phase = "idle"
      /\ acceptedAt' = acceptedAt \/ (phase = "idle" /\ acceptedAt' = now)
  BY <1>2, OtherSteps, Zenon
<1>4. CASE log = << >>
  BY <1>3, <1>4, Zenon DEF StampsAhead, ClockBehind
<1>5. CASE log # << >> /\ phase' \notin {"loop", "tip"}
  <2>1. acceptedAt' = acceptedAt
    BY <1>2, <1>3, <1>5, Zenon DEF FollowPhase
  <2> QED
    BY <1>2, <1>3, <1>5, <2>1, Zenon DEF StampsAhead, ClockBehind
<1>6. CASE log # << >> /\ phase' \in {"loop", "tip"}
  <2> DEFINE t == log[Len(log)].t
  <2>1. t \in Nat /\ log[1].t \in Nat
    <3>1. Len(log) \in Nat /\ Len(log) >= 1
      BY <1>0, <1>6, EmptySeq, LenProperties
    <3>2. log[Len(log)] \in Entry /\ log[1] \in Entry
      BY <1>0, <3>1, ElementOfSeq
    <3> QED
      BY <3>2 DEF Entry
  <2>2. phase # "idle" /\ acceptedAt' = acceptedAt
    BY <1>2, <1>3, <1>6, Zenon DEF FollowPhase
  <2>3. t <= log[1].t + Timeout \/ phase = "ended"
    <3>1. phase \in {"loop", "tip"} => t <= log[1].t + Timeout
      BY <1>2, <1>6, Zenon DEF ClockBehind
    <3>2. phase' # "ended" => phase # "ended"
      BY <1>2, OtherSteps, Zenon
    <3>3. phase = "idle" \/ phase = "loop" \/ phase = "tip" \/ phase = "ended"
            \/ UNCHANGED vars \/ Tick \/ Stream
      BY Zenon DEF Next, FollowStarts, TakesState, StateStale, TipMissing, SampleIgnored, Interrupted
    <3>4. UNCHANGED vars \/ Tick \/ Stream => phase' = phase
      BY Zenon DEF vars, followVars, Tick, Stream
    <3> QED
      BY <1>6, <2>2, <3>1, <3>2, <3>3, <3>4, Zenon
  <2> HIDE DEF t
  <2>4. CASE TakesState
    <3>1. /\ phase = "loop" /\ phase' = "tip" /\ patience' = TurnTicks /\ now' = now
          /\ sample' = latestState /\ stateSequence > seen
      BY <2>4, Zenon DEF TakesState, streamVars
    <3>2. now + patience <= t + MaxAge + 1 /\ sample.stamp = session.stamp /\ t <= log[1].t + Timeout
      BY <1>2, <1>6, <3>1, Zenon DEF ClockBehind, StampsAhead, t
    <3>3. sample.stamp < latestState.stamp /\ session.stamp > acceptedAt
      BY <1>2, <1>6, <3>1, Zenon DEF StatesAhead, StampsAhead
    <3>4. StampsAhead'
      BY <1>1, <1>3, <2>2, <3>1, <3>2, <3>3, Zenon DEF StampsAhead
    <3>5. now' + patience' <= t + MaxAge + 1 + TurnTicks
      BY <1>0, <2>1, <3>1, <3>2
    <3> QED
      BY <1>3, <3>1, <3>2, <3>4, <3>5, Zenon DEF ClockBehind, t
  <2>5. CASE SampleIgnored
    <3>1. phase = "tip" /\ ~NewToSession(sample.stamp)
      BY <2>5, Zenon DEF SampleIgnored
    <3>2. sample.stamp > session.stamp /\ session.stamp > acceptedAt
      BY <1>2, <1>6, <3>1, Zenon DEF StampsAhead
    <3>3. NewToSession(sample.stamp)
      BY <1>0, <1>1, <3>2 DEF NewToSession
    <3> QED
      BY <3>1, <3>3
  <2>6. CASE Tick
    <3>1. /\ now' = now + 1 /\ sample' = sample /\ phase' = phase
          /\ patience' = IF patience > 0 THEN patience - 1 ELSE 0
          /\ FollowWaits
      BY <2>6, Zenon DEF Tick, TimePasses
    <3>2. StampsAhead'
      BY <1>2, <1>3, <2>2, <3>1, Zenon DEF StampsAhead
    <3>3. t <= log[1].t + Timeout
      BY <1>2, <1>6, <3>1, Zenon DEF ClockBehind, t
    <3>6. t = log'[Len(log')].t /\ log'[1].t = log[1].t
      BY <1>3, Zenon DEF t
    <3>4. CASE patience > 0
      <4>1. now' + patience' = now + patience
        BY <1>0, <3>1, <3>4
      <4>2. /\ phase = "loop" => sample.at <= t /\ now + patience <= t + MaxAge + 1
            /\ phase = "tip" => now + patience <= t + MaxAge + 1 + TurnTicks
        BY <1>2, <1>6, Zenon DEF ClockBehind, t
      <4>3. /\ phase' = "loop" => sample'.at <= t /\ now' + patience' <= t + MaxAge + 1
            /\ phase' = "tip" => now' + patience' <= t + MaxAge + 1 + TurnTicks
        BY <3>1, <4>1, <4>2
      <4> QED
        BY <3>2, <3>3, <3>6, <4>3, Zenon DEF ClockBehind
    <3>5. CASE ~(patience > 0)
      <4>1. phase = "loop" /\ stateSequence = seen /\ ~GivesUp
        BY <1>6, <3>1, <3>5, Zenon DEF FollowWaits
      <4>2. now - sample.at <= MaxAge
        BY <4>1, Zenon DEF GivesUp, Fresh
      <4>3. sample.at <= t
        BY <1>2, <1>6, <4>1, Zenon DEF ClockBehind, t
      <4>4. patience' = 0 /\ now' + patience' <= t + MaxAge + 1
        BY <1>0, <1>1, <2>1, <3>1, <3>5, <4>2, <4>3
      <4> QED
        <5>1. phase' = "loop" /\ sample'.at <= t
          BY <3>1, <4>1, <4>3, Zenon
        <5>2. now' + patience' <= t + MaxAge + 1
          BY <4>4, Zenon
        <5> QED
          BY <3>2, <3>3, <3>6, <5>1, <5>2, Zenon DEF ClockBehind
    <3> QED
      BY <3>2, <3>4, <3>5
  <2>7. CASE Stream \/ UNCHANGED vars
    <3>1. /\ now' = now /\ sample' = sample /\ phase' = phase /\ patience' = patience
      <4>1. CASE Stream
        BY <4>1, Zenon DEF Stream, followVars, OrinSends, OrinRestarts, Loses, StartReceiver, Receive
      <4>2. CASE UNCHANGED vars
        BY <4>2, Zenon DEF vars, followVars, streamVars
      <4> QED
        BY <2>7, <4>1, <4>2, Zenon
    <3> QED
      BY <1>2, <1>3, <2>2, <3>1, Zenon DEF StampsAhead, ClockBehind
  <2>8. ~FollowStarts /\ ~StateStale /\ ~TipMissing /\ ~Interrupted
    BY <1>6, <2>2, Zenon DEF FollowStarts, StateStale, TipMissing, Interrupted, FollowEnds
  <2> QED
    BY <2>4, <2>5, <2>6, <2>7, <2>8, Zenon DEF Next
<1> QED
  BY <1>4, <1>5, <1>6

\* A sample that is taken ends the Follow or finds it within its timeout.
LEMMA ClockTaken ==
  ASSUME SampleTaken, FollowInv, FollowInv', EndInv
  PROVE  StampsAhead' /\ ClockBehind'
<1>0. /\ now \in Nat /\ sample \in Sample /\ acceptedAt \in Nat /\ StreamInv /\ VerdictInv /\ FollowType
      /\ TurnTicks \in Nat /\ MaxAge \in Nat /\ Timeout \in Nat /\ TurnTicks <= MaxAge
      /\ log \in Seq(Entry) /\ session.started \in Nat
  BY TrackingAssumption, StreamAssumption
     DEF FollowInv, FollowSample, HonestSamples, VerdictInv, FollowType
<1>1. sample.at \in Nat /\ sample.stamp \in Int /\ sample.made \in Nat /\ sample.at <= now
  BY <1>0 DEF Sample, EndInv, StatesAhead
<1>2. PICK tip \in Tips :
        /\ NewToSession(sample.stamp)
        /\ log' = Append(log, [t |-> now, made |-> sample.made, tip |-> tip])
        /\ session' = [Advance(tip) EXCEPT !.stamp = sample.stamp]
        /\ phase' \in {"loop", "ended"} /\ (phase' = "loop" => ~TimedOut)
        /\ acceptedAt' = acceptedAt /\ sample' = sample /\ UNCHANGED streamVars
  BY <1>0, TakenShape
<1> DEFINE e == [t |-> now, made |-> sample.made, tip |-> tip]
<1>3. e \in Entry /\ e.t = now
  BY <1>0, <1>1 DEF Entry
<1>4. /\ Len(log') = Len(log) + 1 /\ log'[Len(log) + 1] = e /\ log' # << >>
  BY <1>0, <1>2, <1>3, LogGrows
<1>5. session'.stamp = sample.stamp /\ session'.started = Started
  BY <1>0, <1>1, <1>2, AdvanceFields
<1>6. log'[1].t = Started
  BY <1>4, <1>5 DEF FollowInv, VerdictInv, FollowStarted
<1>7. now' = now
  BY <1>2, Zenon DEF streamVars
<1>8. StampsAhead'
  BY <1>1, <1>2, <1>5 DEF StampsAhead, NewToSession
<1>9. phase' = "loop" => patience' = TurnTicks
  BY Zenon DEF SampleTaken, FollowEnds
<1>10. Started \in Nat
  BY <1>0 DEF Started
<1>11. ASSUME phase' = "loop" PROVE ClockBehind'
  <2>1. now - Started <= Timeout
    BY <1>0, <1>2, <1>10, <1>11 DEF TimedOut
  <2>2. log'[Len(log')].t = now
    BY <1>3, <1>4
  <2>3. now <= log'[1].t + Timeout
    BY <1>0, <1>6, <1>10, <2>1
  <2>4. now' + patience' <= now + MaxAge + 1
    BY <1>0, <1>7, <1>9, <1>11
  <2> QED
    BY <1>1, <1>2, <1>11, <2>2, <2>3, <2>4 DEF ClockBehind
<1>12. phase' # "loop" => ClockBehind'
  BY <1>2, Zenon DEF ClockBehind
<1> QED
  BY <1>8, <1>11, <1>12

\* A Follow that has taken a sample ends within its timeout, the age limit of the
\* states and one turn of the loop, even if states keep coming: _execute_follow() and
\* TrajectoryTracker.advance().
THEOREM FollowEndsInTime == Spec => []EndsInTime
<1>1. Init => EndInv
  <2> SUFFICES ASSUME Init PROVE EndInv
    OBVIOUS
  <2>1. StatesAhead
    <3>1. /\ now = 4 /\ latestState = NoSample /\ stateSequence = 0
          /\ sample = NoSample /\ seen = 0 /\ patience = 0
      BY Zenon DEF Init, StreamInit, Dawn
    <3> QED
      BY <3>1 DEF StatesAhead, NoSample
  <2> QED
    BY <2>1 DEF Init, EndInv, StampsAhead, ClockBehind
<1>2. FollowInv /\ FollowInv' /\ EndInv /\ [Next]_vars => EndInv'
  <2> SUFFICES ASSUME FollowInv, FollowInv', EndInv, [Next]_vars PROVE EndInv'
    OBVIOUS
  <2>1. StatesAhead'
    BY AheadStep DEF EndInv
  <2>2. CASE SampleTaken
    BY <2>1, <2>2, ClockTaken DEF EndInv
  <2>3. CASE ~SampleTaken
    BY <2>1, <2>3, ClockKept DEF EndInv
  <2> QED
    BY <2>2, <2>3
<1>3. FollowInv /\ EndInv => EndsInTime
  <2> SUFFICES ASSUME FollowInv, EndInv, phase \in {"loop", "tip"}, log # << >>
               PROVE  now <= log[1].t + Timeout + MaxAge + TurnTicks + 1
    BY DEF EndsInTime
  <2>1. log \in Seq(Entry) /\ now \in Nat /\ patience \in Nat
    BY DEF FollowInv, VerdictInv, FollowType, EndInv, StatesAhead
  <2>2. Len(log) \in Nat /\ Len(log) >= 1
    BY <2>1, EmptySeq, LenProperties
  <2>3. log[Len(log)] \in Entry /\ log[1] \in Entry
    BY <2>1, <2>2, ElementOfSeq
  <2>4. log[Len(log)].t \in Nat /\ log[1].t \in Nat
    BY <2>3 DEF Entry
  <2>5. /\ log[Len(log)].t <= log[1].t + Timeout
        /\ now + patience <= log[Len(log)].t + MaxAge + 1
             \/ now + patience <= log[Len(log)].t + MaxAge + 1 + TurnTicks
    BY Zenon DEF EndInv, ClockBehind
  <2>6. Timeout \in Nat /\ MaxAge \in Nat /\ TurnTicks \in Nat
    BY TrackingAssumption, StreamAssumption
  <2>7. now \in Nat /\ patience \in Nat
    BY <2>1
  <2>8. now + patience <= log[Len(log)].t + MaxAge + 1 + TurnTicks
    BY <2>4, <2>5, <2>6, <2>7
  <2>9. PICK first \in Nat, last \in Nat : first = log[1].t /\ last = log[Len(log)].t
    BY <2>4, Zenon
  <2>10. last <= first + Timeout /\ now + patience <= last + MaxAge + 1 + TurnTicks
    BY <2>5, <2>8, <2>9, Zenon
  <2>11. now <= first + Timeout + MaxAge + TurnTicks + 1
    BY <2>6, <2>7, <2>10
  <2> QED
    BY <2>9, <2>11, Zenon
<1> QED
  BY <1>1, <1>2, <1>3, FollowInvariant, PTL DEF Spec

-----------------------------------------------------------------------------
(* A fixed action. *)

FixedEntry == [t : Nat, pose : Poses, moving : BOOLEAN]
ExecutorType ==
  [index : 1 .. Len(Steps) + 1, started : Nat, hold : Nat, from : [Axes -> -Limit .. Limit]]

FixedType ==
  /\ place \in {"idle", "tip", "loop", "ended"}
  /\ record \in Seq(FixedEntry) /\ executor \in ExecutorType

\* Where a fixed action is and what its verdict says of its executor.
FixedPlace ==
  /\ place \in {"idle", "tip"} => record = << >> /\ executor = NewExecutor
  /\ place = "loop" => record # << >> /\ ~Completed(executor)
  /\ place # "ended" => verdict = ""
  /\ verdict = "SEQUENCE_COMPLETED" => record # << >> /\ Completed(executor)

\* The first n steps, by the record.
Carried(n, reached, left) ==
  \A k \in 1 .. n :
    LET first == IF k = 1 THEN 1 ELSE left[k - 1] IN
    /\ first <= reached[k] /\ reached[k] < left[k]
    /\ InPlace(k, record[first].pose, record[reached[k]].pose)
    /\ record[reached[k]].t - record[first].t < StepTimeout
    /\ record[left[k]].t - record[reached[k]].t >= Hold
    /\ \A i \in reached[k] .. left[k] - 1 : ~record[i].moving

\* The state with which the current step reached its target, and since which it holds.
HoldsSince(first, r) ==
  /\ first <= r /\ InPlace(executor.index, executor.from, record[r].pose)
  /\ record[r].t - executor.started < StepTimeout /\ executor.hold = record[r].t + Hold
  /\ \A i \in r .. Len(record) : ~record[i].moving

\* The current step began with the given state.
BeganWith(first) ==
  /\ first \in 1 .. Len(record) /\ executor.started # 0
  /\ executor.from = record[first].pose /\ executor.started = record[first].t
  /\ executor.hold # 0 => \E r \in 1 .. Len(record) : HoldsSince(first, r)

\* The executor has carried out the steps before its own, and its own began with the
\* state that ended the one before.
StepsSoFar ==
  record # << >> =>
    \E reached, left \in [1 .. executor.index - 1 -> 1 .. Len(record)] :
      /\ Carried(executor.index - 1, reached, left)
      /\ ~Completed(executor) => BeganWith(IF executor.index = 1 THEN 1 ELSE left[executor.index - 1])

\* What a step may take, the state that is late included.
StepTime == StepTimeout + Hold + MaxAge

\* The executor's clock against the states it was given.
FixedClock ==
  /\ latestState.at <= now /\ lastSample \in Sample /\ lastSample.at <= now
  /\ place = "loop" =>
       LET t == record[Len(record)].t IN
       /\ lastSample.at <= t /\ now <= t + MaxAge + 1
       /\ executor.started <= record[1].t + (executor.index - 1) * StepTime
       /\ IF executor.hold = 0 THEN t < executor.started + StepTimeout
          ELSE t <= executor.hold /\ executor.hold < executor.started + StepTimeout + Hold

\* The inductive invariant of a fixed action and its stream.
FixedInv == StreamInv /\ FixedType /\ FixedPlace /\ StepsSoFar /\ FixedClock

-----------------------------------------------------------------------------

\* A step of the fixed action is a step of the stream or leaves it alone.
LEMMA FixedStreamSteps == [FixedNext]_fixedAllVars => [StreamNext]_streamVars
<1> SUFFICES ASSUME FixedNext PROVE StreamNext \/ UNCHANGED streamVars
  BY Zenon DEF fixedAllVars
<1>1. CASE FixedStep
  BY <1>1, Zenon DEF FixedStep, FixedStarts, FixedRefused, FixedBegins, FixedTakesState, FixedStale, FixedCancelled
<1>2. CASE FixedTick
  BY <1>2, Zenon DEF FixedTick, StreamNext
<1>3. CASE (OrinSends \/ OrinRestarts \/ Loses \/ StartReceiver \/ Receive) /\ UNCHANGED fixedVars
  BY <1>3, Zenon DEF StreamNext
<1> QED
  BY <1>1, <1>2, <1>3, Zenon DEF FixedNext

\* The newest state was received at the latest now.
LEMMA ReceivedByNow ==
  ASSUME StreamInv, StreamInv', [StreamNext]_streamVars, latestState.at <= now
  PROVE  latestState'.at <= now'
<1>0. now \in Nat /\ now' \in Nat /\ latestState \in Sample /\ latestState.at \in Nat
  BY DEF StreamInv, StreamNumbers, StreamMemory, HonestSamples, Sample
<1>1. CASE OrinSends \/ OrinRestarts \/ Loses \/ StartReceiver \/ UNCHANGED streamVars
  <2>1. latestState' = latestState /\ now' = now
    BY <1>1, Zenon DEF OrinSends, OrinRestarts, Loses, StartReceiver, serverVars, streamVars
  <2> QED
    BY <2>1
<1>2. CASE TimePasses
  <2>1. latestState' = latestState /\ now' = now + 1
    BY <1>2, Zenon DEF TimePasses, serverVars
  <2> QED
    BY <1>0, <2>1
<1>3. CASE Receive
  <2>1. now' = now /\ (latestState' = latestState \/ \E i \in DOMAIN flight : Accept(flight[i]))
    BY <1>3, Zenon DEF Receive, serverVars
  <2>2. ASSUME NEW i \in DOMAIN flight, Accept(flight[i]) PROVE latestState'.at = now
    BY <2>2 DEF Accept
  <2> QED
    BY <1>0, <2>1, <2>2
<1> QED
  BY <1>1, <1>2, <1>3, Zenon DEF StreamNext

\* The record after one more state.
LEMMA RecordGrows ==
  ASSUME record \in Seq(FixedEntry), NEW e \in FixedEntry, record' = Append(record, e)
  PROVE  /\ record' \in Seq(FixedEntry) /\ Len(record) \in Nat /\ Len(record') = Len(record) + 1
         /\ \A k \in 1 .. Len(record) : record'[k] = record[k]
         /\ record'[Len(record) + 1] = e /\ record' # << >>
<1> QED
  BY AppendProperties, LenProperties

\* One more state keeps the steps that are carried out.
LEMMA CarriedKept ==
  ASSUME record \in Seq(FixedEntry), NEW e \in FixedEntry, record' = Append(record, e),
         NEW n \in Nat, NEW reached \in [1 .. n -> 1 .. Len(record)],
         NEW left \in [1 .. n -> 1 .. Len(record)], Carried(n, reached, left)
  PROVE  /\ Carried(n, reached, left)'
         /\ reached \in [1 .. n -> 1 .. Len(record')] /\ left \in [1 .. n -> 1 .. Len(record')]
<1>1. Len(record) \in Nat /\ Len(record') = Len(record) + 1 /\ \A k \in 1 .. Len(record) : record'[k] = record[k]
  BY RecordGrows
<1>2. ASSUME NEW k \in 1 .. n, NEW first, first = IF k = 1 THEN 1 ELSE left[k - 1]
      PROVE  /\ first <= reached[k] /\ reached[k] < left[k]
             /\ InPlace(k, record'[first].pose, record'[reached[k]].pose)
             /\ record'[reached[k]].t - record'[first].t < StepTimeout
             /\ record'[left[k]].t - record'[reached[k]].t >= Hold
             /\ \A i \in reached[k] .. left[k] - 1 : ~record'[i].moving
  <2>1. /\ first <= reached[k] /\ reached[k] < left[k]
        /\ InPlace(k, record[first].pose, record[reached[k]].pose)
        /\ record[reached[k]].t - record[first].t < StepTimeout
        /\ record[left[k]].t - record[reached[k]].t >= Hold
        /\ \A i \in reached[k] .. left[k] - 1 : ~record[i].moving
    BY <1>2 DEF Carried
  <2>2. reached[k] \in 1 .. Len(record) /\ left[k] \in 1 .. Len(record)
    OBVIOUS
  <2>3. first \in 1 .. Len(record)
    <3>1. k # 1 => k - 1 \in 1 .. n
      OBVIOUS
    <3> QED
      BY <1>1, <1>2, <2>2, <3>1
  <2>4. \A i \in reached[k] .. left[k] - 1 : i \in 1 .. Len(record)
    BY <1>1, <2>2
  <2> QED
    BY <1>1, <2>1, <2>2, <2>3, <2>4
<1>3. Carried(n, reached, left)'
  BY <1>2 DEF Carried
<1>4. 1 .. Len(record) \subseteq 1 .. Len(record')
  BY <1>1
<1> QED
  BY <1>3, <1>4

\* The state with which the hold of a step is over carries one more step out.
LEMMA StepPassed ==
  ASSUME FixedType, StreamInv, StepsSoFar, record # << >>, ~Completed(executor), HoldOver,
         NEW e \in FixedEntry, e.t = now, record' = Append(record, e),
         NEW n \in Nat, n = executor.index
  PROVE  \E reached, left \in [1 .. n -> 1 .. Len(record')] :
           Carried(n, reached, left)' /\ left[n] = Len(record')
<1>0. /\ n >= 1 /\ Hold \in Nat /\ StepTimeout \in Nat /\ now \in Nat
      /\ record \in Seq(FixedEntry) /\ executor.hold # 0 /\ now >= executor.hold /\ n - 1 \in Nat
  BY FixedAssumption DEF FixedType, ExecutorType, HoldOver, StreamInv, StreamNumbers
<1>l. PICK l \in Nat : l = Len(record) + 1
  BY <1>0, LenProperties
<1>1. /\ Len(record) \in Nat /\ Len(record') = l
      /\ \A k \in 1 .. Len(record) : record'[k] = record[k] /\ record[k].t \in Nat
      /\ record'[l] = e
  <2>1. \A k \in 1 .. Len(record) : record[k] \in FixedEntry
    BY <1>0, ElementOfSeq
  <2>2. \A k \in 1 .. Len(record) : record[k].t \in Nat
    BY <2>1 DEF FixedEntry
  <2> QED
    BY <1>0, <1>l, <2>2, RecordGrows
<1>2. PICK reached \in [1 .. n - 1 -> 1 .. Len(record)], left \in [1 .. n - 1 -> 1 .. Len(record)] :
        /\ Carried(n - 1, reached, left)
        /\ BeganWith(IF n = 1 THEN 1 ELSE left[n - 1])
  BY <1>0 DEF StepsSoFar
<1>f. PICK first : first = IF n = 1 THEN 1 ELSE left[n - 1]
  OBVIOUS
<1>3. PICK r \in 1 .. Len(record) : HoldsSince(first, r)
  BY <1>0, <1>2, <1>f DEF BeganWith
<1>4. /\ first \in 1 .. Len(record) /\ executor.from = record[first].pose
      /\ executor.started = record[first].t
  BY <1>2, <1>f DEF BeganWith
<1>5. Carried(n - 1, reached, left)'
  BY <1>0, <1>2, CarriedKept
<1> DEFINE f == [k \in 1 .. n |-> IF k = n THEN r ELSE reached[k]]
           g == [k \in 1 .. n |-> IF k = n THEN l ELSE left[k]]
<1>6. \A k \in 1 .. n : k # n => k \in 1 .. n - 1 /\ f[k] = reached[k] /\ g[k] = left[k]
  BY <1>0
<1>7. f[n] = r /\ g[n] = l
  BY <1>0
<1>8. f \in [1 .. n -> 1 .. Len(record')] /\ g \in [1 .. n -> 1 .. Len(record')]
  <2>1. \A k \in 1 .. n - 1 : reached[k] \in 1 .. Len(record) /\ left[k] \in 1 .. Len(record)
    OBVIOUS
  <2>2. 1 .. Len(record) \subseteq 1 .. Len(record') /\ l \in 1 .. Len(record')
    BY <1>1, <1>l
  <2> QED
    BY <1>6, <1>7, <2>1, <2>2
<1> HIDE DEF f, g
<1>9. ASSUME NEW k \in 1 .. n, NEW h, h = IF k = 1 THEN 1 ELSE g[k - 1]
      PROVE  /\ h <= f[k] /\ f[k] < g[k]
             /\ InPlace(k, record'[h].pose, record'[f[k]].pose)
             /\ record'[f[k]].t - record'[h].t < StepTimeout
             /\ record'[g[k]].t - record'[f[k]].t >= Hold
             /\ \A i \in f[k] .. g[k] - 1 : ~record'[i].moving
  <2>1. k # 1 => k - 1 \in 1 .. n /\ k - 1 # n /\ g[k - 1] = left[k - 1]
    <3>1. k # 1 => k - 1 \in 1 .. n /\ k - 1 # n
      BY <1>0
    <3> QED
      BY <1>6, <3>1
  <2>2. CASE k = n
    <3>1. h = first
      BY <1>9, <1>f, <2>1, <2>2
    <3>2. /\ first <= r /\ InPlace(n, record[first].pose, record[r].pose)
          /\ record[r].t - record[first].t < StepTimeout /\ executor.hold = record[r].t + Hold
          /\ \A i \in r .. Len(record) : ~record[i].moving
      BY <1>3, <1>4 DEF HoldsSince
    <3>3. record'[first] = record[first] /\ record'[r] = record[r]
      BY <1>1, <1>4
    <3>4. \A i \in r .. l - 1 : i \in 1 .. Len(record) /\ i \in r .. Len(record)
      BY <1>1, <1>l
    <3>5. \A i \in r .. l - 1 : ~record'[i].moving
      BY <1>1, <3>2, <3>4
    <3>6. r < l
      BY <1>1, <1>l
    <3>7. e.t - record[r].t >= Hold
      BY <1>0, <1>1, <3>2
    <3> QED
      BY <1>1, <1>7, <2>2, <3>1, <3>2, <3>3, <3>5, <3>6, <3>7
  <2>3. CASE k # n
    <3>1. k \in 1 .. n - 1 /\ f[k] = reached[k] /\ g[k] = left[k] /\ h = (IF k = 1 THEN 1 ELSE left[k - 1])
      BY <1>6, <1>9, <2>1, <2>3
    <3> QED
      BY <1>5, <3>1 DEF Carried
  <2> QED
    BY <2>2, <2>3
<1>10. Carried(n, f, g)'
  BY <1>9 DEF Carried
<1> QED
  BY <1>1, <1>7, <1>8, <1>10

\* What the executor makes of a state: it holds, has carried out its last step, or
\* works on a step, which may have begun with this state.
Driven(pose, ex, moving) ==
  /\ record' = Append(record, [t |-> now, pose |-> pose, moving |-> moving])
  /\ ex = IF HoldOver THEN Advanced(executor) ELSE executor
  /\ executor' \in ExecutorType
  /\ place' \in {"loop", "ended"} /\ (place' = "loop" => verdict' = verdict /\ ~Completed(executor'))
  /\ verdict' = "SEQUENCE_COMPLETED" => Completed(executor')
  /\ \/ (Holding \/ Completed(ex)) /\ executor' = ex /\ ~moving
     \/ /\ ~Holding /\ ~Completed(ex) /\ ex.hold = 0
        /\ executor'.index = ex.index /\ executor'.started = Begun(ex, pose).started
        /\ executor'.from = Begun(ex, pose).from
        /\ place' = "loop" => now - executor'.started < StepTimeout
        /\ \/ executor'.hold = 0
           \/ /\ executor'.hold = now + Hold /\ ~moving
              /\ now - executor'.started < StepTimeout
              /\ InPlace(executor'.index, executor'.from, pose)

\* Drives() does nothing else.
LEMMA DriveShape ==
  ASSUME FixedType, FixedPlace, StreamInv, NEW pose \in Poses, place # "ended", Drives(pose)
  PROVE  \E moving \in BOOLEAN, ex \in ExecutorType : Driven(pose, ex, moving)
<1> USE DEF Driven
<1> DEFINE ex == IF HoldOver THEN Advanced(executor) ELSE executor
           cur == Begun(ex, pose)
           late == now - cur.started >= StepTimeout
<1>0. /\ now \in Nat /\ Hold \in Nat /\ StepTimeout \in Nat /\ Len(Steps) \in Nat /\ executor \in ExecutorType
      /\ pose \in [Axes -> -Limit .. Limit] /\ Limit \in Nat /\ ~Completed(executor)
  <2>1. Len(Steps) \in Nat /\ Len(Steps) > 0
    BY FixedAssumption, LenProperties, EmptySeq
  <2>2. ~Completed(executor)
    <3>1. CASE place = "loop"
      BY <3>1 DEF FixedPlace
    <3>2. CASE place # "loop"
      <4>1. executor = NewExecutor
        BY <3>2 DEF FixedPlace, FixedType
      <4> QED
        BY <2>1, <4>1 DEF NewExecutor, Completed
    <3> QED
      BY <3>1, <3>2
  <2> QED
    BY <2>1, <2>2, FixedAssumption DEF FixedType, StreamInv, StreamNumbers
<1>1. ex \in ExecutorType /\ (~Holding => ex.hold = 0)
  <2>1. CASE HoldOver
    <3>1. AtZero \in [Axes -> -Limit .. Limit]
      BY <1>0 DEF AtZero
    <3>2. executor.index + 1 \in 1 .. Len(Steps) + 1
      BY <1>0 DEF ExecutorType, Completed
    <3>3. ex = [index |-> executor.index + 1, started |-> 0, hold |-> 0, from |-> AtZero]
      BY <2>1 DEF Advanced, NewExecutor
    <3> QED
      BY <3>1, <3>2, <3>3 DEF ExecutorType
  <2>2. CASE ~HoldOver
    <3>1. ex = executor
      BY <2>2
    <3> QED
      BY <1>0, <2>2, <3>1 DEF HoldOver, Holding
  <2> QED
    BY <2>1, <2>2
<1> HIDE DEF ex
<1>2. cur \in ExecutorType /\ cur.index = ex.index /\ cur.hold = ex.hold /\ cur.started \in Nat
  BY <1>0, <1>1 DEF Begun, ExecutorType
<1> HIDE DEF cur
<1>3. StepResult(pose) =
        IF Holding \/ Completed(ex) THEN [executor |-> ex, failed |-> FALSE, moving |-> FALSE]
        ELSE IF late THEN [executor |-> cur, failed |-> TRUE, moving |-> FALSE]
        ELSE IF InPlace(cur.index, cur.from, pose)
          THEN [executor |-> [cur EXCEPT !.hold = now + Hold], failed |-> FALSE, moving |-> FALSE]
        ELSE [executor |-> cur, failed |-> FALSE, moving |-> TRUE]
  BY DEF StepResult, ex, cur
<1> DEFINE res == StepResult(pose)
<1>4. /\ executor' = res.executor
      /\ record' = Append(record, [t |-> now, pose |-> pose, moving |-> res.moving])
      /\ \/ FixedEnds("GATE_CLOSED")
         \/ res.failed /\ FixedEnds("STEP_TIMEOUT")
         \/ Completed(res.executor) /\ FixedEnds("SEQUENCE_COMPLETED")
         \/ ~res.failed /\ ~Completed(res.executor) /\ place' = "loop" /\ UNCHANGED verdict
  BY Zenon DEF Drives
<1> HIDE DEF res
<1>5. /\ place' \in {"loop", "ended"}
      /\ place' = "loop" => verdict' = verdict /\ ~Completed(executor') /\ ~res.failed
      /\ verdict' = "SEQUENCE_COMPLETED" => Completed(executor')
  <2>1. CASE FixedEnds("GATE_CLOSED")
    BY <2>1 DEF FixedEnds
  <2>2. CASE FixedEnds("STEP_TIMEOUT")
    BY <2>2 DEF FixedEnds
  <2>3. CASE Completed(res.executor) /\ FixedEnds("SEQUENCE_COMPLETED")
    BY <1>4, <2>3 DEF FixedEnds
  <2>4. CASE ~res.failed /\ ~Completed(res.executor) /\ place' = "loop" /\ UNCHANGED verdict
    <3>1. verdict # "SEQUENCE_COMPLETED"
      BY DEF FixedPlace
    <3> QED
      BY <1>4, <2>4, <3>1
  <2> QED
    BY <1>4, <2>1, <2>2, <2>3, <2>4
<1>6. CASE Holding \/ Completed(ex)
  <2>1. res = [executor |-> ex, failed |-> FALSE, moving |-> FALSE]
    BY <1>3, <1>6 DEF res
  <2>2. executor' = ex /\ res.moving = FALSE
    BY <1>4, <2>1
  <2> QED
    BY <1>1, <1>4, <1>5, <1>6, <2>2 DEF ex
<1>7. CASE ~Holding /\ ~Completed(ex) /\ late
  <2>1. res = [executor |-> cur, failed |-> TRUE, moving |-> FALSE]
    BY <1>3, <1>7 DEF res
  <2>2. executor' = cur /\ res.moving = FALSE /\ res.failed
    BY <1>4, <2>1
  <2>3. place' # "loop"
    BY <1>5, <2>2
  <2> QED
    BY <1>1, <1>2, <1>4, <1>5, <1>7, <2>2, <2>3 DEF ex, cur
<1>8. CASE ~Holding /\ ~Completed(ex) /\ ~late /\ InPlace(cur.index, cur.from, pose)
  <2>1. res = [executor |-> [cur EXCEPT !.hold = now + Hold], failed |-> FALSE, moving |-> FALSE]
    BY <1>3, <1>8 DEF res
  <2>2. executor' = [cur EXCEPT !.hold = now + Hold] /\ res.moving = FALSE
    BY <1>4, <2>1
  <2>3. /\ executor' \in ExecutorType /\ executor'.index = cur.index /\ executor'.started = cur.started
        /\ executor'.from = cur.from /\ executor'.hold = now + Hold
    <3>1. PICK h \in Nat : h = now + Hold
      BY <1>0
    <3>2. executor' = [cur EXCEPT !.hold = h]
      BY <2>2, <3>1
    <3> QED
      BY <1>2, <3>1, <3>2 DEF ExecutorType
  <2>4. now - executor'.started < StepTimeout
    BY <1>0, <1>2, <1>8, <2>3
  <2>5. InPlace(executor'.index, executor'.from, pose)
    BY <1>8, <2>3
  <2> QED
    BY <1>1, <1>2, <1>4, <1>5, <1>8, <2>2, <2>3, <2>4, <2>5 DEF ex, cur
<1>9. CASE ~Holding /\ ~Completed(ex) /\ ~late /\ ~InPlace(cur.index, cur.from, pose)
  <2>1. res = [executor |-> cur, failed |-> FALSE, moving |-> TRUE]
    BY <1>3, <1>9 DEF res
  <2>2. executor' = cur /\ res.moving = TRUE
    BY <1>4, <2>1
  <2>4. now - executor'.started < StepTimeout
    BY <1>0, <1>2, <1>9, <2>2
  <2> QED
    BY <1>1, <1>2, <1>4, <1>5, <1>9, <2>2, <2>4 DEF ex, cur
<1> QED
  BY <1>6, <1>7, <1>8, <1>9

\* A state the executor is given keeps what the record says of the steps.
LEMMA DriveSteps ==
  ASSUME FixedType, FixedPlace, StreamInv, StepsSoFar, NEW pose \in Poses,
         place # "ended", Drives(pose)
  PROVE  FixedType' /\ FixedPlace' /\ StepsSoFar'
<1>1. PICK moving \in BOOLEAN, ex \in ExecutorType : Driven(pose, ex, moving)
  BY DriveShape
<1> USE DEF Driven
<1>e. PICK e \in FixedEntry : e = [t |-> now, pose |-> pose, moving |-> moving]
  BY DEF FixedEntry, StreamInv, StreamNumbers
<1>0. /\ now \in Nat /\ now > 0 /\ Hold \in Nat /\ StepTimeout \in Nat /\ StepTimeout > 0
      /\ record \in Seq(FixedEntry) /\ executor \in ExecutorType
      /\ e.t = now /\ e.pose = pose /\ e.moving = moving /\ record' = Append(record, e)
  BY <1>1, <1>e, FixedAssumption DEF FixedType, StreamInv, StreamNumbers
<1>l. PICK l \in Nat : l = Len(record) + 1
  BY <1>0, LenProperties
<1>2. /\ Len(record) \in Nat /\ Len(record') = l /\ record' \in Seq(FixedEntry)
      /\ \A k \in 1 .. Len(record) : record'[k] = record[k]
      /\ record'[l] = e /\ record' # << >>
  BY <1>0, <1>l, RecordGrows
<1>3. FixedType'
  BY <1>1, <1>2 DEF FixedType, FixedEntry, ExecutorType
<1>4. FixedPlace'
  BY <1>1, <1>2 DEF FixedPlace, Completed
<1>5. /\ executor.index \in Nat /\ executor.index >= 1 /\ executor'.index \in Nat /\ executor'.index >= 1
      /\ executor.started \in Nat /\ executor.hold \in Nat /\ ex.started \in Nat
      /\ executor'.started \in Nat /\ executor'.hold \in Nat
  BY <1>0, <1>1 DEF ExecutorType
<1>6. place = "loop" => record # << >> /\ ~Completed(executor)
  BY DEF FixedPlace
<1>7. place # "loop" => record = << >> /\ executor = NewExecutor
  BY DEF FixedPlace, FixedType
\* The first state of a step, from which the executor takes the time and the pose.
<1>8. ASSUME NEW first, first = l, ex.started = 0, ~Completed(ex), ~Holding
      PROVE  /\ first \in 1 .. Len(record') /\ executor'.started # 0
             /\ executor'.from = record'[first].pose /\ executor'.started = record'[first].t
             /\ executor'.hold # 0 => \E r \in 1 .. Len(record') : HoldsSince(first, r)'
  <2>1. first \in 1 .. Len(record') /\ record'[first] = e
    BY <1>2, <1>l, <1>8
  <2>2. executor'.started = now /\ executor'.from = pose
    BY <1>1, <1>8 DEF Begun
  <2>3. ASSUME executor'.hold # 0 PROVE HoldsSince(first, first)'
    <3>1. ~moving /\ InPlace(executor'.index, executor'.from, pose) /\ executor'.hold = now + Hold
      BY <1>1, <1>8, <2>3
    <3>2. \A i \in first .. Len(record') : i = first
      BY <1>2, <1>8
    <3>3. record'[first].t - executor'.started < StepTimeout
      BY <1>0, <2>1, <2>2
    <3> QED
      BY <1>0, <2>1, <3>1, <3>2, <3>3, <1>2, <1>8 DEF HoldsSince
  <2> QED
    BY <1>0, <2>1, <2>2, <2>3
<1>9. CASE record = << >>
  <2>1. executor = NewExecutor /\ ex = executor /\ ~Holding /\ ex.started = 0 /\ executor.index = 1 /\ ~Completed(ex)
    <3>1. executor = NewExecutor /\ executor.index = 1 /\ executor.hold = 0 /\ executor.started = 0
      BY <1>6, <1>7, <1>9 DEF NewExecutor
    <3>2. Len(Steps) \in Nat /\ Len(Steps) > 0
      BY FixedAssumption, LenProperties, EmptySeq
    <3> QED
      BY <1>1, <3>1, <3>2 DEF HoldOver, Holding, Completed
  <2>2. executor'.index = 1 /\ l = 1
    BY <1>1, <1>9, <1>l, <2>1
  <2>3. BeganWith(1)'
    BY <1>8, <2>1, <2>2 DEF BeganWith
  <2>4. \A f \in [1 .. 0 -> 1 .. Len(record')] : Carried(0, f, f)'
    BY DEF Carried
  <2>5. [k \in 1 .. 0 |-> 1] \in [1 .. executor'.index - 1 -> 1 .. Len(record')] /\ executor'.index - 1 = 0
    BY <2>2
  <2> QED
    BY <1>3, <1>4, <2>2, <2>3, <2>4, <2>5 DEF StepsSoFar
<1>10. CASE record # << >> /\ HoldOver
  <2>1. /\ ex = Advanced(executor) /\ ~Holding /\ ex.index = executor.index + 1 /\ ex.started = 0
        /\ ~Completed(executor)
    BY <1>1, <1>6, <1>7, <1>10 DEF Advanced, NewExecutor, Holding
  <2>n. PICK n \in Nat : n = executor.index
    BY <1>5
  <2>2. PICK reached, left \in [1 .. n -> 1 .. Len(record')] :
          Carried(n, reached, left)' /\ left[n] = Len(record')
    BY <1>0, <1>10, <2>1, <2>n, StepPassed
  <2>3. executor'.index = n + 1
    BY <1>1, <2>1, <2>n
  <2>4. executor'.index - 1 = n /\ executor'.index # 1
    BY <2>3, <2>n, <1>5
  <2>5. ASSUME ~Completed(executor') PROVE BeganWith(left[n])'
    <3>1. ~Completed(ex)
      BY <2>1, <2>3, <2>5, <2>n DEF Completed
    <3>2. left[n] = l
      BY <1>2, <2>2
    <3> QED
      BY <1>8, <2>1, <3>1, <3>2 DEF BeganWith
  <2> QED
    BY <1>3, <1>4, <2>2, <2>4, <2>5 DEF StepsSoFar, Completed
<1>11. CASE record # << >> /\ ~HoldOver
  <2>1. ex = executor /\ ~Completed(executor) /\ ~Completed(ex)
    BY <1>1, <1>6, <1>7, <1>11
  <2>n. PICK n \in Nat : n = executor.index
    BY <1>5
  <2>2. PICK reached, left \in [1 .. n - 1 -> 1 .. Len(record)] :
          /\ Carried(n - 1, reached, left)
          /\ BeganWith(IF n = 1 THEN 1 ELSE left[n - 1])
    BY <1>11, <2>1, <2>n DEF StepsSoFar
  <2>f. PICK first : first = IF n = 1 THEN 1 ELSE left[n - 1]
    OBVIOUS
  <2>3. /\ Carried(n - 1, reached, left)'
        /\ reached \in [1 .. n - 1 -> 1 .. Len(record')] /\ left \in [1 .. n - 1 -> 1 .. Len(record')]
    <3>1. n - 1 \in Nat
      BY <1>5, <2>n
    <3> QED
      BY <1>0, <2>2, <3>1, CarriedKept
  <2>4. /\ first \in 1 .. Len(record) /\ executor.started # 0
        /\ executor.from = record[first].pose /\ executor.started = record[first].t
        /\ executor.hold # 0 => \E r \in 1 .. Len(record) : HoldsSince(first, r)
    BY <2>2, <2>f DEF BeganWith
  <2>5. /\ executor'.index = executor.index /\ executor'.from = executor.from
        /\ executor'.started = executor.started
    BY <1>1, <2>1, <2>4 DEF Begun
  <2>6. first \in 1 .. Len(record') /\ record'[first] = record[first]
    BY <1>2, <1>l, <2>4
  <2>7. ASSUME executor'.hold # 0 PROVE \E r \in 1 .. Len(record') : HoldsSince(first, r)'
    <3>1. CASE Holding
      <4>1. executor' = executor /\ ~moving /\ executor.hold # 0
        BY <1>1, <2>1, <3>1 DEF Holding
      <4>2. PICK r \in 1 .. Len(record) : HoldsSince(first, r)
        BY <2>4, <4>1
      <4>3. /\ first <= r /\ InPlace(executor.index, executor.from, record[r].pose)
            /\ record[r].t - executor.started < StepTimeout /\ executor.hold = record[r].t + Hold
            /\ \A i \in r .. Len(record) : ~record[i].moving
        BY <4>2 DEF HoldsSince
      <4>4. r \in 1 .. Len(record') /\ record'[r] = record[r]
        BY <1>2, <1>l
      <4>5. ASSUME NEW i \in r .. Len(record') PROVE ~record'[i].moving
        <5>1. CASE i = l
          BY <1>0, <1>2, <4>1, <5>1
        <5>2. CASE i # l
          <6>1. i \in r .. Len(record) /\ i \in 1 .. Len(record)
            BY <1>2, <1>l, <5>2
          <6> QED
            BY <1>2, <4>3, <6>1
        <5> QED
          BY <5>1, <5>2
      <4> QED
        BY <4>1, <4>3, <4>4, <4>5 DEF HoldsSince
    <3>2. CASE ~Holding
      <4>1. /\ ~moving /\ InPlace(executor'.index, executor'.from, pose) /\ executor'.hold = now + Hold
            /\ now - executor'.started < StepTimeout
        BY <1>1, <2>1, <2>7, <3>2
      <4>2. l \in 1 .. Len(record') /\ first <= l
        BY <1>2, <1>l, <2>4
      <4>3. \A i \in l .. Len(record') : i = l
        BY <1>2
      <4> QED
        BY <1>0, <1>2, <4>1, <4>2, <4>3 DEF HoldsSince
    <3> QED
      BY <3>1, <3>2
  <2>8. BeganWith(first)'
    BY <2>4, <2>5, <2>6, <2>7 DEF BeganWith
  <2>9. executor'.index = n
    BY <2>5, <2>n
  <2> QED
    BY <1>3, <1>4, <2>3, <2>8, <2>9, <2>f DEF StepsSoFar
<1> QED
  BY <1>9, <1>10, <1>11

\* The times of n steps and of one more.
LEMMA StepTimes ==
  /\ StepTime \in Nat
  /\ \A n \in Nat : n * StepTime \in Nat /\ (n + 1) * StepTime = n * StepTime + StepTime
  /\ \A n, m \in Nat : n <= m => n * StepTime <= m * StepTime
<1>1. PICK c \in Nat : c = StepTime
  BY FixedAssumption, StreamAssumption DEF StepTime
<1>2. \A n \in Nat : n * c \in Nat /\ (n + 1) * c = n * c + c
  BY SMT
<1>3. \A n, m \in Nat : n <= m => n * c <= m * c
  BY SMT
<1> QED
  BY <1>1, <1>2, <1>3

\* What the executor's clock says of the fixed action's time.
LEMMA ClockBounds ==
  ASSUME FixedInv
  PROVE  FixedEndsInTime /\ (place = "loop" => now <= record[1].t + executor.index * StepTime)
<1> SUFFICES ASSUME place = "loop"
             PROVE  /\ now <= record[1].t + executor.index * StepTime
                    /\ now <= record[1].t + Len(Steps) * (StepTimeout + Hold + MaxAge)
  BY DEF FixedEndsInTime
<1>0. now \in Nat /\ Hold \in Nat /\ StepTimeout \in Nat /\ MaxAge \in Nat
  BY FixedAssumption, StreamAssumption DEF FixedInv, StreamInv, StreamNumbers
<1> DEFINE t == record[Len(record)].t
           b == record[1].t
<1>1. /\ record \in Seq(FixedEntry) /\ record # << >> /\ executor \in ExecutorType /\ ~Completed(executor)
  BY DEF FixedInv, FixedType, FixedPlace
<1>2. Len(record) \in Nat /\ Len(record) >= 1
  BY <1>1, LenProperties, EmptySeq
<1>3. record[1] \in FixedEntry /\ record[Len(record)] \in FixedEntry
  BY <1>1, <1>2, ElementOfSeq
<1>4. t \in Nat /\ b \in Nat
  BY <1>3 DEF FixedEntry
<1>5. PICK k \in Nat : k = executor.index - 1
  BY <1>1 DEF ExecutorType
<1>6. /\ executor.started \in Nat /\ executor.hold \in Nat /\ executor.index = k + 1
      /\ Len(Steps) \in Nat /\ k + 1 <= Len(Steps)
  BY <1>1, <1>5, FixedAssumption, LenProperties DEF ExecutorType, Completed
<1>7. /\ now <= t + MaxAge + 1 /\ executor.started <= b + k * StepTime
      /\ IF executor.hold = 0 THEN t < executor.started + StepTimeout
         ELSE t <= executor.hold /\ executor.hold < executor.started + StepTimeout + Hold
  BY <1>5 DEF FixedInv, FixedClock
<1> HIDE DEF t, b
<1>8. now <= executor.started + StepTimeout + Hold + MaxAge
  <2>1. executor.started \in Nat /\ executor.hold \in Nat
    BY <1>6
  <2>2. t < executor.started + StepTimeout + Hold
    BY <1>0, <1>4, <1>7, <2>1
  <2> QED BY <1>0, <1>4, <1>7, <2>1, <2>2
<1>9. k * StepTime \in Nat /\ (k + 1) * StepTime = k * StepTime + StepTime /\ StepTime \in Nat
  BY StepTimes
<1>10. (k + 1) * StepTime <= Len(Steps) * StepTime /\ (k + 1) * StepTime \in Nat /\ Len(Steps) * StepTime \in Nat
  <2>1. k + 1 \in Nat
    OBVIOUS
  <2> QED
    BY <1>6, <2>1, StepTimes
<1>11. StepTime = StepTimeout + Hold + MaxAge
  BY DEF StepTime
<1>12. now <= b + (k + 1) * StepTime
  BY <1>0, <1>4, <1>6, <1>7, <1>8, <1>9, <1>11
<1>13. now <= b + Len(Steps) * StepTime
  BY <1>0, <1>4, <1>10, <1>12
<1> QED
  BY <1>6, <1>11, <1>12, <1>13 DEF b

\* A state the executor is given keeps its clock.
LEMMA DriveClock ==
  ASSUME FixedInv, NEW pose \in Poses, place # "ended", Drives(pose),
         now' = now, latestState' = latestState,
         lastSample' \in Sample, lastSample'.at <= now
  PROVE  FixedClock'
<1>1. PICK moving \in BOOLEAN, ex \in ExecutorType : Driven(pose, ex, moving)
  BY DriveShape DEF FixedInv
<1> USE DEF Driven
<1>2. FixedClock /\ FixedPlace /\ FixedType
  BY DEF FixedInv
<1>3. /\ now \in Nat /\ now > 0 /\ Hold \in Nat /\ StepTimeout \in Nat /\ StepTimeout > 0 /\ MaxAge \in Nat
      /\ record \in Seq(FixedEntry) /\ executor \in ExecutorType
      /\ lastSample'.at \in Nat
  BY FixedAssumption, StreamAssumption DEF FixedInv, FixedType, StreamInv, StreamNumbers, Sample
<1>e. PICK e \in FixedEntry : e = [t |-> now, pose |-> pose, moving |-> moving]
  BY <1>3 DEF FixedEntry
<1>4. /\ Len(record) \in Nat /\ Len(record') = Len(record) + 1
      /\ \A k \in 1 .. Len(record) : record'[k] = record[k]
      /\ record'[Len(record')] = e
  BY <1>1, <1>3, <1>e, RecordGrows
<1>5. latestState'.at <= now' /\ lastSample' \in Sample /\ lastSample'.at <= now'
  BY <1>2 DEF FixedClock
<1>6. SUFFICES ASSUME place' = "loop"
               PROVE  /\ executor'.started <= record'[1].t + (executor'.index - 1) * StepTime
                      /\ IF executor'.hold = 0 THEN now < executor'.started + StepTimeout
                         ELSE now <= executor'.hold /\ executor'.hold < executor'.started + StepTimeout + Hold
  <2>1. record'[Len(record')].t = now
    BY <1>3, <1>4, <1>e
  <2>2. lastSample'.at <= now /\ now' <= now + MaxAge + 1
    BY <1>3
  <2> QED
    BY <1>5, <1>6, <2>1, <2>2 DEF FixedClock
<1>7. /\ executor.index \in Nat /\ executor.index >= 1 /\ executor'.index \in Nat /\ executor'.index >= 1
      /\ executor.started \in Nat /\ executor.hold \in Nat /\ ex.started \in Nat
      /\ executor'.started \in Nat /\ executor'.hold \in Nat
  BY <1>1, <1>3 DEF ExecutorType
<1>8. place = "loop" => record # << >> /\ ~Completed(executor)
  BY <1>2 DEF FixedPlace
<1>9. place # "loop" => record = << >> /\ executor = NewExecutor
  BY <1>2 DEF FixedPlace, FixedType
<1>10. ~Completed(executor')
  BY <1>1, <1>6
<1>11. CASE record = << >>
  <2>1. executor.index = 1 /\ executor.hold = 0 /\ executor.started = 0
    BY <1>8, <1>9, <1>11 DEF NewExecutor
  <2>2. ex = executor /\ ~Holding
    BY <1>1, <2>1 DEF HoldOver, Holding
  <2>3. executor'.index = 1 /\ executor'.started = now
    BY <1>1, <1>10, <2>1, <2>2 DEF Begun
  <2>4. record'[1] = e
    BY <1>4, <1>11
  <2>5. (executor'.index - 1) * StepTime = 0
    <3>1. executor'.index - 1 = 0
      BY <2>3
    <3> QED
      BY <3>1, StepTimes
  <2> QED
    BY <1>1, <1>3, <1>e, <1>10, <2>2, <2>3, <2>4, <2>5
<1>12. CASE record # << >>
  <2>1. Len(record) >= 1 /\ record'[1] = record[1] /\ record[1] \in FixedEntry /\ place = "loop"
    <3>1. Len(record) >= 1
      BY <1>3, <1>12, EmptySeq, LenProperties
    <3> QED
      BY <1>3, <1>4, <1>9, <1>12, <3>1, ElementOfSeq
  <2>2. record[1].t \in Nat
    BY <2>1 DEF FixedEntry
  <2>3. executor.started <= record[1].t + (executor.index - 1) * StepTime
        /\ (executor.hold # 0 => executor.hold < executor.started + StepTimeout + Hold)
    BY <1>2, <2>1 DEF FixedClock
  <2>4. CASE HoldOver
    <3>1. ex.index = executor.index + 1 /\ ex.started = 0 /\ ~Holding
      BY <1>1, <2>4 DEF Advanced, NewExecutor, Holding
    <3>2. executor'.index = executor.index + 1 /\ executor'.started = now
      BY <1>1, <1>10, <3>1 DEF Begun
    <3>3. now <= record[1].t + executor.index * StepTime
      BY <2>1, ClockBounds
    <3>4. executor'.index - 1 = executor.index
      BY <1>7, <3>2
    <3> QED
      BY <1>1, <1>3, <1>10, <2>1, <3>1, <3>2, <3>3, <3>4
  <2>5. CASE Holding
    <3>1. executor' = executor
      BY <1>1, <2>5 DEF Holding
    <3> QED
      BY <1>3, <1>7, <2>1, <2>3, <2>5, <3>1 DEF Holding, HoldOver
  <2>6. CASE ~Holding /\ ~HoldOver
    <3>1. ex = executor /\ executor.started # 0
      <4>1. StepsSoFar /\ ~Completed(executor)
        BY <1>8, <2>1 DEF FixedInv
      <4>2. \E first : BeganWith(first)
        BY <1>12, <4>1 DEF StepsSoFar
      <4> QED
        BY <1>1, <2>6, <4>2 DEF BeganWith
    <3>2. executor'.index = executor.index /\ executor'.started = executor.started
      BY <1>1, <1>10, <2>6, <3>1 DEF Begun
    <3>3. /\ now - executor'.started < StepTimeout
          /\ executor'.hold = 0 \/ executor'.hold = now + Hold
      BY <1>1, <1>6, <1>8, <2>1, <2>6, <3>1
    <3> QED
      BY <1>3, <1>7, <2>1, <2>3, <3>2, <3>3
  <2> QED
    BY <2>4, <2>5, <2>6
<1> QED
  BY <1>11, <1>12

\* Before the first state, after the end and between the states only the times change.
LEMMA FixedKept ==
  ASSUME FixedInv, StreamInv', latestState'.at <= now', [FixedNext]_fixedAllVars,
         ~FixedBegins, ~FixedTakesState
  PROVE  FixedInv'
<1>0. /\ now \in Nat /\ MaxAge \in Nat /\ latestState \in Sample /\ latestState.at <= now
      /\ lastSample \in Sample /\ lastSample.at <= now /\ lastSample.at \in Nat
      /\ FixedType /\ FixedPlace /\ StepsSoFar /\ FixedClock /\ record \in Seq(FixedEntry)
  BY StreamAssumption
     DEF FixedInv, StreamInv, StreamNumbers, StreamMemory, HonestSamples, FixedClock, Sample, FixedType
<1>1. ASSUME record' = record, executor' = executor, place' \in {"idle", "tip", "loop", "ended"},
             place' # "ended" => verdict' = verdict /\ place # "ended",
             verdict' = verdict \/ verdict' # "SEQUENCE_COMPLETED",
             place' = "loop" => place = "loop",
             place' \in {"idle", "tip"} => place \in {"idle", "tip"}
      PROVE  FixedType' /\ FixedPlace' /\ StepsSoFar'
  <2>1. FixedType'
    BY <1>0, <1>1 DEF FixedType, FixedEntry, ExecutorType
  <2>2. NewExecutor' = NewExecutor
    BY DEF NewExecutor, AtZero
  <2>3. FixedPlace'
    BY <1>0, <1>1 DEF FixedPlace, Completed
  <2>4. StepsSoFar'
    BY <1>0, <1>1 DEF StepsSoFar, Carried, BeganWith, HoldsSince, Completed
  <2> QED
    BY <2>1, <2>3, <2>4
<1>2. CASE FixedStarts
  <2>1. /\ record' = record /\ executor' = executor /\ place = "idle" /\ now' = now
        /\ lastSample' = latestState /\ place' \in {"tip", "ended"}
        /\ place' # "ended" => verdict' = verdict
        /\ verdict' = verdict \/ verdict' = "STALE_MACHINE_STATE"
    <3>1. CASE latestState = NoSample
      BY <1>2, <3>1, Zenon DEF FixedStarts, FixedEnds, streamVars
    <3>2. CASE latestState # NoSample
      BY <1>2, <3>2, Zenon DEF FixedStarts, streamVars
    <3> QED
      BY <3>1, <3>2
  <2>2. FixedType' /\ FixedPlace' /\ StepsSoFar'
    BY <1>1, <2>1
  <2>3. FixedClock'
    BY <1>0, <2>1 DEF FixedClock, Sample
  <2> QED
    BY <2>2, <2>3 DEF FixedInv
<1>3. CASE FixedRefused \/ FixedStale \/ FixedCancelled
  <2>1. /\ record' = record /\ executor' = executor /\ place' = "ended" /\ now' = now
        /\ lastSample' = lastSample /\ verdict' \in {"REFUSED", "STATE_STALE", "CANCELLED"}
    BY <1>3, Zenon DEF FixedRefused, FixedStale, FixedCancelled, FixedEnds, streamVars
  <2>2. FixedType' /\ FixedPlace' /\ StepsSoFar'
    BY <1>1, <2>1
  <2>3. FixedClock'
    BY <1>0, <2>1 DEF FixedClock, Sample
  <2> QED
    BY <2>2, <2>3 DEF FixedInv
<1>4. CASE FixedTick
  <2>1. /\ FixedWaits /\ now' = now + 1 /\ record' = record /\ executor' = executor /\ place' = place
        /\ verdict' = verdict /\ lastSample' = lastSample /\ latestState' = latestState
    BY <1>4, Zenon DEF FixedTick, TimePasses, serverVars
  <2>2. FixedType' /\ FixedPlace' /\ StepsSoFar'
    <3>1. place \in {"idle", "tip", "loop", "ended"} /\ (place # "ended" => verdict = "")
      BY <1>0 DEF FixedType, FixedPlace
    <3>2. FixedType'
      BY <1>0, <2>1 DEF FixedType, FixedEntry, ExecutorType
    <3>3. FixedPlace'
      BY <1>0, <2>1 DEF FixedPlace, Completed
    <3>4. StepsSoFar'
      BY <1>0, <2>1 DEF StepsSoFar, Carried, BeganWith, HoldsSince, Completed
    <3> QED
      BY <3>2, <3>3, <3>4
  <2>3. ASSUME place = "loop" PROVE now' <= record[Len(record)].t + MaxAge + 1
    <3>1. Fresh(lastSample)
      BY <2>1, <2>3, Zenon DEF FixedWaits
    <3>2. lastSample.at <= record[Len(record)].t
      BY <1>0, <2>3 DEF FixedClock
    <3>3. record[Len(record)].t \in Nat
      <4>1. Len(record) \in Nat /\ Len(record) >= 1
        <5>1. record # << >>
          BY <1>0, <2>3 DEF FixedPlace
        <5> QED
          BY <1>0, <5>1, LenProperties, EmptySeq
      <4>2. record[Len(record)] \in FixedEntry
        BY <1>0, <4>1, ElementOfSeq
      <4> QED
        BY <4>2 DEF FixedEntry
    <3> QED
      BY <1>0, <2>1, <3>1, <3>2, <3>3 DEF Fresh
  <2>4. lastSample.at <= now'
    BY <1>0, <2>1
  <2>5. FixedClock'
    BY <1>0, <2>1, <2>3, <2>4 DEF FixedClock, Sample, StepTime
  <2> QED
    BY <2>2, <2>5 DEF FixedInv
<1>5. CASE ((OrinSends \/ OrinRestarts \/ Loses \/ StartReceiver \/ Receive) /\ UNCHANGED fixedVars) \/ UNCHANGED fixedAllVars
  <2>1. now' = now /\ UNCHANGED fixedVars
    BY <1>5, Zenon DEF OrinSends, OrinRestarts, Loses, StartReceiver, Receive, fixedAllVars, streamVars
  <2>2. /\ record' = record /\ executor' = executor /\ place' = place
        /\ verdict' = verdict /\ lastSample' = lastSample
    BY <2>1, Zenon DEF fixedVars
  <2>3. FixedType'
    BY <1>0, <2>2 DEF FixedType, FixedEntry, ExecutorType
  <2>4. FixedPlace'
    BY <1>0, <2>2 DEF FixedPlace, Completed
  <2>5. StepsSoFar'
    BY <1>0, <2>2 DEF StepsSoFar, Carried, BeganWith, HoldsSince, Completed
  <2>6. FixedClock'
    BY <1>0, <2>1, <2>2 DEF FixedClock, Sample, StepTime
  <2> QED
    BY <2>3, <2>4, <2>5, <2>6 DEF FixedInv
<1> QED
  BY <1>2, <1>3, <1>4, <1>5, Zenon DEF FixedNext, FixedStep

\* The initial state: no state yet, the executor before its first step.
LEMMA FixedStart ==
  ASSUME FixedInit
  PROVE  FixedInv
<1>1. StreamInv
  BY StreamStart, Zenon DEF FixedInit
<1>2. /\ place = "idle" /\ verdict = "" /\ executor = NewExecutor /\ record = << >>
      /\ lastSample = NoSample /\ latestState = NoSample /\ now = 4
  BY Zenon DEF FixedInit, StreamInit, Dawn
<1>3. FixedType
  <2>1. AtZero \in [Axes -> -Limit .. Limit]
    BY FixedAssumption DEF AtZero
  <2>2. Len(Steps) \in Nat
    BY FixedAssumption, LenProperties
  <2>3. NewExecutor \in ExecutorType
    BY <2>1, <2>2 DEF NewExecutor, ExecutorType
  <2> QED
    BY <1>2, <2>3, EmptySeq DEF FixedType
<1>4. FixedPlace
  BY <1>2, Zenon DEF FixedPlace
<1>5. StepsSoFar
  BY <1>2 DEF StepsSoFar
<1>6. FixedClock
  <2>1. NoSample \in Sample /\ NoSample.at = 0
    BY StreamAssumption DEF NoSample, Sample
  <2>2. latestState.at <= now /\ lastSample \in Sample /\ lastSample.at <= now
    <3>1. latestState.at = 0 /\ lastSample.at = 0 /\ lastSample \in Sample
      BY <1>2, <2>1, Zenon
    <3>2. now = 4
      BY <1>2, Zenon
    <3> QED
      BY <3>1, <3>2
  <2>3. place # "loop"
    BY <1>2
  <2> QED
    BY <2>2, <2>3, Zenon DEF FixedClock
<1> QED
  BY <1>1, <1>3, <1>4, <1>5, <1>6 DEF FixedInv

\* The inductive invariant of a fixed action holds.
THEOREM FixedInvariant == FixedSpec => []FixedInv
<1>1. FixedInit => FixedInv
  BY FixedStart
<1>2. FixedInv /\ [FixedNext]_fixedAllVars => FixedInv'
  <2> SUFFICES ASSUME FixedInv, [FixedNext]_fixedAllVars PROVE FixedInv'
    OBVIOUS
  <2>1. StreamInv /\ StreamInv' /\ latestState'.at <= now'
    <3>1. StreamInv /\ latestState.at <= now
      BY DEF FixedInv, FixedClock
    <3>2. [StreamNext]_streamVars
      BY FixedStreamSteps
    <3>3. StreamInv'
      BY <3>1, <3>2, StreamStep
    <3> QED
      BY <3>1, <3>2, <3>3, ReceivedByNow
  <2>2. latestState \in Sample /\ latestState.at <= now
    BY DEF FixedInv, FixedClock, StreamInv, StreamMemory, HonestSamples
  <2>3. CASE FixedBegins
    <3>1. /\ place = "tip" /\ now' = now /\ latestState' = latestState /\ lastSample' = lastSample
          /\ \E pose \in Poses : Drives(pose)
      BY <2>3, Zenon DEF FixedBegins, streamVars, serverVars
    <3>2. PICK pose \in Poses : Drives(pose)
      BY <3>1
    <3>3. lastSample' \in Sample /\ lastSample'.at <= now
      BY <3>1 DEF FixedInv, FixedClock
    <3>4. FixedClock'
      BY <3>1, <3>2, <3>3, DriveClock
    <3>5. FixedType' /\ FixedPlace' /\ StepsSoFar'
      BY <3>1, <3>2, DriveSteps DEF FixedInv
    <3> QED
      BY <2>1, <3>4, <3>5 DEF FixedInv
  <2>4. CASE FixedTakesState
    <3>1. /\ place = "loop" /\ now' = now /\ latestState' = latestState /\ lastSample' = latestState
          /\ \E pose \in Poses : Drives(pose)
      BY <2>4, Zenon DEF FixedTakesState, streamVars, serverVars
    <3>2. PICK pose \in Poses : Drives(pose)
      BY <3>1
    <3>4. FixedClock'
      BY <2>2, <3>1, <3>2, DriveClock
    <3>5. FixedType' /\ FixedPlace' /\ StepsSoFar'
      BY <3>1, <3>2, DriveSteps DEF FixedInv
    <3> QED
      BY <2>1, <3>4, <3>5 DEF FixedInv
  <2>5. CASE ~FixedBegins /\ ~FixedTakesState
    BY <2>1, <2>5, FixedKept
  <2> QED
    BY <2>3, <2>4, <2>5
<1> QED
  BY <1>1, <1>2, PTL DEF FixedSpec

\* SUCCEEDED of ExecuteDig and ExecuteDump means that each step of the profile was
\* carried out, in its order: FixedActionExecutor.step() and _run_fixed().
THEOREM StepsAreCarriedOut == FixedSpec => []StepsCarriedOut
<1>1. FixedInv => StepsCarriedOut
  <2> SUFFICES ASSUME FixedInv, verdict = "SEQUENCE_COMPLETED" PROVE StepsCarriedOut
    BY DEF StepsCarriedOut
  <2>1. record # << >> /\ Completed(executor) /\ record \in Seq(FixedEntry) /\ executor \in ExecutorType
    BY DEF FixedInv, FixedPlace, FixedType
  <2>2. Len(Steps) \in Nat /\ executor.index = Len(Steps) + 1 /\ executor.index - 1 = Len(Steps)
    <3>1. Len(Steps) \in Nat
      BY FixedAssumption, LenProperties
    <3> QED
      BY <2>1, <3>1 DEF Completed, ExecutorType
  <2>3. DOMAIN record = 1 .. Len(record)
    BY <2>1, LenProperties
  <2>4. PICK reached, left \in [1 .. Len(Steps) -> 1 .. Len(record)] : Carried(Len(Steps), reached, left)
    BY <2>1, <2>2 DEF FixedInv, StepsSoFar
  <2> QED
    BY <2>3, <2>4 DEF StepsCarriedOut, Carried
<1> QED
  BY <1>1, FixedInvariant, PTL

\* A fixed action is over in the time of its steps: _run_fixed() and the step timeouts
\* of FixedActionExecutor.step().
THEOREM FixedActionEndsInTime == FixedSpec => []FixedEndsInTime
<1>1. FixedInv => FixedEndsInTime
  BY ClockBounds
<1> QED
  BY <1>1, FixedInvariant, PTL

-----------------------------------------------------------------------------
(* What a fixed action is run with in production. *)

\* The stages between the two reads of the machine profile, after them, and after the
\* report was read.
BetweenReads == {"machine", "template", "report"}
ReadTwice    == {"machine_again", "armed"}
ReportRead   == {"report"} \cup ReadTwice

\* A report names only what was carried out in commissioning.
ReportIsTrue ==
  \A c \in disk.report : \E r \in fixedRuns : ~r.production /\ ContractSha(r.template) = c

\* A template that passed as validated was carried out in commissioning.
TemplateExercised(s) ==
  stage[s] \in ReportRead /\ held[s].template.status = "field_validated" => Exercised(held[s].template)

\* Unless it was edited in between, the machine profile is the one that is checked.
MachineAsRead(s) ==
  ~touched[s] =>
    /\ stage[s] \in BetweenReads => held[s].machine = disk.machine
    /\ stage[s] \in ReadTwice => held[s].machine = held[s].template.machine

EvidenceInv ==
  /\ EvidenceTypeOK /\ ReportIsTrue /\ RunsAsExercised
  /\ \A s \in Starts : TemplateExercised(s) /\ MachineAsRead(s)

\* Two templates with the same SHA are the same action.
LEMMA ShaBinds ==
  ASSUME NEW t, NEW u, ContractSha(t) = ContractSha(u)
  PROVE  SameAction(t, u)
BY DEF ContractSha, SameAction

\* A step of a start keeps the invariant if what it keeps was tested as the invariant says.
LEMMA ReadsKeep ==
  ASSUME EvidenceInv, NEW s \in Starts, NEW from \in Stages, NEW to \in Stages, NEW kept \in Kept,
         Reads(s, from, to, kept),
         to \in ReportRead /\ kept.template.status = "field_validated" => Exercised(kept.template),
         ~touched[s] =>
           /\ to \in BetweenReads => kept.machine = disk.machine
           /\ to \in ReadTwice => kept.machine = kept.template.machine
  PROVE  EvidenceInv'
<1>0. EvidenceTypeOK /\ ReportIsTrue /\ RunsAsExercised
  BY DEF EvidenceInv
<1>1. /\ stage' = [stage EXCEPT ![s] = to] /\ held' = [held EXCEPT ![s] = kept]
      /\ disk' = disk /\ touched' = touched /\ fixedRuns' = fixedRuns /\ edits' = edits
  BY DEF Reads
<1>2. EvidenceTypeOK'
  BY <1>0, <1>1 DEF EvidenceTypeOK
<1>3. ReportIsTrue' /\ RunsAsExercised'
  BY <1>0, <1>1 DEF ReportIsTrue, RunsAsExercised, Exercised
<1>4. ASSUME NEW t \in Starts
      PROVE  TemplateExercised(t)' /\ MachineAsRead(t)'
  <2>1. TemplateExercised(t) /\ MachineAsRead(t)
    BY DEF EvidenceInv
  <2>2. stage \in [Starts -> Stages] /\ held \in [Starts -> Kept]
    BY <1>0 DEF EvidenceTypeOK
  <2>3. CASE t = s
    <3>1. stage'[t] = to /\ held'[t] = kept /\ touched'[t] = touched[s]
      BY <1>1, <2>2, <2>3
    <3> QED BY <1>1, <3>1, <2>3 DEF TemplateExercised, MachineAsRead, Exercised
  <2>4. CASE t # s
    <3>1. stage'[t] = stage[t] /\ held'[t] = held[t] /\ touched'[t] = touched[t]
      BY <1>1, <2>2, <2>4
    <3> QED BY <1>1, <2>1, <3>1 DEF TemplateExercised, MachineAsRead, Exercised
  <2> QED BY <2>3, <2>4
<1> QED BY <1>2, <1>3, <1>4 DEF EvidenceInv

\* The start of a server and its end: __init__() of the live server.
LEMMA StartKeeps ==
  ASSUME EvidenceInv, NEW s \in Starts,
         \/ ReadsConfig(s) \/ ReadsMachineProfile(s) \/ ReadsTemplate(s) \/ ReadsReport(s)
         \/ ChecksMachineProfile(s) \/ Arms(s) \/ Ends(s)
  PROVE  EvidenceInv'
<1>0. /\ TemplateExercised(s) /\ MachineAsRead(s) /\ ReportIsTrue /\ EvidenceTypeOK
      /\ stage[s] \in Stages /\ held[s] \in Kept /\ disk.machine \in Profiles
      /\ disk.pin \in Template /\ disk.template \in Template
  BY DEF Files, EvidenceInv, EvidenceTypeOK
<1>1. CASE ReadsConfig(s)
  <2>1. [held[s] EXCEPT !.pin = disk.pin] \in Kept
    BY <1>0 DEF Kept
  <2> QED
    BY <1>1, <2>1, ReadsKeep DEF ReadsConfig, Stages, ReportRead, BetweenReads, ReadTwice
<1>2. CASE ReadsMachineProfile(s)
  <2>1. LET kept == [held[s] EXCEPT !.machine = disk.machine] IN kept \in Kept /\ kept.machine = disk.machine
    BY <1>0 DEF Kept
  <2> QED
    BY <1>2, <2>1, ReadsKeep DEF ReadsMachineProfile, Stages, ReportRead, BetweenReads, ReadTwice
<1>3. CASE ReadsTemplate(s)
  <2>1. LET kept == [held[s] EXCEPT !.template = disk.template]
        IN  kept \in Kept /\ kept.machine = held[s].machine
    BY <1>0 DEF Kept
  <2>2. stage[s] = "machine"
    BY <1>3 DEF ReadsTemplate, Reads
  <2>3. ~touched[s] => held[s].machine = disk.machine
    BY <1>0, <2>2 DEF MachineAsRead, BetweenReads
  <2> QED
    BY <1>3, <2>1, <2>3, ReadsKeep DEF ReadsTemplate, Stages, ReportRead, BetweenReads, ReadTwice
<1>4. CASE ReadsReport(s)
  <2>1. stage[s] = "template"
    BY <1>4 DEF ReadsReport, Reads
  <2>2. ~touched[s] => held[s].machine = disk.machine
    BY <1>0, <2>1 DEF MachineAsRead, BetweenReads
  <2>3. ASSUME held[s].template.status = "field_validated"
        PROVE  Exercised(held[s].template)
    <3>1. ContractSha(held[s].template) \in disk.report
      BY <1>4, <2>3 DEF ReadsReport, ReportBinds
    <3>2. PICK r \in fixedRuns : ~r.production /\ ContractSha(r.template) = ContractSha(held[s].template)
      BY <1>0, <3>1 DEF ReportIsTrue
    <3> QED BY <3>2, ShaBinds DEF Exercised
  <2> QED
    BY <1>0, <1>4, <2>2, <2>3, ReadsKeep DEF ReadsReport, Stages, BetweenReads, ReadTwice
<1>5. CASE ChecksMachineProfile(s)
  <2>1. stage[s] = "report" /\ disk.machine = held[s].template.machine
    BY <1>5 DEF ChecksMachineProfile, Reads
  <2>2. /\ ~touched[s] => held[s].machine = held[s].template.machine
        /\ held[s].template.status = "field_validated" => Exercised(held[s].template)
    BY <1>0, <2>1 DEF MachineAsRead, BetweenReads, TemplateExercised, ReportRead
  <2> QED
    BY <1>0, <1>5, <2>2, ReadsKeep DEF ChecksMachineProfile, Stages, BetweenReads
<1>6. CASE Arms(s)
  <2>1. stage[s] = "machine_again"
    BY <1>6 DEF Arms, Reads
  <2>2. /\ ~touched[s] => held[s].machine = held[s].template.machine
        /\ held[s].template.status = "field_validated" => Exercised(held[s].template)
    BY <1>0, <2>1 DEF MachineAsRead, TemplateExercised, ReportRead, ReadTwice
  <2> QED
    BY <1>0, <1>6, <2>2, ReadsKeep DEF Arms, Stages, BetweenReads
<1>7. CASE Ends(s)
  BY <1>0, <1>7, ReadsKeep DEF Ends, Stages, ReportRead, BetweenReads, ReadTwice
<1> QED BY <1>1, <1>2, <1>3, <1>4, <1>5, <1>6, <1>7

\* A fixed action on an armed server: _run_fixed().
LEMMA CarriesOutKeeps ==
  ASSUME EvidenceInv, NEW s \in Starts, NEW posture \in Postures, CarriesOut(s, posture)
  PROVE  EvidenceInv'
<1> DEFINE run == [production |-> s \in Production, template |-> held[s].template,
                   machine |-> held[s].machine, touched |-> touched[s], posture |-> posture]
<1>0. /\ EvidenceTypeOK /\ ReportIsTrue /\ RunsAsExercised /\ TemplateExercised(s) /\ MachineAsRead(s)
      /\ stage[s] = "armed" /\ held[s] \in Kept /\ touched[s] \in BOOLEAN
  BY DEF EvidenceInv, EvidenceTypeOK, CarriesOut
<1>1. /\ fixedRuns' = fixedRuns \cup {run}
      /\ disk' = disk /\ stage' = stage /\ held' = held /\ touched' = touched /\ edits' = edits
  BY DEF CarriesOut
<1>2. run \in FixedRun
  BY <1>0 DEF FixedRun, Kept
<1>3. EvidenceTypeOK'
  BY <1>0, <1>1, <1>2 DEF EvidenceTypeOK
<1>4. \A template : Exercised(template) => Exercised(template)'
  BY <1>1 DEF Exercised
<1>5. s \in Production =>
        /\ held[s].template.status = "field_validated"
        /\ posture \in held[s].template.envelope
  BY DEF CarriesOut, StartAllowed
<1>6. /\ held[s].template.status = "field_validated" => Exercised(held[s].template)
      /\ touched[s] \/ held[s].machine = held[s].template.machine
  BY <1>0 DEF TemplateExercised, MachineAsRead, ReportRead, ReadTwice
<1>7. /\ run.production <=> s \in Production
      /\ run.template = held[s].template /\ run.machine = held[s].machine
      /\ run.touched = touched[s] /\ run.posture = posture
  OBVIOUS
<1> HIDE DEF run
<1>8. RunsAsExercised'
  <2> SUFFICES ASSUME NEW r \in fixedRuns', r.production
               PROVE  /\ Exercised(r.template)'
                      /\ r.posture \in r.template.envelope
                      /\ r.touched \/ r.machine = r.template.machine
    BY DEF RunsAsExercised
  <2>1. CASE r = run
    BY <1>4, <1>5, <1>6, <1>7, <2>1
  <2>2. CASE r \in fixedRuns
    BY <1>0, <1>4, <2>2 DEF RunsAsExercised
  <2> QED BY <1>1, <2>1, <2>2
<1>9. ReportIsTrue'
  BY <1>0, <1>1 DEF ReportIsTrue
<1>10. \A t \in Starts : TemplateExercised(t)' /\ MachineAsRead(t)'
  BY <1>1, <1>4 DEF EvidenceInv, TemplateExercised, MachineAsRead
<1> QED BY <1>3, <1>8, <1>9, <1>10 DEF EvidenceInv

\* What people do to the files.
LEMMA EditsKeep ==
  ASSUME EvidenceInv, NEW files, Edits(files),
         files \in Files,
         \A c \in files.report : \E r \in fixedRuns : ~r.production /\ ContractSha(r.template) = c
  PROVE  EvidenceInv'
<1>0. EvidenceTypeOK /\ ReportIsTrue /\ RunsAsExercised
  BY DEF EvidenceInv
<1>1. /\ disk' = files /\ stage' = stage /\ held' = held /\ fixedRuns' = fixedRuns
      /\ edits < MaxEdits /\ edits' = edits + 1
      /\ touched' = [s \in Starts |-> touched[s] \/
                       (stage[s] \in BetweenReads /\ files.machine # disk.machine)]
  BY DEF Edits, BetweenReads
<1>2. EvidenceTypeOK'
  <2>1. edits' \in 0 .. MaxEdits
    BY <1>0, <1>1, EvidenceAssumption DEF EvidenceTypeOK
  <2>2. touched' \in [Starts -> BOOLEAN]
    BY <1>0, <1>1, Zenon DEF EvidenceTypeOK
  <2> QED
    BY <1>0, <1>1, <2>1, <2>2 DEF EvidenceTypeOK
<1>3. ReportIsTrue' /\ RunsAsExercised'
  BY <1>0, <1>1 DEF ReportIsTrue, RunsAsExercised, Exercised
<1>4. ASSUME NEW t \in Starts
      PROVE  TemplateExercised(t)' /\ MachineAsRead(t)'
  <2>1. TemplateExercised(t) /\ MachineAsRead(t)
    BY DEF EvidenceInv
  <2>2. TemplateExercised(t)'
    BY <1>1, <2>1 DEF TemplateExercised, Exercised
  <2>3. touched'[t] <=> touched[t] \/ (stage[t] \in BetweenReads /\ files.machine # disk.machine)
    BY <1>1, Zenon
  <2>4. MachineAsRead(t)'
    BY <1>1, <2>1, <2>3 DEF MachineAsRead
  <2> QED BY <2>2, <2>4
<1> QED BY <1>2, <1>3, <1>4 DEF EvidenceInv

LEMMA PeopleKeep ==
  ASSUME EvidenceInv, Reports \/ Validates \/ EditsTemplate \/ Pins \/ ChangesMachine
  PROVE  EvidenceInv'
<1>0. /\ ReportIsTrue /\ RunsAsExercised /\ fixedRuns \subseteq FixedRun
      /\ disk \in Files
  BY DEF EvidenceInv, EvidenceTypeOK
<1>1. \A c \in disk.report : \E r \in fixedRuns : ~r.production /\ ContractSha(r.template) = c
  BY <1>0 DEF ReportIsTrue
<1>2. CASE Reports
  <2>1. PICK r \in fixedRuns, kept \in {disk.report, {}} :
          Edits([disk EXCEPT !.report = kept \cup {ContractSha(r.template)}])
    BY <1>2 DEF Reports
  <2> DEFINE files == [disk EXCEPT !.report = kept \cup {ContractSha(r.template)}]
  <2>2. r.template \in Template
    BY <1>0 DEF FixedRun
  <2>3. ContractSha(r.template) \in Contract
    BY <2>2 DEF ContractSha, Template, Contract
  <2>4. PICK e \in fixedRuns : ~e.production /\ ContractSha(e.template) = ContractSha(r.template)
    <3>1. CASE ~r.production
      BY <3>1
    <3>2. CASE r.production
      <4>1. PICK e \in fixedRuns : ~e.production /\ SameAction(e.template, r.template)
        BY <1>0, <3>2 DEF RunsAsExercised, Exercised
      <4> QED BY <4>1 DEF SameAction, ContractSha
    <3> QED BY <3>1, <3>2
  <2>5. /\ files.report = kept \cup {ContractSha(r.template)}
        /\ files \in Files
    BY <1>0, <2>3 DEF Files
  <2>6. Edits(files)
    BY <2>1
  <2> HIDE DEF files
  <2>7. \A c \in files.report : \E q \in fixedRuns : ~q.production /\ ContractSha(q.template) = c
    BY <1>1, <2>4, <2>5
  <2> QED BY <2>5, <2>6, <2>7, EditsKeep
<1>3. CASE Validates
  <2>1. PICK c \in Contracts, power \in Powers :
          Edits([disk EXCEPT !.template.status = "field_validated",
                             !.template.evidence =
                               {[contract |-> ContractSha(c), report |-> disk.report, power |-> power]}])
    BY <1>3 DEF Validates
  <2> DEFINE e == [contract |-> ContractSha(c), report |-> disk.report, power |-> power]
             files == [disk EXCEPT !.template.status = "field_validated", !.template.evidence = {e}]
  <2>2. ContractSha(c) \in Contract
    BY EvidenceAssumption DEF ContractSha, Contract
  <2>3. e \in Evidence
    BY <1>0, <2>2 DEF Files, Evidence
  <2>4. /\ files.report = disk.report
        /\ files \in Files
    <3> HIDE DEF e
    <3> QED BY <1>0, <2>3 DEF Files, Template
  <2>5. Edits(files)
    BY <2>1
  <2> HIDE DEF files
  <2> QED BY <1>1, <2>4, <2>5, EditsKeep
<1>4. CASE EditsTemplate
  <2>1. \A c \in Contracts : WithContract(c, disk.template.status, disk.template.evidence) \in Template
    BY <1>0, EvidenceAssumption DEF Files, WithContract, Template, Contract
  <2>2. CASE \E c \in Contracts :
          Edits([disk EXCEPT !.template = WithContract(c, disk.template.status, disk.template.evidence)])
    <3>1. PICK c \in Contracts :
            Edits([disk EXCEPT !.template = WithContract(c, disk.template.status, disk.template.evidence)])
      BY <2>2
    <3> DEFINE files == [disk EXCEPT !.template = WithContract(c, disk.template.status, disk.template.evidence)]
    <3>2. /\ files.report = disk.report
          /\ files \in Files
      BY <1>0, <2>1 DEF Files
    <3>3. Edits(files)
      BY <3>1
    <3> HIDE DEF files
    <3> QED BY <1>1, <3>2, <3>3, EditsKeep
  <2>3. CASE \E status \in {"candidate", "field_validated"} : Edits([disk EXCEPT !.template.status = status])
    <3>1. PICK status \in {"candidate", "field_validated"} : Edits([disk EXCEPT !.template.status = status])
      BY <2>3
    <3> DEFINE files == [disk EXCEPT !.template.status = status]
    <3>2. /\ files.report = disk.report
          /\ files \in Files
      BY <1>0 DEF Files, Template
    <3>3. Edits(files)
      BY <3>1
    <3> HIDE DEF files
    <3> QED BY <1>1, <3>2, <3>3, EditsKeep
  <2> QED BY <1>4, <2>2, <2>3 DEF EditsTemplate
<1>5. CASE Pins
  <2> DEFINE files == [disk EXCEPT !.pin = disk.template]
  <2>1. /\ files.report = disk.report
        /\ files \in Files
    BY <1>0 DEF Files
  <2>2. Edits(files)
    BY <1>5 DEF Pins
  <2> HIDE DEF files
  <2> QED BY <1>1, <2>1, <2>2, EditsKeep
<1>6. CASE ChangesMachine
  <2>1. CASE \E machine \in Profiles : Edits([disk EXCEPT !.machine = machine])
    <3>1. PICK machine \in Profiles : Edits([disk EXCEPT !.machine = machine])
      BY <2>1
    <3> DEFINE files == [disk EXCEPT !.machine = machine]
    <3>2. /\ files.report = disk.report
          /\ files \in Files
      BY <1>0 DEF Files
    <3>3. Edits(files)
      BY <3>1
    <3> HIDE DEF files
    <3> QED BY <1>1, <3>2, <3>3, EditsKeep
  <2>2. CASE \E urdf \in Urdfs : Edits([disk EXCEPT !.urdf = urdf])
    <3>1. PICK urdf \in Urdfs : Edits([disk EXCEPT !.urdf = urdf])
      BY <2>2
    <3> DEFINE files == [disk EXCEPT !.urdf = urdf]
    <3>2. /\ files.report = disk.report
          /\ files \in Files
      BY <1>0 DEF Files
    <3>3. Edits(files)
      BY <3>1
    <3> HIDE DEF files
    <3> QED BY <1>1, <3>2, <3>3, EditsKeep
  <2> QED BY <1>6, <2>1, <2>2 DEF ChangesMachine
<1> QED BY <1>2, <1>3, <1>4, <1>5, <1>6

\* The evidence holds up, whatever is edited while servers start: load_runtime_config(),
\* load_fixed_action_profile() and its _validate_evidence().
THEOREM EvidenceInvariant == EvidenceSpec => []EvidenceInv
<1>1. EvidenceInit => EvidenceInv
  <2> SUFFICES ASSUME EvidenceInit PROVE EvidenceInv
    OBVIOUS
  <2>1. PICK c \in Contracts :
          LET template == WithContract(c, "candidate", {}) IN
          /\ disk = [pin |-> template, machine |-> c.machine, urdf |-> c.urdf,
                     template |-> template, report |-> {}]
          /\ held = [s \in Starts |-> [pin |-> template, machine |-> c.machine, template |-> template]]
    BY DEF EvidenceInit
  <2>2. /\ WithContract(c, "candidate", {}) \in Template /\ c.machine \in Profiles /\ c.urdf \in Urdfs
    BY EvidenceAssumption DEF WithContract, Template, Contract
  <2>3. /\ stage = [s \in Starts |-> "off"] /\ touched = [s \in Starts |-> FALSE]
        /\ fixedRuns = {} /\ edits = 0
    BY DEF EvidenceInit
  <2>4. disk \in Files
    BY <2>1, <2>2 DEF Files
  <2>5. held \in [Starts -> Kept]
    BY <2>1, <2>2 DEF Kept
  <2>6. EvidenceTypeOK
    BY <2>3, <2>4, <2>5, EvidenceAssumption DEF EvidenceTypeOK, Stages
  <2>7. disk.report = {}
    BY <2>1
  <2> QED
    BY <2>3, <2>6, <2>7
       DEF EvidenceInv, ReportIsTrue, RunsAsExercised, TemplateExercised, MachineAsRead,
           ReportRead, BetweenReads, ReadTwice
<1>2. EvidenceInv /\ [EvidenceNext]_evidenceVars => EvidenceInv'
  <2> SUFFICES ASSUME EvidenceInv, [EvidenceNext]_evidenceVars PROVE EvidenceInv'
    OBVIOUS
  <2>1. ASSUME NEW s \in Starts, ServerStep(s) PROVE EvidenceInv'
    BY <2>1, StartKeeps, CarriesOutKeeps DEF ServerStep
  <2>2. CASE Reports \/ Validates \/ EditsTemplate \/ Pins \/ ChangesMachine
    BY <2>2, PeopleKeep
  <2>3. CASE UNCHANGED evidenceVars
    BY <2>3
       DEF evidenceVars, EvidenceInv, EvidenceTypeOK, ReportIsTrue, RunsAsExercised, Exercised,
           TemplateExercised, MachineAsRead
  <2> QED BY <2>1, <2>2, <2>3 DEF EvidenceNext
<1> QED BY <1>1, <1>2, PTL DEF EvidenceSpec

\* Production runs what was exercised in commissioning, as it was.
THEOREM ProductionRunsTheExercised == EvidenceSpec => []RunsAsExercised
<1>1. EvidenceInv => RunsAsExercised
  BY DEF EvidenceInv
<1> QED BY <1>1, EvidenceInvariant, PTL
==============================================================================
