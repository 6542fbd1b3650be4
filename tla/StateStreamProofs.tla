---------------------------- MODULE StateStreamProofs ----------------------------
(***************************************************************************)
(* Proofs about StateStream: which Machine States the live server accepts, *)
(* for any skews, tolerance, faults and bounds.                            *)
(***************************************************************************)
EXTENDS StateStream, SequenceTheorems, TLAPS

\* What a packet says of its own age, as long as the Orin's clock is not stepped.
Honest(p) == ~stepped => p.stamp = p.made + skew

\* Packets and samples that do so.
HonestPackets == {p \in Packet : p.made > 0 /\ Honest(p)}
HonestSamples == {s \in Sample : s.at # 0 => Honest(s)}

\* The numbers and clocks.
StreamNumbers ==
  /\ now \in Nat /\ now > 0 /\ skew \in Int /\ sent \in Nat /\ boots \in {0, 1}
  /\ lastSeq \in Nat /\ lastStamp \in Int /\ clockOffset \in Int

\* Only the restart steps the Orin's clock.
StepOnce == stepped \in BOOLEAN /\ (boots = 0 => stepped = FALSE)

\* The server's memory is that of the newest and of the first state.
StreamMemory ==
  /\ latestState \in HonestSamples /\ firstState \in HonestSamples
  /\ lastSeq = 0 <=> latestState.at = 0
  /\ lastSeq = 0 => latestState = NoSample /\ firstState = NoSample
  /\ lastSeq # 0 => /\ firstState.at # 0
                    /\ lastStamp = latestState.stamp
                    /\ clockOffset = firstState.stamp - firstState.at
                    /\ Distance(latestState.stamp - latestState.at, clockOffset) <= Tolerance

\* The inductive invariant of the stream.
StreamInv == StreamNumbers /\ StepOnce /\ flight \in Seq(HonestPackets) /\ StreamMemory

-----------------------------------------------------------------------------

\* Taking an element out of a sequence leaves a sequence over the same set.
LEMMA RemoveAtType ==
  ASSUME NEW S, NEW s \in Seq(S), NEW i \in DOMAIN s
  PROVE  /\ s[i] \in S
         /\ RemoveAt(s, i) \in Seq(S)
<1>1. Len(s) \in Nat /\ i \in 1 .. Len(s) /\ s[i] \in S
  BY LenProperties, ElementOfSeq
<1>2. SubSeq(s, 1, i - 1) \in Seq(S)
  BY <1>1, SubSeqProperties
<1>3. SubSeq(s, i + 1, Len(s)) \in Seq(S)
  BY <1>1, SubSeqProperties
<1>4. SubSeq(s, 1, i - 1) \o SubSeq(s, i + 1, Len(s)) \in Seq(S)
  BY <1>2, <1>3, ConcatProperties
<1> QED
  BY <1>1, <1>4 DEF RemoveAt

\* The initial state: nothing sent, nothing received.
LEMMA StreamStart ==
  ASSUME StreamInit
  PROVE  StreamInv
<1> USE StreamAssumption
<1>1. StreamNumbers
  BY DEF StreamInit, StreamNumbers, Dawn
<1>5. StepOnce
  BY Zenon DEF StreamInit, StepOnce
<1>2. flight \in Seq(HonestPackets)
  BY EmptySeq DEF StreamInit
<1>3. NoSample \in HonestSamples /\ NoSample.at = 0
  BY DEF NoSample, HonestSamples, Sample
<1>4. StreamMemory
  BY <1>3 DEF StreamInit, StreamMemory
<1> QED
  BY <1>1, <1>5, <1>2, <1>4 DEF StreamInv

\* While the Orin's clock stays as it is, so does what its packets say.
LEMMA HonestyKept ==
  ASSUME stepped' = stepped, skew' = skew
  PROVE  HonestPackets' = HonestPackets /\ HonestSamples' = HonestSamples
<1>1. ASSUME NEW p PROVE Honest(p)' <=> Honest(p)
  BY DEF Honest
<1> QED
  BY <1>1, Zenon DEF HonestPackets, HonestSamples, Packet, Sample

\* The Orin's clock is stepped: nothing is claimed of the packets any more.
LEMMA HonestyGone ==
  ASSUME stepped' = TRUE, StreamInv
  PROVE  HonestPackets \subseteq HonestPackets' /\ HonestSamples \subseteq HonestSamples'
<1> QED
  BY DEF HonestPackets, HonestSamples, Honest, Packet, Sample

\* A step that leaves the server alone and makes no packet dishonest.
LEMMA MemoryKept ==
  ASSUME StreamInv, UNCHANGED serverVars, HonestSamples \subseteq HonestSamples'
  PROVE  StreamMemory'
<1>1. latestState' \in HonestSamples' /\ firstState' \in HonestSamples'
  BY Zenon DEF StreamInv, StreamMemory, serverVars
<1>2. NoSample' = NoSample
  BY DEF NoSample
<1> QED
  BY <1>1, <1>2, Zenon DEF StreamInv, StreamMemory, serverVars, Distance

\* What Accept() makes of a packet that passes the provenance check.
LEMMA MemoryAccepts ==
  ASSUME StreamInv, NEW p \in HonestPackets, Provenance(p), Accept(p),
         now' = now, stepped' = stepped, skew' = skew
  PROVE  /\ StreamMemory'
         /\ lastSeq' \in Nat /\ lastStamp' \in Int /\ clockOffset' \in Int
<1> DEFINE s == [seq |-> p.seq, stamp |-> p.stamp, made |-> p.made, at |-> now]
<1>0. now \in Nat /\ now > 0 /\ lastSeq \in Nat /\ clockOffset \in Int /\ Tolerance \in Nat /\ MaxSends \in Nat
  BY StreamAssumption DEF StreamInv, StreamNumbers
<1>1. p.seq \in Nat /\ p.seq > 0 /\ p.seq \in 0 .. MaxSends /\ p.stamp \in Int /\ p.made \in Nat /\ Honest(p)
  BY <1>0 DEF HonestPackets, Packet
<1>2. s \in Sample /\ s.at = now /\ s.stamp = p.stamp /\ s.made = p.made
  BY <1>0, <1>1 DEF Sample
<1>3. Honest(s)
  BY <1>1, <1>2 DEF Honest
<1>4. s \in HonestSamples'
  BY <1>2, <1>3, HonestyKept DEF HonestSamples
<1>5. latestState' = s /\ lastSeq' = p.seq /\ lastStamp' = p.stamp
  BY DEF Accept
<1>6. firstState \in HonestSamples'
  BY HonestyKept DEF StreamInv, StreamMemory
<1>7. firstState' = (IF lastSeq = 0 THEN s ELSE firstState)
      /\ clockOffset' = (IF lastSeq = 0 THEN p.stamp - now ELSE clockOffset)
  BY DEF Accept
<1>8. Distance(s.stamp - s.at, clockOffset') <= Tolerance
  <2>1. CASE lastSeq = 0
    BY <1>0, <1>1, <1>2, <1>7, <2>1 DEF Distance
  <2>2. CASE lastSeq # 0
    BY <1>2, <1>7, <2>2 DEF Provenance
  <2> QED
    BY <2>1, <2>2
<1>9. firstState'.at # 0 /\ clockOffset' = firstState'.stamp - firstState'.at
  <2>1. CASE lastSeq = 0
    BY <1>0, <1>2, <1>7, <2>1
  <2>2. CASE lastSeq # 0
    BY <1>7, <2>2 DEF StreamInv, StreamMemory
  <2> QED
    BY <2>1, <2>2
<1>10. StreamMemory'
  <2>1. latestState' \in HonestSamples' /\ firstState' \in HonestSamples'
    BY <1>4, <1>5, <1>6, <1>7
  <2>2. lastSeq' # 0 /\ latestState'.at # 0
    BY <1>0, <1>1, <1>2, <1>5
  <2>3. lastStamp' = latestState'.stamp
    BY <1>2, <1>5
  <2>4. Distance(latestState.stamp - latestState.at, clockOffset)' <= Tolerance
    BY <1>5, <1>8 DEF Distance
  <2> QED
    BY <1>9, <2>1, <2>2, <2>3, <2>4 DEF StreamMemory
<1> QED
  BY <1>0, <1>1, <1>2, <1>5, <1>7, <1>10

\* Every step keeps the invariant.
LEMMA StreamStep ==
  ASSUME StreamInv, [StreamNext]_streamVars
  PROVE  StreamInv'
<1> USE DEF orinVars, serverVars
<1>0. flight \in Seq(HonestPackets) /\ StreamNumbers /\ StepOnce /\ StreamMemory
  BY DEF StreamInv
<1>1. CASE OrinSends
  <2>1. skew' = skew /\ stepped' = stepped /\ boots' = boots /\ UNCHANGED serverVars
    BY <1>1 DEF OrinSends
  <2>2. HonestPackets' = HonestPackets /\ HonestSamples' = HonestSamples
    BY <2>1, HonestyKept
  <2> DEFINE p == [seq |-> sent', stamp |-> now + skew, made |-> now]
  <2>3. flight' = Append(flight, p)
    BY <1>1 DEF OrinSends
  <2>4. sent' \in 1 .. MaxSends /\ now \in Nat /\ now > 0 /\ skew \in Int
    BY <1>0, <1>1, StreamAssumption DEF OrinSends, StreamNumbers
  <2>5. p \in HonestPackets
    BY <2>4 DEF HonestPackets, Packet, Honest
  <2>6. flight' \in Seq(HonestPackets)'
    BY <1>0, <2>2, <2>3, <2>5, AppendProperties
  <2>7. StreamNumbers'
    BY <1>0, <1>1, <2>4 DEF OrinSends, StreamNumbers
  <2>8. StepOnce'
    BY <1>0, <2>1, Zenon DEF StepOnce
  <2>9. StreamMemory'
    BY <2>1, <2>2, MemoryKept
  <2> QED
    BY <2>6, <2>7, <2>8, <2>9 DEF StreamInv
<1>2. CASE OrinRestarts
  <2>1. UNCHANGED <<now, flight, serverVars>> /\ boots = 0 /\ boots' = 1 /\ sent' = 0 /\ skew' \in Skews
    BY <1>2 DEF OrinRestarts
  <2>2. stepped = FALSE /\ stepped' = (skew' # skew)
    BY <1>0, <1>2, <2>1, Zenon DEF OrinRestarts, StepOnce
  <2>3. HonestPackets \subseteq HonestPackets' /\ HonestSamples \subseteq HonestSamples'
    <3>1. CASE skew' = skew
      <4>1. stepped' = stepped
        BY <2>2, <3>1, Zenon
      <4> QED
        BY <3>1, <4>1, HonestyKept, Zenon
    <3>2. CASE skew' # skew
      <4>1. stepped' = TRUE
        BY <2>2, <3>2, Zenon
      <4> QED
        BY <4>1, HonestyGone, Zenon
    <3> QED
      BY <3>1, <3>2, Zenon
  <2>4. flight' \in Seq(HonestPackets')
    <3>1. \A i \in 1 .. Len(flight) : flight[i] \in HonestPackets'
      BY <1>0, <2>3, ElementOfSeq, LenProperties
    <3> QED
      BY <1>0, <2>1, <3>1, SeqDef, LenProperties
  <2>5. StreamNumbers'
    BY <1>0, <2>1, StreamAssumption DEF StreamNumbers
  <2>6. StepOnce'
    BY <2>1, <2>2 DEF StepOnce
  <2>7. StreamMemory'
    BY <2>1, <2>3, MemoryKept
  <2> QED
    BY <2>4, <2>5, <2>6, <2>7 DEF StreamInv
<1>3. CASE Loses
  <2>1. skew' = skew /\ stepped' = stepped /\ boots' = boots /\ UNCHANGED <<now, sent, serverVars>>
    BY <1>3 DEF Loses
  <2>2. HonestPackets' = HonestPackets /\ HonestSamples' = HonestSamples
    BY <2>1, HonestyKept
  <2>3. flight' \in Seq(HonestPackets)'
    BY <1>0, <1>3, <2>2, HeadTailProperties DEF Loses
  <2>4. StreamNumbers'
    BY <1>0, <2>1 DEF StreamNumbers
  <2>5. StepOnce'
    BY <1>0, <2>1, Zenon DEF StepOnce
  <2>6. StreamMemory'
    BY <2>1, <2>2, MemoryKept
  <2> QED
    BY <2>3, <2>4, <2>5, <2>6 DEF StreamInv
<1>4. CASE TimePasses \/ StartReceiver \/ UNCHANGED streamVars
  <2>1. skew' = skew /\ stepped' = stepped /\ boots' = boots /\ UNCHANGED <<flight, sent, serverVars>>
    BY <1>4, Zenon DEF TimePasses, StartReceiver, streamVars
  <2>2. HonestPackets' = HonestPackets /\ HonestSamples' = HonestSamples
    BY <2>1, HonestyKept
  <2>3. now' \in {now, now + 1}
    BY <1>4 DEF TimePasses, StartReceiver, streamVars
  <2>4. StreamNumbers'
    BY <1>0, <2>1, <2>3 DEF StreamNumbers
  <2>5. StepOnce'
    BY <1>0, <2>1, Zenon DEF StepOnce
  <2>6. StreamMemory'
    BY <2>1, <2>2, MemoryKept
  <2>7. flight' \in Seq(HonestPackets)'
    BY <1>0, <2>1, <2>2
  <2> QED
    BY <2>4, <2>5, <2>6, <2>7 DEF StreamInv
<1>5. CASE Receive
  <2>1. skew' = skew /\ stepped' = stepped /\ boots' = boots /\ UNCHANGED <<now, sent>>
    BY <1>5 DEF Receive
  <2>2. HonestPackets' = HonestPackets /\ HonestSamples' = HonestSamples
    BY <2>1, HonestyKept
  <2>3. PICK i \in DOMAIN flight :
          /\ flight' = RemoveAt(flight, i)
          /\ IF Provenance(flight[i]) THEN Accept(flight[i]) ELSE UNCHANGED serverVars
    BY <1>5, Zenon DEF Receive
  <2>4. flight[i] \in HonestPackets /\ flight' \in Seq(HonestPackets)'
    BY <1>0, <2>2, <2>3, RemoveAtType
  <2>5. StepOnce'
    BY <1>0, <2>1, Zenon DEF StepOnce
  <2>6. StreamMemory' /\ lastSeq' \in Nat /\ lastStamp' \in Int /\ clockOffset' \in Int
    <3>1. CASE Provenance(flight[i]) /\ Accept(flight[i])
      BY <2>1, <2>4, <3>1, MemoryAccepts, Zenon
    <3>2. CASE UNCHANGED serverVars
      <4>1. StreamMemory'
        BY <2>2, <3>2, MemoryKept
      <4> QED
        BY <1>0, <3>2, <4>1 DEF StreamNumbers
    <3> QED
      BY <2>3, <3>1, <3>2
  <2>7. StreamNumbers'
    BY <1>0, <2>1, <2>6 DEF StreamNumbers
  <2> QED
    BY <2>4, <2>5, <2>6, <2>7 DEF StreamInv
<1> QED
  BY <1>1, <1>2, <1>3, <1>4, <1>5, Zenon DEF StreamNext

\* What the server remembers of the stream is what the stream was.
THEOREM StreamInvariant == StreamSpec => []StreamInv
<1>1. StreamInit => StreamInv
  BY StreamStart
<1>2. StreamInv /\ [StreamNext]_streamVars => StreamInv'
  BY StreamStep
<1> QED
  BY <1>1, <1>2, PTL DEF StreamSpec

-----------------------------------------------------------------------------

\* A Machine State that is accepted was made after the one accepted before, across
\* restarts of the Orin, losses, delays and reordering: evaluate_state_provenance().
THEOREM InOrderOfMaking == StreamSpec => AcceptedInOrder
<1>1. ASSUME StreamInv, [StreamNext]_streamVars, latestState' # latestState, ~stepped
      PROVE  latestState'.made > latestState.made
  <2>0. flight \in Seq(HonestPackets) /\ StreamNumbers /\ StreamMemory
    BY <1>1 DEF StreamInv
  <2>1. Receive
    BY <1>1, Zenon DEF StreamNext, streamVars, serverVars, OrinSends, OrinRestarts, Loses, TimePasses, StartReceiver
  <2>2. PICK i \in DOMAIN flight :
          IF Provenance(flight[i]) THEN Accept(flight[i]) ELSE UNCHANGED serverVars
    BY <2>1, Zenon DEF Receive
  <2>3. Provenance(flight[i]) /\ Accept(flight[i])
    BY <1>1, <2>2 DEF serverVars
  <2> DEFINE p == flight[i]
  <2>4. p \in HonestPackets
    BY <2>0, RemoveAtType
  <2>5. latestState'.made = p.made
    BY <2>3 DEF Accept
  <2>6. p.made \in Nat /\ p.made > 0 /\ p.stamp = p.made + skew /\ skew \in Int
    BY <1>1, <2>0, <2>4 DEF HonestPackets, Honest, Packet, StreamNumbers
  <2>7. CASE lastSeq = 0
    BY <2>0, <2>5, <2>6, <2>7 DEF StreamMemory, NoSample
  <2>8. CASE lastSeq # 0
    <3>1. p.stamp > lastStamp /\ lastStamp = latestState.stamp
      BY <2>0, <2>3, <2>8 DEF Provenance, StreamMemory
    <3>2. latestState \in Sample /\ latestState.stamp = latestState.made + skew
      BY <1>1, <2>0, <2>8 DEF StreamMemory, HonestSamples, Honest
    <3> QED
      BY <2>5, <2>6, <3>1, <3>2 DEF Sample
  <2> QED
    BY <2>7, <2>8
<1>2. StreamInv /\ [StreamNext]_streamVars
        => [latestState' # latestState /\ ~stepped => latestState'.made > latestState.made]_streamVars
  BY <1>1
<1> QED
  BY <1>2, StreamInvariant, PTL DEF StreamSpec, AcceptedInOrder

\* No accepted state was longer on its way than the first one by more than the
\* tolerance: the clock offset check of evaluate_state_provenance().
THEOREM BoundedTransit == StreamSpec => []TransitBounded
<1>1. StreamInv => TransitBounded
  <2> SUFFICES ASSUME StreamInv, ~stepped
               PROVE  Transit(latestState) <= Transit(firstState) + Tolerance
    BY DEF TransitBounded
  <2>0. StreamNumbers /\ StreamMemory /\ Tolerance \in Nat
    BY StreamAssumption DEF StreamInv
  <2>1. CASE lastSeq = 0
    BY <2>0, <2>1 DEF StreamMemory, NoSample, Transit
  <2>2. CASE lastSeq # 0
    <3>1. latestState.at # 0 /\ firstState.at # 0
      BY <2>0, <2>2 DEF StreamMemory
    <3>2. /\ latestState \in Sample /\ latestState.stamp = latestState.made + skew
          /\ firstState \in Sample /\ firstState.stamp = firstState.made + skew
      BY <2>0, <3>1 DEF StreamMemory, HonestSamples, Honest
    <3>3. Distance(latestState.stamp - latestState.at, firstState.stamp - firstState.at) <= Tolerance
      BY <2>0, <2>2 DEF StreamMemory
    <3>4. skew \in Int
      BY <2>0 DEF StreamNumbers
    <3> QED
      BY <2>0, <3>2, <3>3, <3>4 DEF Transit, Distance, Sample
  <2> QED
    BY <2>1, <2>2
<1> QED
  BY <1>1, StreamInvariant, PTL
==================================================================================
