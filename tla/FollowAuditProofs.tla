---------------------------- MODULE FollowAuditProofs ----------------------------
(***************************************************************************)
(* Proofs about FollowAudit: what is left of a Follow's evidence, whatever *)
(* the disk and the shutdown do, for any capacity of the queue.            *)
(***************************************************************************)
EXTENDS FollowAudit, FiniteSetTheorems, SequenceTheorems, TLAPS

\* Types, and no decision moved the machine before it was made.
AuditTypes ==
  /\ decided \in Nat /\ decided <= MaxDecisions /\ moved \subseteq 1 .. decided
  /\ pending \in Seq(Nat) /\ Len(pending) <= AuditCap
  /\ writer \in {"opens", "waits", "journal", "snapshot", "over"}
  /\ held \in Nat /\ evidence \in Seq(Nat) /\ latest \in Nat
  /\ unhealthy \in BOOLEAN
  /\ shutdown \in {"none", "disarmed", "putting", "joining", "closed"}
  /\ follow \in {"healthy", "checked"} => decided < MaxDecisions
  /\ follow = "recorded" => decided > 0

\* How many decisions the writer has taken from the queue.
Taken == Len(evidence) + IF writer = "journal" THEN 1 ELSE 0

\* The stop token has been put into the queue.
Stopped == shutdown \in {"joining", "closed"}

\* A writer that lives has written what it took, in its place.
WriterInOrder ==
  writer # "over" =>
    /\ \A i \in 1 .. Len(evidence) : evidence[i] = i
    /\ latest = IF writer = "snapshot" THEN Len(evidence) - 1 ELSE Len(evidence)
    /\ writer = "journal" => held = Len(evidence) + 1
    /\ writer = "snapshot" => held = Len(evidence)

\* The decisions it will take are in the queue, in their order, and none that moved the
\* machine comes after the stop token.
TokenAt(k) ==
  /\ pending[k] = Stopping
  /\ \A i \in 1 .. k - 1 : pending[i] = Taken + i
  /\ Taken + k - 1 <= MaxDecisions /\ moved \subseteq 1 .. Taken + k - 1

QueueInOrder ==
  writer # "over" =>
    IF Stopped THEN \E k \in 1 .. Len(pending) : TokenAt(k)
    ELSE decided = Taken + Len(pending) /\ \A i \in 1 .. Len(pending) : pending[i] = Taken + i

\* Of the first n decisions there is evidence, and little comes after them.
Behind(n) ==
  /\ moved \subseteq 1 .. n + 1 + AuditCap
  /\ ~Stopped => decided <= n + 1 + Len(pending)

Lost == \E n \in Nat : 1 .. n \subseteq ToSet(evidence) /\ Behind(n)

\* A writer that is over either met an error or has written everything.
WriterOver ==
  writer = "over" =>
    \/ unhealthy /\ Lost
    \/ /\ Stopped /\ latest = Len(evidence)
       /\ \A i \in 1 .. Len(evidence) : evidence[i] = i
       /\ moved \subseteq 1 .. Len(evidence)

\* The inductive invariant of the evidence.
AuditInv ==
  /\ AuditTypes /\ WriterInOrder /\ QueueInOrder /\ WriterOver
  /\ shutdown = "closed" => unhealthy \/ writer = "over"

-----------------------------------------------------------------------------

\* Evidence that is in its place is the set of its numbers.
LEMMA InPlace ==
  ASSUME NEW s \in Seq(Nat), \A i \in 1 .. Len(s) : s[i] = i
  PROVE  ToSet(s) = 1 .. Len(s)
<1>1. DOMAIN s = 1 .. Len(s)
  BY LenProperties
<1> QED
  BY <1>1 DEF ToSet

\* While the writer lives, the machine is little ahead of its evidence.
LEMMA InReach ==
  ASSUME AuditInv, writer # "over", NEW n \in Nat, Taken <= n + 1
  PROVE  Behind(n)
<1>0. /\ Len(pending) \in Nat /\ Len(pending) <= AuditCap /\ AuditCap \in Nat /\ Taken \in Nat
      /\ decided \in Nat /\ moved \subseteq 1 .. decided
  BY AuditAssumption, LenProperties DEF AuditInv, AuditTypes, Taken
<1>1. CASE Stopped
  <2>1. PICK k \in 1 .. Len(pending) : moved \subseteq 1 .. Taken + k - 1
    BY <1>1, Zenon DEF AuditInv, QueueInOrder, TokenAt
  <2>2. Taken + k - 1 <= n + 1 + AuditCap
    BY <1>0, <2>1
  <2> QED
    BY <1>0, <1>1, <2>1, <2>2 DEF Behind
<1>2. CASE ~Stopped
  <2>1. decided = Taken + Len(pending)
    BY <1>2, Zenon DEF AuditInv, QueueInOrder
  <2> QED
    BY <1>0, <1>2, <2>1 DEF Behind
<1> QED
  BY <1>1, <1>2

\* What every number is.
LEMMA AuditNumbers ==
  ASSUME AuditInv
  PROVE  /\ Len(pending) \in Nat /\ Len(pending) <= AuditCap /\ AuditCap \in Nat /\ AuditCap > 0
         /\ Len(evidence) \in Nat /\ Taken \in Nat /\ decided \in Nat /\ MaxDecisions \in Nat
         /\ Stopping \in Nat /\ Stopping > MaxDecisions
<1> QED
  BY AuditAssumption, LenProperties DEF AuditInv, AuditTypes, Taken, Stopping

\* The initial state: no decision, no evidence.
LEMMA AuditStart ==
  ASSUME AuditInit
  PROVE  AuditInv
<1>1. /\ decided = 0 /\ moved = {} /\ pending = << >> /\ writer = "opens" /\ held = 0 /\ evidence = << >>
      /\ latest = 0 /\ unhealthy = FALSE /\ shutdown = "none" /\ follow = "ready"
  BY Zenon DEF AuditInit
<1>2. << >> \in Seq(Nat) /\ Len(<< >>) = 0
  BY EmptySeq
<1>3. AuditTypes
  <2>1. 0 <= AuditCap /\ 0 <= MaxDecisions
    BY AuditAssumption
  <2> QED
    BY <1>1, <1>2, <2>1 DEF AuditTypes
<1>4. WriterInOrder /\ QueueInOrder
  BY <1>1, <1>2 DEF WriterInOrder, QueueInOrder, Taken, Stopped
<1> QED
  BY <1>1, <1>3, <1>4 DEF AuditInv, WriterOver

\* A step that leaves the queue and the evidence alone.
LEMMA AuditAside ==
  ASSUME AuditInv, UNCHANGED <<decided, moved, held, evidence, latest, pending>>,
         writer' = writer \/ (writer = "opens" /\ writer' = "waits"),
         unhealthy' = unhealthy \/ unhealthy' = TRUE,
         Stopped' = Stopped, shutdown' \in {"none", "disarmed", "putting", "joining", "closed"},
         shutdown' = "closed" => shutdown = "closed" \/ unhealthy' \/ writer' = "over",
         follow' \in {"healthy", "checked"} => decided < MaxDecisions,
         follow' = "recorded" => decided > 0
  PROVE  AuditInv'
<1>1. AuditTypes'
  BY DEF AuditInv, AuditTypes
<1>2. Taken' = Taken /\ Stopping' = Stopping
  BY DEF Taken, Stopping
<1>3. WriterInOrder'
  BY DEF AuditInv, WriterInOrder
<1>4. QueueInOrder'
  BY <1>2 DEF AuditInv, QueueInOrder, TokenAt
<1>5. WriterOver'
  <2>1. CASE writer = "over" /\ unhealthy /\ Lost
    <3>1. unhealthy' /\ Lost'
      BY <2>1 DEF Lost, Behind
    <3> QED
      BY <3>1, Zenon DEF WriterOver
  <2>2. CASE writer = "over" /\ ~(unhealthy /\ Lost)
    BY <2>2 DEF AuditInv, WriterOver
  <2>3. CASE writer # "over"
    BY <2>3, Zenon DEF WriterOver
  <2> QED
    BY <2>1, <2>2, <2>3
<1>6. shutdown' = "closed" => unhealthy' \/ writer' = "over"
  BY DEF AuditInv, AuditTypes
<1> QED
  BY <1>1, <1>3, <1>4, <1>5, <1>6 DEF AuditInv

\* A decision is queued.
LEMMA AuditSubmits ==
  ASSUME AuditInv, Submits
  PROVE  AuditInv'
<1>0. /\ pending' = Append(pending, decided + 1) /\ decided' = decided + 1 /\ follow' = "recorded"
      /\ follow = "checked" /\ Len(pending) < AuditCap
      /\ UNCHANGED <<moved, writer, held, evidence, latest, unhealthy, shutdown>>
  BY Zenon DEF Submits, diskVars
<1>1. /\ Len(pending) \in Nat /\ decided \in Nat /\ AuditCap \in Nat /\ Taken \in Nat /\ MaxDecisions \in Nat
      /\ pending \in Seq(Nat) /\ decided < MaxDecisions /\ moved \subseteq 1 .. decided
  BY <1>0, AuditNumbers DEF AuditInv, AuditTypes
<1>2. /\ pending' \in Seq(Nat) /\ Len(pending') = Len(pending) + 1
      /\ \A i \in 1 .. Len(pending) : pending'[i] = pending[i]
      /\ pending'[Len(pending) + 1] = decided + 1
  BY <1>0, <1>1, AppendProperties
<1>3. Taken' = Taken /\ Stopping' = Stopping /\ Stopped' = Stopped
  BY <1>0 DEF Taken, Stopping, Stopped
<1>4. AuditTypes'
  BY <1>0, <1>1, <1>2 DEF AuditInv, AuditTypes
<1>5. WriterInOrder'
  BY <1>0 DEF AuditInv, WriterInOrder
<1>6. ASSUME writer # "over" PROVE QueueInOrder'
  <2>1. CASE Stopped
    <3>1. PICK k \in 1 .. Len(pending) : TokenAt(k)
      BY <1>6, <2>1, Zenon DEF AuditInv, QueueInOrder
    <3>2. k \in 1 .. Len(pending') /\ TokenAt(k)'
      BY <1>0, <1>1, <1>2, <1>3, <3>1 DEF TokenAt
    <3> QED
      BY <1>3, <2>1, <3>2, Zenon DEF QueueInOrder
  <2>2. CASE ~Stopped
    <3>1. decided = Taken + Len(pending) /\ \A i \in 1 .. Len(pending) : pending[i] = Taken + i
      BY <1>6, <2>2, Zenon DEF AuditInv, QueueInOrder
    <3>2. decided' = Taken + Len(pending') /\ \A i \in 1 .. Len(pending') : pending'[i] = Taken + i
      BY <1>0, <1>1, <1>2, <3>1
    <3> QED
      BY <1>3, <2>2, <3>2, Zenon DEF QueueInOrder
  <2> QED
    BY <2>1, <2>2
<1>7. WriterOver'
  <2>1. ASSUME writer = "over", unhealthy, Lost PROVE unhealthy' /\ Lost'
    <3>1. PICK n \in Nat : 1 .. n \subseteq ToSet(evidence) /\ Behind(n)
      BY <2>1 DEF Lost
    <3>2. Behind(n)'
      BY <1>0, <1>1, <1>2, <1>3, <3>1 DEF Behind
    <3> QED
      BY <1>0, <2>1, <3>1, <3>2 DEF Lost
  <2>2. CASE writer = "over" /\ ~(unhealthy /\ Lost)
    BY <1>0, <1>3, <2>2 DEF AuditInv, WriterOver
  <2> QED
    BY <1>0, <2>1, <2>2, Zenon DEF WriterOver
<1>8. writer = "over" => QueueInOrder'
  BY <1>0, Zenon DEF QueueInOrder
<1> QED
  BY <1>0, <1>4, <1>5, <1>6, <1>7, <1>8 DEF AuditInv

\* The stop token is put.
LEMMA AuditPuts ==
  ASSUME AuditInv, PutsStop
  PROVE  AuditInv'
<1>0. /\ pending' = Append(pending, Stopping) /\ shutdown = "putting" /\ shutdown' = "joining"
      /\ Len(pending) < AuditCap
      /\ UNCHANGED <<follow, decided, moved, writer, held, evidence, latest, unhealthy>>
  BY Zenon DEF PutsStop, callbackVars, diskVars
<1>1. /\ Len(pending) \in Nat /\ decided \in Nat /\ AuditCap \in Nat /\ Taken \in Nat /\ MaxDecisions \in Nat
      /\ pending \in Seq(Nat) /\ decided <= MaxDecisions /\ moved \subseteq 1 .. decided /\ Stopping \in Nat
  BY <1>0, AuditNumbers DEF AuditInv, AuditTypes
<1>2. /\ pending' \in Seq(Nat) /\ Len(pending') = Len(pending) + 1
      /\ \A i \in 1 .. Len(pending) : pending'[i] = pending[i]
      /\ pending'[Len(pending) + 1] = Stopping
  BY <1>0, <1>1, AppendProperties
<1>3. Taken' = Taken /\ Stopping' = Stopping /\ Stopped' /\ ~Stopped
  BY <1>0 DEF Taken, Stopping, Stopped
<1>4. AuditTypes'
  BY <1>0, <1>1, <1>2 DEF AuditInv, AuditTypes
<1>5. WriterInOrder'
  BY <1>0 DEF AuditInv, WriterInOrder
<1>6. ASSUME writer # "over" PROVE QueueInOrder'
  <2>1. decided = Taken + Len(pending) /\ \A i \in 1 .. Len(pending) : pending[i] = Taken + i
    BY <1>3, <1>6, Zenon DEF AuditInv, QueueInOrder
  <2>2. PICK k \in 1 .. Len(pending') : k = Len(pending) + 1
    BY <1>1, <1>2
  <2>3. pending'[k] = Stopping' /\ \A i \in 1 .. k - 1 : pending'[i] = Taken' + i
    BY <1>1, <1>2, <1>3, <2>1, <2>2
  <2>4. Taken' + k - 1 = decided
    BY <1>1, <1>3, <2>1, <2>2
  <2>5. Taken' + k - 1 <= MaxDecisions /\ moved' \subseteq 1 .. Taken' + k - 1
    BY <1>0, <1>1, <2>4
  <2> QED
    BY <1>3, <2>2, <2>3, <2>5, Zenon DEF QueueInOrder, TokenAt
<1>7. WriterOver'
  <2>1. ASSUME writer = "over" PROVE unhealthy' /\ Lost'
    <3>1. unhealthy /\ Lost
      BY <1>3, <2>1, Zenon DEF AuditInv, WriterOver
    <3> QED
      BY <1>0, <1>3, <3>1 DEF Lost, Behind
  <2> QED
    BY <1>0, <2>1, Zenon DEF WriterOver
<1>8. writer = "over" => QueueInOrder'
  BY <1>0, Zenon DEF QueueInOrder
<1> QED
  BY <1>0, <1>4, <1>5, <1>6, <1>7, <1>8 DEF AuditInv

\* A motion command goes out, before destroy_node() disarms the sink.
LEMMA AuditMoves ==
  ASSUME AuditInv, Moves
  PROVE  AuditInv'
<1>0. /\ follow' = "ready" /\ follow = "recorded"
      /\ UNCHANGED <<decided, writer, held, evidence, latest, pending, unhealthy, shutdown>>
  BY Zenon DEF Moves, diskVars
<1>1. CASE UNCHANGED moved
  BY <1>0, <1>1, AuditAside DEF Stopped, AuditInv, AuditTypes
<1>2. CASE shutdown = "none" /\ moved' = moved \cup {decided}
  <2>1. /\ Len(pending) \in Nat /\ Len(pending) <= AuditCap /\ decided \in Nat /\ AuditCap \in Nat
        /\ decided > 0 /\ moved \subseteq 1 .. decided
    BY <1>0, AuditNumbers DEF AuditInv, AuditTypes
  <2>2. moved' \subseteq 1 .. decided
    BY <1>2, <2>1
  <2>3. Taken' = Taken /\ Stopped' = Stopped /\ ~Stopped
    BY <1>0, <1>2 DEF Taken, Stopped
  <2>4. AuditTypes'
    BY <1>0, <2>2 DEF AuditInv, AuditTypes
  <2>5. WriterInOrder'
    BY <1>0 DEF AuditInv, WriterInOrder
  <2>6. QueueInOrder'
    BY <1>0, <2>3 DEF AuditInv, QueueInOrder
  <2>7. ASSUME writer = "over" PROVE unhealthy' /\ Lost'
    <3>1. unhealthy /\ Lost
      BY <2>3, <2>7, Zenon DEF AuditInv, WriterOver
    <3>2. PICK n \in Nat : 1 .. n \subseteq ToSet(evidence) /\ Behind(n)
      BY <3>1 DEF Lost
    <3>3. decided <= n + 1 + Len(pending)
      BY <2>3, <3>2 DEF Behind
    <3>4. moved' \subseteq 1 .. n + 1 + AuditCap
      BY <2>1, <2>2, <3>3
    <3>5. Behind(n)'
      BY <1>0, <2>3, <3>3, <3>4 DEF Behind
    <3> QED
      BY <1>0, <3>1, <3>2, <3>5 DEF Lost
  <2>8. WriterOver'
    BY <1>0, <2>7, Zenon DEF WriterOver
  <2> QED
    BY <1>0, <2>4, <2>5, <2>6, <2>8 DEF AuditInv
<1> QED
  BY <1>1, <1>2, Zenon DEF Moves

\* The writer takes a decision, or the stop token, with which it comes to its end.
LEMMA AuditTakes ==
  ASSUME AuditInv, WriterTakes
  PROVE  AuditInv'
<1>0. /\ writer = "waits" /\ pending # << >> /\ pending' = Tail(pending)
      /\ IF Head(pending) = Stopping
           THEN writer' = "over" /\ CleansUp(unhealthy) /\ UNCHANGED held
           ELSE writer' = "journal" /\ held' = Head(pending) /\ UNCHANGED <<evidence, unhealthy>>
      /\ UNCHANGED <<follow, decided, moved, latest, shutdown>>
  BY Zenon DEF WriterTakes, callbackVars
<1>1. /\ Len(pending) \in Nat /\ decided \in Nat /\ AuditCap \in Nat /\ Taken \in Nat /\ MaxDecisions \in Nat
      /\ pending \in Seq(Nat) /\ evidence \in Seq(Nat) /\ Len(evidence) \in Nat
      /\ decided <= MaxDecisions /\ moved \subseteq 1 .. decided /\ Len(pending) <= AuditCap
      /\ Stopping \in Nat /\ Stopping > MaxDecisions
  BY <1>0, AuditNumbers DEF AuditInv, AuditTypes
<1>2. /\ Len(pending) >= 1 /\ Head(pending) = pending[1] /\ Head(pending) \in Nat
      /\ pending' \in Seq(Nat) /\ Len(pending') = Len(pending) - 1
      /\ \A i \in 1 .. Len(pending') : pending'[i] = pending[i + 1]
  BY <1>0, <1>1, EmptySeq, HeadTailProperties
<1>3. /\ Taken = Len(evidence) /\ latest = Len(evidence) /\ Stopped' = Stopped /\ Stopping' = Stopping
      /\ \A i \in 1 .. Len(evidence) : evidence[i] = i
  BY <1>0, <1>1 DEF Taken, Stopped, Stopping, AuditInv, WriterInOrder
<1>4. CASE Head(pending) # Stopping
  <2>1. /\ writer' = "journal" /\ held' = Head(pending) /\ UNCHANGED <<evidence, unhealthy>>
    BY <1>0, <1>4, Zenon
  <2>2. Taken' = Taken + 1
    BY <1>3, <1>1, <2>1 DEF Taken
  <2>3. ASSUME Stopped PROVE QueueInOrder' /\ pending[1] = Taken + 1
    <3>1. PICK k \in 1 .. Len(pending) : TokenAt(k)
      BY <1>0, <2>3, Zenon DEF AuditInv, QueueInOrder
    <3>2. k > 1 /\ pending[1] = Taken + 1
      BY <1>1, <1>2, <1>4, <3>1 DEF TokenAt
    <3>3. PICK j \in 1 .. Len(pending') : j = k - 1
      BY <1>1, <1>2, <3>1, <3>2
    <3>4. pending'[j] = Stopping' /\ \A i \in 1 .. j - 1 : pending'[i] = Taken' + i
      <4>1. pending[k] = Stopping /\ \A i \in 1 .. k - 1 : pending[i] = Taken + i
        BY <3>1, Zenon DEF TokenAt
      <4>2. pending'[j] = pending[k]
        BY <1>2, <3>3
      <4>3. ASSUME NEW i \in 1 .. j - 1 PROVE pending'[i] = Taken' + i
        <5>1. i \in 1 .. Len(pending') /\ i + 1 \in 1 .. k - 1
          BY <1>1, <1>2, <3>1, <3>3
        <5>2. pending'[i] = pending[i + 1] /\ pending[i + 1] = Taken + (i + 1)
          BY <1>2, <4>1, <5>1
        <5> QED
          BY <1>1, <2>2, <5>1, <5>2
      <4> QED
        BY <1>3, <4>1, <4>2, <4>3, Zenon
    <3>5. Taken' + j - 1 = Taken + k - 1
      BY <1>1, <2>2, <3>3
    <3>6. Taken' + j - 1 <= MaxDecisions /\ moved' \subseteq 1 .. Taken' + j - 1
      BY <1>0, <3>1, <3>5 DEF TokenAt
    <3>7. QueueInOrder'
      BY <1>3, <2>3, <3>3, <3>4, <3>6, Zenon DEF QueueInOrder, TokenAt
    <3> QED
      BY <3>2, <3>7
  <2>4. ASSUME ~Stopped PROVE QueueInOrder' /\ pending[1] = Taken + 1
    <3>1. decided = Taken + Len(pending) /\ \A i \in 1 .. Len(pending) : pending[i] = Taken + i
      BY <1>0, <2>4, Zenon DEF AuditInv, QueueInOrder
    <3>2. decided' = Taken' + Len(pending') /\ pending[1] = Taken + 1
      BY <1>0, <1>1, <1>2, <2>2, <3>1
    <3>4. ASSUME NEW i \in 1 .. Len(pending') PROVE pending'[i] = Taken' + i
      <4>1. i + 1 \in 1 .. Len(pending) /\ i \in Nat
        BY <1>1, <1>2
      <4>2. pending'[i] = pending[i + 1] /\ pending[i + 1] = Taken + (i + 1)
        BY <1>2, <3>1, <4>1
      <4> QED
        BY <1>1, <2>2, <4>1, <4>2
    <3>3. QueueInOrder'
      BY <1>3, <2>4, <3>2, <3>4, Zenon DEF QueueInOrder
    <3> QED
      BY <3>2, <3>3
  <2>5. QueueInOrder' /\ held' = Len(evidence) + 1
    BY <1>2, <1>3, <2>1, <2>3, <2>4
  <2>6. WriterInOrder'
    BY <1>0, <1>3, <2>1, <2>5 DEF WriterInOrder
  <2>7. AuditTypes'
    BY <1>0, <1>1, <1>2, <2>1 DEF AuditInv, AuditTypes
  <2> QED
    BY <1>0, <2>1, <2>5, <2>6, <2>7 DEF AuditInv, WriterOver
<1>5. CASE Head(pending) = Stopping
  <2>1. writer' = "over" /\ CleansUp(unhealthy) /\ held' = held
    BY <1>0, <1>5, Zenon
  <2>2. evidence' = evidence /\ unhealthy' \in BOOLEAN
    <3>1. evidence' = evidence \/ (latest = 0 /\ evidence' = << >>)
      BY <1>0, <2>1 DEF CleansUp
    <3>2. latest = 0 => evidence = << >>
      BY <1>1, <1>3, EmptySeq
    <3>3. unhealthy' \in BOOLEAN
      BY <2>1 DEF CleansUp, AuditInv, AuditTypes
    <3> QED
      BY <3>1, <3>2, <3>3
  <2>3. Stopped /\ moved \subseteq 1 .. Len(evidence)
    <3>1. CASE ~Stopped
      <4>1. decided = Taken + Len(pending) /\ pending[1] = Taken + 1
        BY <1>0, <1>2, <3>1 DEF AuditInv, QueueInOrder
      <4> QED
        BY <1>1, <1>2, <1>5, <4>1
    <3>2. CASE Stopped
      <4>1. PICK k \in 1 .. Len(pending) : TokenAt(k)
        BY <1>0, <3>2, Zenon DEF AuditInv, QueueInOrder
      <4>2. k = 1
        <5>1. k > 1 => pending[1] = Taken + 1 /\ Taken + 1 <= MaxDecisions
          BY <1>1, <4>1 DEF TokenAt
        <5> QED
          BY <1>1, <1>2, <1>5, <4>1, <5>1
      <4> QED
        BY <1>1, <1>3, <3>2, <4>1, <4>2 DEF TokenAt
    <3> QED
      BY <3>1, <3>2
  <2>4. WriterOver'
    BY <1>0, <1>3, <2>2, <2>3 DEF WriterOver
  <2>5. AuditTypes'
    BY <1>0, <1>1, <1>2, <2>1, <2>2 DEF AuditInv, AuditTypes
  <2> QED
    BY <2>1, <2>4, <2>5 DEF AuditInv, WriterInOrder, QueueInOrder
<1> QED
  BY <1>4, <1>5

\* A decision is on a line of the journal, then in the snapshot.
LEMMA AuditWrites ==
  ASSUME AuditInv, JournalWritten \/ SnapshotReplaced
  PROVE  AuditInv'
<1>1. /\ Len(pending) \in Nat /\ pending \in Seq(Nat) /\ evidence \in Seq(Nat) /\ Len(evidence) \in Nat
      /\ held \in Nat /\ Taken \in Nat
  BY AuditNumbers DEF AuditInv, AuditTypes
<1>2. CASE JournalWritten
  <2>0. /\ writer = "journal" /\ writer' = "snapshot" /\ evidence' = Append(evidence, held)
        /\ UNCHANGED <<follow, decided, moved, held, latest, pending, unhealthy, shutdown>>
    BY <1>2, Zenon DEF JournalWritten, callbackVars
  <2>1. /\ evidence' \in Seq(Nat) /\ Len(evidence') = Len(evidence) + 1
        /\ \A i \in 1 .. Len(evidence) : evidence'[i] = evidence[i]
        /\ evidence'[Len(evidence) + 1] = held
    BY <1>1, <2>0, AppendProperties
  <2>2. Taken' = Taken /\ Stopped' = Stopped /\ Stopping' = Stopping
    BY <1>1, <2>0, <2>1 DEF Taken, Stopped, Stopping
  <2>3. /\ held = Len(evidence) + 1 /\ latest = Len(evidence)
        /\ \A i \in 1 .. Len(evidence) : evidence[i] = i
    BY <2>0 DEF AuditInv, WriterInOrder
  <2>4. WriterInOrder'
    BY <1>1, <2>0, <2>1, <2>3 DEF WriterInOrder
  <2>5. QueueInOrder'
    BY <2>0, <2>2 DEF AuditInv, QueueInOrder, TokenAt
  <2>6. AuditTypes'
    BY <2>0, <2>1 DEF AuditInv, AuditTypes
  <2> QED
    BY <2>0, <2>4, <2>5, <2>6 DEF AuditInv, WriterOver
<1>3. CASE SnapshotReplaced
  <2>0. /\ writer = "snapshot" /\ writer' = "waits" /\ latest' = held
        /\ UNCHANGED <<follow, decided, moved, held, evidence, pending, unhealthy, shutdown>>
    BY <1>3, Zenon DEF SnapshotReplaced, callbackVars
  <2>1. Taken' = Taken /\ Stopped' = Stopped /\ Stopping' = Stopping
    BY <2>0 DEF Taken, Stopped, Stopping
  <2>2. WriterInOrder'
    BY <2>0 DEF AuditInv, WriterInOrder
  <2>3. QueueInOrder'
    BY <2>0, <2>1 DEF AuditInv, QueueInOrder, TokenAt
  <2>4. AuditTypes'
    BY <1>1, <2>0 DEF AuditInv, AuditTypes
  <2> QED
    BY <2>0, <2>2, <2>3, <2>4 DEF AuditInv, WriterOver
<1> QED
  BY <1>2, <1>3

\* The writer meets an error: it loses one decision and the queue.
LEMMA AuditFails ==
  ASSUME AuditInv, WriterFails
  PROVE  AuditInv'
<1>0. /\ writer \in {"opens", "journal", "snapshot"} /\ writer' = "over" /\ CleansUp(TRUE)
      /\ UNCHANGED <<follow, decided, moved, held, latest, pending, shutdown>>
  BY Zenon DEF WriterFails, callbackVars
<1>1. /\ evidence \in Seq(Nat) /\ Len(evidence) \in Nat
      /\ Taken = Len(evidence) + IF writer = "journal" THEN 1 ELSE 0
      /\ latest = IF writer = "snapshot" THEN Len(evidence) - 1 ELSE Len(evidence)
      /\ \A i \in 1 .. Len(evidence) : evidence[i] = i
  BY <1>0, AuditNumbers DEF Taken, AuditInv, AuditTypes, WriterInOrder
<1>2. /\ unhealthy' = TRUE
      /\ \/ evidence' = evidence \/ evidence' = Append(evidence, 0)
         \/ latest = 0 /\ evidence' = << >>
  BY <1>0 DEF CleansUp
<1>3. Append(evidence, 0) \in Seq(Nat) /\ ToSet(evidence) \subseteq ToSet(Append(evidence, 0))
  <2>1. /\ Append(evidence, 0) \in Seq(Nat) /\ Len(Append(evidence, 0)) = Len(evidence) + 1
        /\ \A i \in 1 .. Len(evidence) : Append(evidence, 0)[i] = evidence[i]
    BY <1>1, AppendProperties
  <2>2. DOMAIN evidence = 1 .. Len(evidence) /\ DOMAIN Append(evidence, 0) = 1 .. Len(evidence) + 1
    BY <1>1, <2>1, LenProperties
  <2>3. ASSUME NEW i \in DOMAIN evidence PROVE evidence[i] \in ToSet(Append(evidence, 0))
    <3>1. i \in DOMAIN Append(evidence, 0) /\ Append(evidence, 0)[i] = evidence[i]
      <4>1. i \in 1 .. Len(evidence)
        BY <2>2, Zenon
      <4>2. 1 .. Len(evidence) \subseteq 1 .. Len(evidence) + 1
        BY <1>1
      <4> QED
        BY <2>1, <2>2, <4>1, <4>2, Zenon
    <3> QED
      BY <3>1, Zenon DEF ToSet
  <2> QED
    BY <2>1, <2>3, Zenon DEF ToSet
<1>4. ToSet(evidence) = 1 .. Len(evidence)
  BY <1>1, InPlace
<1>5. PICK n \in Nat : 1 .. n \subseteq ToSet(evidence') /\ Taken <= n + 1
  <2>1. CASE evidence' = evidence \/ evidence' = Append(evidence, 0)
    <3>1. 1 .. Len(evidence) \subseteq ToSet(evidence')
      BY <1>3, <1>4, <2>1
    <3>2. Taken <= Len(evidence) + 1
      BY <1>1
    <3> QED
      BY <1>1, <3>1, <3>2
  <2>2. CASE latest = 0 /\ evidence' = << >>
    <3>1. 1 .. 0 \subseteq ToSet(evidence') /\ 0 \in Nat
      OBVIOUS
    <3>2. Taken <= 0 + 1
      BY <1>1, <2>2
    <3> QED
      BY <3>1, <3>2
  <2> QED
    BY <1>2, <2>1, <2>2
<1>6. Behind(n)
  BY <1>0, <1>5, InReach
<1>7. Behind(n)'
  BY <1>0, <1>6 DEF Behind, Stopped
<1>8. WriterOver'
  BY <1>2, <1>5, <1>7 DEF WriterOver, Lost
<1>9. AuditTypes'
  <2>1. evidence' \in Seq(Nat)
    BY <1>1, <1>2, <1>3, EmptySeq
  <2> QED
    BY <1>0, <1>2, <2>1 DEF AuditInv, AuditTypes
<1> QED
  BY <1>0, <1>2, <1>8, <1>9 DEF AuditInv, WriterInOrder, QueueInOrder

\* Every step keeps the invariant.
LEMMA AuditStep ==
  ASSUME AuditInv, [AuditNext]_auditVars
  PROVE  AuditInv'
<1>0. /\ shutdown \in {"none", "disarmed", "putting", "joining", "closed"} /\ unhealthy \in BOOLEAN
      /\ follow \in {"healthy", "checked"} => decided < MaxDecisions
      /\ follow = "recorded" => decided > 0
  BY DEF AuditInv, AuditTypes
<1>1. CASE Decides
  BY <1>0, <1>1, AuditAside DEF Decides, diskVars, Stopped
<1>2. CASE Invalid
  BY <1>0, <1>2, AuditAside DEF Invalid, diskVars, Stopped
<1>3. CASE SubmitChecks
  BY <1>0, <1>3, AuditAside DEF SubmitChecks, diskVars, Stopped
<1>4. CASE QueueIsFull
  BY <1>0, <1>4, AuditAside DEF QueueIsFull, diskVars, Stopped
<1>5. CASE JournalOpened
  BY <1>0, <1>5, AuditAside DEF JournalOpened, callbackVars, Stopped
<1>6. CASE Disarms \/ Closes
  <2>1. CASE Disarms
    BY <1>0, <2>1, AuditAside DEF Disarms, callbackVars, diskVars, Stopped
  <2>2. CASE Closes
    BY <1>0, <2>2, AuditAside DEF Closes, callbackVars, diskVars, Stopped
  <2> QED
    BY <1>6, <2>1, <2>2
<1>7. CASE Joins
  <2>1. /\ unhealthy' = unhealthy \/ unhealthy' = TRUE
        /\ unhealthy' \/ writer' = "over"
        /\ shutdown = "joining" /\ shutdown' = "closed"
        /\ UNCHANGED <<follow, decided, moved, writer, held, evidence, latest, pending>>
    BY <1>0, <1>7, Zenon DEF Joins, callbackVars, diskVars
  <2>2. Stopped' = Stopped /\ shutdown' \in {"none", "disarmed", "putting", "joining", "closed"}
    BY <2>1 DEF Stopped
  <2>3. /\ follow' \in {"healthy", "checked"} => decided < MaxDecisions
        /\ follow' = "recorded" => decided > 0
    BY <1>0, <2>1
  <2> QED
    BY <2>1, <2>2, <2>3, AuditAside, Zenon
<1>8. CASE UNCHANGED auditVars
  <2>1. UNCHANGED <<follow, decided, moved, writer, held, evidence, latest, pending, unhealthy, shutdown>>
    BY <1>8, Zenon DEF auditVars, callbackVars, diskVars
  <2> QED
    BY <1>0, <2>1, AuditAside DEF Stopped
<1>9. CASE Submits
  BY <1>9, AuditSubmits
<1>10. CASE PutsStop
  BY <1>10, AuditPuts
<1>11. CASE Moves
  BY <1>11, AuditMoves
<1>12. CASE WriterTakes
  BY <1>12, AuditTakes
<1>13. CASE JournalWritten \/ SnapshotReplaced
  BY <1>13, AuditWrites
<1>14. CASE WriterFails
  BY <1>14, AuditFails
<1> QED
  BY <1>1, <1>2, <1>3, <1>4, <1>5, <1>6, <1>7, <1>8, <1>9, <1>10, <1>11, <1>12, <1>13, <1>14, Zenon
     DEF AuditNext, FollowThread, WriterWorks, MainThread

\* What the writer holds, what waits for it and what is on disk agree, whatever the
\* disk does.
THEOREM AuditInvariant == AuditSpec => []AuditInv
<1>1. AuditInit => AuditInv
  BY AuditStart
<1>2. AuditInv /\ [AuditNext]_auditVars => AuditInv'
  BY AuditStep
<1> QED
  BY <1>1, <1>2, PTL DEF AuditSpec

\* A close() without an error has the whole evidence on disk, and at no moment does
\* it lack more than a full queue and one decision: FollowAuditWriter.
THEOREM WholeEvidence == AuditSpec => []EvidenceComplete
<1>1. AuditInv => EvidenceComplete
  <2> SUFFICES ASSUME AuditInv PROVE EvidenceComplete
    OBVIOUS
  <2>1. /\ evidence \in Seq(Nat) /\ Len(evidence) \in Nat /\ AuditCap \in Nat /\ Taken \in Nat
        /\ Len(pending) \in Nat
    BY AuditNumbers DEF AuditInv, AuditTypes
  <2>2. ASSUME shutdown = "closed", ~unhealthy
        PROVE  /\ moved \subseteq ToSet(evidence) /\ latest = Len(evidence)
               /\ \A i \in DOMAIN evidence : evidence[i] = i
    <3>1. /\ latest = Len(evidence) /\ moved \subseteq 1 .. Len(evidence)
          /\ \A i \in 1 .. Len(evidence) : evidence[i] = i
      BY <2>2, Zenon DEF AuditInv, WriterOver
    <3>2. DOMAIN evidence = 1 .. Len(evidence)
      BY <2>1, LenProperties
    <3> QED
      BY <2>1, <3>1, <3>2, InPlace
  <2>3. PICK n \in Nat : 1 .. n \subseteq ToSet(evidence) /\ moved \subseteq 1 .. n + 1 + AuditCap
    <3>1. CASE writer # "over"
      <4>1. ToSet(evidence) = 1 .. Len(evidence)
        BY <2>1, <3>1, InPlace DEF AuditInv, WriterInOrder
      <4>2. Taken <= Len(evidence) + 1
        BY <2>1 DEF Taken
      <4>3. Behind(Len(evidence))
        BY <2>1, <3>1, <4>2, InReach
      <4> QED
        BY <2>1, <4>1, <4>3 DEF Behind
    <3>2. CASE writer = "over" /\ Lost
      BY <3>2 DEF Lost, Behind
    <3>3. CASE writer = "over" /\ ~Lost
      <4>1. moved \subseteq 1 .. Len(evidence) /\ \A i \in 1 .. Len(evidence) : evidence[i] = i
        BY <3>3, Zenon DEF AuditInv, WriterOver
      <4>2. ToSet(evidence) = 1 .. Len(evidence)
        BY <2>1, <4>1, InPlace
      <4>3. moved \subseteq 1 .. Len(evidence) + 1 + AuditCap
        BY <2>1, <4>1
      <4> QED
        BY <2>1, <4>2, <4>3
    <3> QED
      BY <3>1, <3>2, <3>3
  <2>4. moved \ ToSet(evidence) \subseteq n + 1 .. n + 1 + AuditCap
    <3>1. ASSUME NEW x \in moved, x \notin ToSet(evidence) PROVE x \in n + 1 .. n + 1 + AuditCap
      <4>1. x \in 1 .. n + 1 + AuditCap /\ x \notin 1 .. n
        BY <2>3, <3>1
      <4> QED
        BY <2>1, <4>1
    <3> QED
      BY <3>1
  <2>5. IsFiniteSet(n + 1 .. n + 1 + AuditCap) /\ Cardinality(n + 1 .. n + 1 + AuditCap) = AuditCap + 1
    <3>1. n + 1 \in Int /\ n + 1 + AuditCap \in Int /\ n + 1 <= n + 1 + AuditCap
      BY <2>1
    <3>2. Cardinality(n + 1 .. n + 1 + AuditCap) = (n + 1 + AuditCap) - (n + 1) + 1
      BY <3>1, FS_Interval
    <3> QED
      BY <2>1, <3>1, <3>2, FS_Interval
  <2>6. Cardinality(moved \ ToSet(evidence)) <= AuditCap + 1
    BY <2>4, <2>5, FS_Subset
  <2> QED
    BY <2>2, <2>6 DEF EvidenceComplete
<1> QED
  BY <1>1, AuditInvariant, PTL
=================================================================================
