--------------------------- MODULE CommandSinkProofs ---------------------------
(***************************************************************************)
(* Theorems about CommandSink, for every set of callers, every numbering   *)
(* of Machine States, every queue capacity and every bound.                *)
(***************************************************************************)
EXTENDS CommandSink, SequenceTheorems, TLAPS

-----------------------------------------------------------------------------
(* Type correctness. *)

\* Every variable of the sink keeps its type, in particular the queue holds
\* only records and the stop token and the wire only well-formed datagrams.
THEOREM TypeCorrect == Spec => []TypeOK
<1> USE SinkAssumption
<1>1. Init => TypeOK
  <2>1. << >> \in Seq(Datagram) /\ Len(<< >>) = 0 /\ << >> \in Seq(Datagram \cup {Stop})
    BY EmptySeq
  <2> SUFFICES ASSUME Init PROVE TypeOK
    OBVIOUS
  <2>2. /\ disarmed \in BOOLEAN /\ failed \in BOOLEAN /\ writing \in BOOLEAN
        /\ closer \in {"none", "putting", "joining", "closed"}
    BY DEF Init
  <2>3. /\ pc \in [Threads -> {"idle", "decided", "sending"}]
        /\ packet \in [Threads -> States \cup {0}]
        /\ lastStateSeq \in States \cup {0} /\ actionSeq \in Nat
    BY DEF Init
  <2>4. /\ queue \in Seq(Datagram \cup {Stop})
        /\ hand \in Seq(Datagram) /\ Len(hand) <= 1
        /\ journal \in Seq(Datagram) /\ wire \in Seq(Datagram)
    BY <2>1 DEF Init
  <2>5. QED BY <2>2, <2>3, <2>4 DEF TypeOK
<1>2. TypeOK /\ [Next]_vars => TypeOK'
  <2> SUFFICES ASSUME TypeOK, [Next]_vars PROVE TypeOK'
    OBVIOUS
  <2> USE DEF TypeOK, sinkVars, callerVars, journalVars
  <2>1. ASSUME NEW t \in Threads, SendVelocity(t) PROVE TypeOK'
    BY <2>1 DEF SendVelocity, Enter
  <2>2. ASSUME NEW t \in Threads, SendZero(t) PROVE TypeOK'
    BY <2>2 DEF SendZero, Enter
  <2>3. ASSUME NEW t \in Threads, DisarmSink(t) PROVE TypeOK'
    BY <2>3 DEF DisarmSink, Enter
  <2>4. ASSUME NEW t \in Threads, CheckRefuse(t) PROVE TypeOK'
    BY <2>4 DEF CheckRefuse, Leave
  <2>5. ASSUME NEW t \in Threads, CheckPass(t) PROVE TypeOK'
    BY <2>5 DEF CheckPass
  <2>6. ASSUME NEW t \in Threads, SendTo(t) PROVE TypeOK'
    <3>1. [seq |-> actionSeq, state |-> packet[t]] \in Datagram
      BY DEF Datagram
    <3>2. QED BY <2>6, <3>1 DEF SendTo, Leave
  <2>7. ASSUME NEW t \in Threads, SendToFails(t) PROVE TypeOK'
    BY <2>7 DEF SendToFails, Leave
  <2>8. ASSUME WriterTake PROVE TypeOK'
    <3>1. /\ queue # << >> /\ Head(queue) \in Datagram \cup {Stop}
          /\ Tail(queue) \in Seq(Datagram \cup {Stop})
      BY <2>8, HeadTailProperties DEF WriterTake
    <3>2. ASSUME NEW d \in Datagram
          PROVE  <<d>> \in Seq(Datagram) /\ Len(<<d>>) = 1
      OBVIOUS
    <3>3. << >> \in Seq(Datagram) /\ Len(<< >>) <= 1
      BY EmptySeq
    <3>4. hand' \in Seq(Datagram) /\ Len(hand') <= 1
      <4>1. CASE Head(queue) = Stop
        BY <2>8, <4>1 DEF WriterTake
      <4>2. CASE Head(queue) # Stop
        <5>1. <<Head(queue)>> \in Seq(Datagram) /\ Len(<<Head(queue)>>) <= 1
          BY <3>1, <3>2, <4>2
        <5>2. hand' = << >> \/ hand' = <<Head(queue)>>
          BY <2>8, <4>2 DEF WriterTake
        <5>3. QED BY <3>3, <5>1, <5>2, Zenon
      <4>3. QED BY <4>1, <4>2
    <3>5. QED BY <2>8, <3>1, <3>4 DEF WriterTake
  <2>9. ASSUME WriterWrite PROVE TypeOK'
    BY <2>9 DEF WriterWrite
  <2>10. ASSUME WriterFail PROVE TypeOK'
    BY <2>10 DEF WriterFail
  <2>11. ASSUME CloseBegin PROVE TypeOK'
    BY <2>11 DEF CloseBegin
  <2>12. ASSUME ClosePut PROVE TypeOK'
    BY <2>12 DEF ClosePut
  <2>13. ASSUME ClosePutTimeout PROVE TypeOK'
    BY <2>13 DEF ClosePutTimeout
  <2>14. ASSUME CloseJoin PROVE TypeOK'
    BY <2>14 DEF CloseJoin
  <2>15. ASSUME UNCHANGED vars PROVE TypeOK'
    BY <2>15 DEF vars
  <2>16. QED
    BY <2>1, <2>2, <2>3, <2>4, <2>5, <2>6, <2>7, <2>8, <2>9, <2>10, <2>11,
       <2>12, <2>13, <2>14, <2>15 DEF Next, Caller, Writer, Closing
<1>3. QED BY <1>1, <1>2, PTL DEF Spec

-----------------------------------------------------------------------------
(* The locks. *)

\* No step lets a second caller into the sink, or a sender past close().
LEMMA LockStep ==
  ASSUME TypeOK, OneCaller, CloserExcludes, [Next]_vars
  PROVE  OneCaller' /\ CloserExcludes'
<1> USE DEF TypeOK, OneCaller, CloserExcludes, sinkVars, callerVars, journalVars
<1>1. ASSUME NEW t \in Threads, SendVelocity(t) PROVE OneCaller' /\ CloserExcludes'
  BY <1>1 DEF SendVelocity, Enter, SinkFree, Allowed
<1>2. ASSUME NEW t \in Threads, SendZero(t) PROVE OneCaller' /\ CloserExcludes'
  BY <1>2 DEF SendZero, Enter, SinkFree
<1>3. ASSUME NEW t \in Threads, DisarmSink(t) PROVE OneCaller' /\ CloserExcludes'
  BY <1>3 DEF DisarmSink, Enter, SinkFree
<1>4. ASSUME NEW t \in Threads, CheckRefuse(t) PROVE OneCaller' /\ CloserExcludes'
  BY <1>4 DEF CheckRefuse, Leave
<1>5. ASSUME NEW t \in Threads, CheckPass(t) PROVE OneCaller' /\ CloserExcludes'
  BY <1>5 DEF CheckPass, SenderFree, Available
<1>6. ASSUME NEW t \in Threads, SendTo(t) PROVE OneCaller' /\ CloserExcludes'
  BY <1>6 DEF SendTo, Leave
<1>7. ASSUME NEW t \in Threads, SendToFails(t) PROVE OneCaller' /\ CloserExcludes'
  BY <1>7 DEF SendToFails, Leave
<1>8. ASSUME WriterTake PROVE OneCaller' /\ CloserExcludes'
  BY <1>8 DEF WriterTake
<1>9. ASSUME WriterWrite PROVE OneCaller' /\ CloserExcludes'
  BY <1>9 DEF WriterWrite
<1>10. ASSUME WriterFail PROVE OneCaller' /\ CloserExcludes'
  BY <1>10 DEF WriterFail
<1>11. ASSUME CloseBegin PROVE OneCaller' /\ CloserExcludes'
  BY <1>11 DEF CloseBegin, SenderFree
<1>12. ASSUME ClosePut PROVE OneCaller' /\ CloserExcludes'
  BY <1>12 DEF ClosePut
<1>13. ASSUME ClosePutTimeout PROVE OneCaller' /\ CloserExcludes'
  BY <1>13 DEF ClosePutTimeout
<1>14. ASSUME CloseJoin PROVE OneCaller' /\ CloserExcludes'
  BY <1>14 DEF CloseJoin
<1>15. ASSUME UNCHANGED vars PROVE OneCaller' /\ CloserExcludes'
  BY <1>15 DEF vars
<1>16. QED
  BY <1>1, <1>2, <1>3, <1>4, <1>5, <1>6, <1>7, <1>8, <1>9,
     <1>10, <1>11, <1>12, <1>13, <1>14, <1>15
  DEF Next, Caller, Writer, Closing

-----------------------------------------------------------------------------
(* The room in the audit queue and the numbers on the wire. *)

\* No step fills the queue under a caller that has passed the check.
LEMMA RoomStep ==
  ASSUME TypeOK, OneCaller, CloserExcludes, RoomForRecord, [Next]_vars
  PROVE  RoomForRecord'
<1> USE SinkAssumption DEF TypeOK, OneCaller, CloserExcludes, RoomForRecord, sinkVars, callerVars, journalVars
<1>1. ASSUME NEW t \in Threads, SendVelocity(t) PROVE RoomForRecord'
  BY <1>1 DEF SendVelocity, Enter, SinkFree, Allowed
<1>2. ASSUME NEW t \in Threads, SendZero(t) PROVE RoomForRecord'
  BY <1>2 DEF SendZero, Enter, SinkFree
<1>3. ASSUME NEW t \in Threads, DisarmSink(t) PROVE RoomForRecord'
  BY <1>3 DEF DisarmSink, Enter, SinkFree
<1>4. ASSUME NEW t \in Threads, CheckRefuse(t) PROVE RoomForRecord'
  BY <1>4 DEF CheckRefuse, Leave
<1>5. ASSUME NEW t \in Threads, CheckPass(t) PROVE RoomForRecord'
  BY <1>5 DEF CheckPass, SenderFree, Available
<1>6. ASSUME NEW t \in Threads, SendTo(t) PROVE RoomForRecord'
  BY <1>6 DEF SendTo, Leave
<1>7. ASSUME NEW t \in Threads, SendToFails(t) PROVE RoomForRecord'
  BY <1>7 DEF SendToFails, Leave
<1>8. ASSUME WriterTake PROVE RoomForRecord'
  BY <1>8 DEF WriterTake
<1>9. ASSUME WriterWrite PROVE RoomForRecord'
  BY <1>9 DEF WriterWrite
<1>10. ASSUME WriterFail PROVE RoomForRecord'
  BY <1>10 DEF WriterFail
<1>11. ASSUME CloseBegin PROVE RoomForRecord'
  BY <1>11 DEF CloseBegin, SenderFree
<1>12. ASSUME ClosePut PROVE RoomForRecord'
  BY <1>12 DEF ClosePut
<1>13. ASSUME ClosePutTimeout PROVE RoomForRecord'
  BY <1>13 DEF ClosePutTimeout
<1>14. ASSUME CloseJoin PROVE RoomForRecord'
  BY <1>14 DEF CloseJoin
<1>15. ASSUME UNCHANGED vars PROVE RoomForRecord'
  BY <1>15 DEF vars
<1>16. QED
  BY <1>1, <1>2, <1>3, <1>4, <1>5, <1>6, <1>7, <1>8, <1>9,
     <1>10, <1>11, <1>12, <1>13, <1>14, <1>15
  DEF Next, Caller, Writer, Closing

\* The next number is given out exactly when a datagram leaves.
LEMMA NumberStep ==
  ASSUME TypeOK, WireNumbering, [Next]_vars
  PROVE  WireNumbering'
<1> USE DEF TypeOK, WireNumbering, sinkVars, callerVars, journalVars
<1>1. ASSUME NEW t \in Threads, SendVelocity(t) PROVE WireNumbering'
  BY <1>1 DEF SendVelocity, Enter, SinkFree, Allowed
<1>2. ASSUME NEW t \in Threads, SendZero(t) PROVE WireNumbering'
  BY <1>2 DEF SendZero, Enter, SinkFree
<1>3. ASSUME NEW t \in Threads, DisarmSink(t) PROVE WireNumbering'
  BY <1>3 DEF DisarmSink, Enter, SinkFree
<1>4. ASSUME NEW t \in Threads, CheckRefuse(t) PROVE WireNumbering'
  BY <1>4 DEF CheckRefuse, Leave
<1>5. ASSUME NEW t \in Threads, CheckPass(t) PROVE WireNumbering'
  BY <1>5 DEF CheckPass, SenderFree, Available
<1>6. ASSUME NEW t \in Threads, SendTo(t) PROVE WireNumbering'
  BY <1>6 DEF SendTo, Leave
<1>7. ASSUME NEW t \in Threads, SendToFails(t) PROVE WireNumbering'
  BY <1>7 DEF SendToFails, Leave
<1>8. ASSUME WriterTake PROVE WireNumbering'
  BY <1>8 DEF WriterTake
<1>9. ASSUME WriterWrite PROVE WireNumbering'
  BY <1>9 DEF WriterWrite
<1>10. ASSUME WriterFail PROVE WireNumbering'
  BY <1>10 DEF WriterFail
<1>11. ASSUME CloseBegin PROVE WireNumbering'
  BY <1>11 DEF CloseBegin, SenderFree
<1>12. ASSUME ClosePut PROVE WireNumbering'
  BY <1>12 DEF ClosePut
<1>13. ASSUME ClosePutTimeout PROVE WireNumbering'
  BY <1>13 DEF ClosePutTimeout
<1>14. ASSUME CloseJoin PROVE WireNumbering'
  BY <1>14 DEF CloseJoin
<1>15. ASSUME UNCHANGED vars PROVE WireNumbering'
  BY <1>15 DEF vars
<1>16. QED
  BY <1>1, <1>2, <1>3, <1>4, <1>5, <1>6, <1>7, <1>8, <1>9,
     <1>10, <1>11, <1>12, <1>13, <1>14, <1>15
  DEF Next, Caller, Writer, Closing

-----------------------------------------------------------------------------
(* The state behind a motion packet. *)

\* The state behind a datagram can be compared.
LEMMA DatagramState ==
  ASSUME NEW d \in Datagram PROVE d.state \in Nat
<1>1. d.state \in States \cup {0}
  BY DEF Datagram
<1>2. States \cup {0} \subseteq Nat
  BY SinkAssumption
<1>3. QED BY <1>1, <1>2, Zenon

\* A pending motion packet stays the newest decision until it is sent.
LEMMA PacketStep ==
  ASSUME TypeOK, OneCaller, PacketCurrent, [Next]_vars
  PROVE  PacketCurrent'
<1> USE SinkAssumption DEF TypeOK, OneCaller, PacketCurrent, sinkVars, callerVars, journalVars
<1>1. ASSUME NEW t \in Threads, SendVelocity(t) PROVE PacketCurrent'
  <2>1. PICK s \in States, fresh \in BOOLEAN, inside \in BOOLEAN :
          /\ Enter(t, IF Allowed(s, fresh, inside) THEN s ELSE 0)
          /\ lastStateSeq' = IF s > lastStateSeq THEN s ELSE lastStateSeq
          /\ UNCHANGED <<disarmed, actionSeq, wire, journalVars>>
    BY <1>1 DEF SendVelocity
  <2>2. \A u \in Threads : packet[u] = 0
    BY <2>1 DEF Enter, SinkFree
  <2>3. lastStateSeq' >= lastStateSeq /\ s \in Nat /\ lastStateSeq \in Nat
    BY <2>1
  <2>4. \A i \in DOMAIN wire' : wire'[i].state <= lastStateSeq'
    <3>1. ASSUME NEW i \in DOMAIN wire PROVE wire[i].state \in Nat
      <4>1. i \in 1 .. Len(wire)
        BY LenProperties
      <4>2. wire[i] \in Datagram
        BY <4>1, ElementOfSeq
      <4>3. QED BY <4>2, DatagramState, Zenon
    <3>2. QED BY <2>1, <2>3, <3>1
  <2>5. CASE Allowed(s, fresh, inside)
    <3>1. packet' = [packet EXCEPT ![t] = s] /\ lastStateSeq' = s
      BY <2>1, <2>3, <2>5 DEF Enter, Allowed
    <3>2. ~disarmed' /\ s \in OpenStates
      BY <2>1, <2>5 DEF Allowed
    <3>3. QED BY <2>2, <2>4, <3>1, <3>2
  <2>6. CASE ~Allowed(s, fresh, inside)
    <3>1. packet' = [packet EXCEPT ![t] = 0]
      BY <2>1, <2>6 DEF Enter
    <3>2. QED BY <2>2, <2>4, <3>1
  <2>7. QED BY <2>5, <2>6
<1>2. ASSUME NEW t \in Threads, SendZero(t) PROVE PacketCurrent'
  BY <1>2 DEF SendZero, Enter, SinkFree
<1>3. ASSUME NEW t \in Threads, DisarmSink(t) PROVE PacketCurrent'
  BY <1>3 DEF DisarmSink, Enter, SinkFree
<1>4. ASSUME NEW t \in Threads, CheckRefuse(t) PROVE PacketCurrent'
  BY <1>4 DEF CheckRefuse, Leave
<1>5. ASSUME NEW t \in Threads, CheckPass(t) PROVE PacketCurrent'
  BY <1>5 DEF CheckPass, SenderFree, Available
<1>6. ASSUME NEW t \in Threads, SendTo(t) PROVE PacketCurrent'
  <2>1. /\ wire' = Append(wire, [seq |-> actionSeq, state |-> packet[t]])
        /\ packet' = [packet EXCEPT ![t] = 0]
        /\ UNCHANGED <<disarmed, lastStateSeq>>
    BY <1>6 DEF SendTo, Leave
  <2>2. packet[t] \in Nat /\ lastStateSeq \in Nat /\ packet[t] <= lastStateSeq
    <3>1. packet[t] \in States \cup {0} /\ lastStateSeq \in States \cup {0}
      OBVIOUS
    <3>2. packet[t] \in Nat /\ lastStateSeq \in Nat
      BY <3>1
    <3>3. packet[t] = 0 \/ packet[t] = lastStateSeq
      OBVIOUS
    <3>4. QED BY <3>2, <3>3
  <2>3. ASSUME NEW i \in DOMAIN wire' PROVE wire'[i].state <= lastStateSeq'
    <3>1. CASE i \in DOMAIN wire
      <4>1. wire'[i] = wire[i]
        BY <2>1, <3>1
      <4>2. QED BY <2>1, <3>1, <4>1
    <3>2. CASE i \notin DOMAIN wire
      <4>1. wire'[i] = [seq |-> actionSeq, state |-> packet[t]]
        BY <2>1, <2>3, <3>2
      <4>2. QED BY <2>1, <2>2, <4>1
    <3>3. QED BY <3>1, <3>2
  <2>4. ASSUME NEW u \in Threads, packet'[u] # 0
        PROVE  ~disarmed' /\ packet'[u] \in OpenStates /\ packet'[u] = lastStateSeq'
    BY <2>1, <2>4
  <2>5. QED BY <2>3, <2>4
<1>7. ASSUME NEW t \in Threads, SendToFails(t) PROVE PacketCurrent'
  BY <1>7 DEF SendToFails, Leave
<1>8. ASSUME WriterTake PROVE PacketCurrent'
  BY <1>8 DEF WriterTake
<1>9. ASSUME WriterWrite PROVE PacketCurrent'
  BY <1>9 DEF WriterWrite
<1>10. ASSUME WriterFail PROVE PacketCurrent'
  BY <1>10 DEF WriterFail
<1>11. ASSUME CloseBegin PROVE PacketCurrent'
  BY <1>11 DEF CloseBegin, SenderFree
<1>12. ASSUME ClosePut PROVE PacketCurrent'
  BY <1>12 DEF ClosePut
<1>13. ASSUME ClosePutTimeout PROVE PacketCurrent'
  BY <1>13 DEF ClosePutTimeout
<1>14. ASSUME CloseJoin PROVE PacketCurrent'
  BY <1>14 DEF CloseJoin
<1>15. ASSUME UNCHANGED vars PROVE PacketCurrent'
  BY <1>15 DEF vars
<1>16. QED
  BY <1>1, <1>2, <1>3, <1>4, <1>5, <1>6, <1>7, <1>8, <1>9,
     <1>10, <1>11, <1>12, <1>13, <1>14, <1>15
  DEF Next, Caller, Writer, Closing

-----------------------------------------------------------------------------
(* The journal. *)

Sending == \E t \in Threads : pc[t] = "sending"

\* "rest" is what has left the PC and is neither on disk nor in the writer's hand.  It
\* is what the queue holds until the journal fails; from then on at most one more send
\* can add to it, the one that had passed the availability check.
Behind(rest) ==
  /\ wire = (journal \o hand) \o rest
  /\ ~failed =>
       \/ queue = rest /\ writing /\ closer \in {"none", "putting"}
       \/ queue = Append(rest, Stop) /\ writing /\ closer = "joining"
       \/ queue = << >> /\ rest = << >> /\ hand = << >> /\ ~writing /\ closer \in {"joining", "closed"}
  /\ failed => Len(hand) + Len(rest) <= IF Sending THEN QueueCap ELSE QueueCap + 1

JournalInv ==
  /\ \E rest \in Seq(Datagram) : Behind(rest)
  /\ Len(queue) <= QueueCap
  /\ Sending => closer = "none"

\* The stop token is no record.
LEMMA StopIsNoRecord == Stop \notin Datagram
BY SinkAssumption DEF Datagram

\* While the journal has not failed the rest is no longer than the queue.
LEMMA RestInQueue ==
  ASSUME NEW rest \in Seq(Datagram), TypeOK, Behind(rest), ~failed
  PROVE  Len(rest) <= Len(queue)
<1>1. Len(rest) \in Nat
  BY LenProperties
<1>2. CASE queue = Append(rest, Stop)
  <2>1. rest \in Seq(Datagram \cup {Stop})
    BY SeqMonotonic
  <2> QED BY <1>1, <1>2, <2>1, AppendProperties
<1>3. CASE queue = rest \/ rest = << >>
  BY <1>1, <1>3, EmptySeq DEF TypeOK
<1> QED BY <1>2, <1>3 DEF Behind

\* The account with another rest.
LEMMA RestIs ==
  ASSUME NEW r \in Seq(Datagram), Behind(r)', Len(queue') <= QueueCap, Sending' => closer' = "none"
  PROVE  JournalInv'
BY Zenon DEF JournalInv

\* A step of a caller keeps the account of the journal.
LEMMA CallerKeepsJournal ==
  ASSUME TypeOK, OneCaller, CloserExcludes, RoomForRecord, JournalInv,
         NEW t \in Threads, Caller(t)
  PROVE  JournalInv'
<1> USE SinkAssumption
<1>1. PICK rest \in Seq(Datagram) : Behind(rest)
  BY DEF JournalInv
<1>2. Len(rest) \in Nat /\ Len(hand) \in Nat /\ Len(queue) \in Nat
  BY LenProperties DEF TypeOK
<1>3. CASE SendVelocity(t) \/ SendZero(t) \/ DisarmSink(t) \/ CheckRefuse(t) \/ SendToFails(t)
  <2>1. UNCHANGED <<wire, queue, hand, journal, failed, closer, writing>> /\ (Sending' => Sending)
    BY <1>3 DEF SendVelocity, SendZero, DisarmSink, CheckRefuse, SendToFails, Enter, Leave,
                Sending, TypeOK, sinkVars, journalVars
  <2>2. Behind(rest)'
    BY <1>1, <1>2, <2>1 DEF Behind
  <2> QED BY <2>1, <2>2 DEF JournalInv
<1>4. CASE CheckPass(t)
  <2>1. UNCHANGED <<wire, queue, hand, journal, failed, closer, writing>> /\ ~failed /\ closer = "none"
    BY <1>4 DEF CheckPass, Available, journalVars
  <2>2. Behind(rest)'
    BY <1>1, <2>1 DEF Behind
  <2> QED BY <2>1, <2>2 DEF JournalInv
<1>5. CASE SendTo(t)
  <2> DEFINE d == [seq |-> actionSeq, state |-> packet[t]]
  <2>1. /\ wire' = Append(wire, d) /\ queue' = Append(queue, d)
        /\ UNCHANGED <<hand, journal, failed, closer, writing>>
        /\ d \in Datagram
    BY <1>5 DEF SendTo, TypeOK, Datagram
  <2>2. Sending /\ ~Sending' /\ closer = "none" /\ Len(queue) < QueueCap
    <3>1. pc[t] = "sending" /\ pc' = [pc EXCEPT ![t] = "idle"]
      BY <1>5 DEF SendTo, Leave
    <3>2. Sending /\ Len(queue) < QueueCap
      BY <3>1 DEF Sending, RoomForRecord
    <3>3. ~Sending'
      BY <3>1 DEF Sending, OneCaller, TypeOK
    <3> QED BY <3>2, <3>3 DEF JournalInv
  <2>3. /\ Append(rest, d) \in Seq(Datagram) /\ Len(Append(rest, d)) = Len(rest) + 1
        /\ Len(queue') = Len(queue) + 1
    BY <2>1, AppendProperties DEF TypeOK
  <2>4. wire' = (journal \o hand) \o Append(rest, d)
    <3>1. journal \o hand \in Seq(Datagram) /\ (journal \o hand) \o rest \in Seq(Datagram)
      BY ConcatProperties DEF TypeOK
    <3>2. <<d>> \in Seq(Datagram)
      BY <2>1
    <3>3. wire' = wire \o <<d>> /\ Append(rest, d) = rest \o <<d>>
      BY <2>1, AppendIsConcat DEF TypeOK
    <3>4. ((journal \o hand) \o rest) \o <<d>> = (journal \o hand) \o (rest \o <<d>>)
      <4>1. \A last \in Seq(Datagram) :
              ((journal \o hand) \o rest) \o last = (journal \o hand) \o (rest \o last)
        BY <3>1, ConcatAssociative
      <4> QED BY <3>2, <4>1
    <3> QED BY <1>1, <3>3, <3>4 DEF Behind
  <2>7. PICK more \in Seq(Datagram) : more = Append(rest, d)
    BY <2>3
  <2>5. Behind(more)'
    <3>1. ~failed => queue = rest /\ writing
      BY <1>1, <2>2 DEF Behind
    <3>2. failed => Len(hand) + Len(rest) <= QueueCap
      BY <1>1, <2>2 DEF Behind
    <3>3. failed' => Len(hand') + Len(more) <= QueueCap + 1
      BY <1>2, <2>1, <2>3, <2>7, <3>2
    <3>4. ~failed' => queue' = more /\ writing' /\ closer' = "none"
      BY <1>5, <2>2, <2>7, <3>1 DEF SendTo
    <3>5. wire' = (journal' \o hand') \o more
      BY <2>1, <2>4, <2>7
    <3> QED BY <2>2, <3>3, <3>4, <3>5 DEF Behind
  <2>6. Len(queue') <= QueueCap
    BY <1>2, <2>2, <2>3
  <2> QED BY <2>2, <2>5, <2>6, RestIs
<1> QED BY <1>3, <1>4, <1>5 DEF Caller

\* Records may be grouped the other way.
LEMMA Regrouped ==
  ASSUME NEW S, NEW s \in Seq(S), NEW t \in Seq(S), NEW u \in Seq(S)
  PROVE  s \o (t \o u) = (s \o t) \o u
<1>1. (s \o t) \o u = s \o (t \o u)
  BY ConcatAssociative
<1> QED
  BY <1>1, Zenon

\* A step of the writer keeps the account of the journal.
LEMMA WriterKeepsJournal ==
  ASSUME TypeOK, RoomForRecord, JournalInv, Writer
  PROVE  JournalInv'
<1> USE SinkAssumption
<1>1. PICK rest \in Seq(Datagram) : Behind(rest)
  BY DEF JournalInv
<1>2. Len(rest) \in Nat /\ Len(hand) \in Nat /\ Len(queue) \in Nat
  BY LenProperties DEF TypeOK
<1>3. UNCHANGED <<wire, closer>> /\ (Sending' <=> Sending)
  BY DEF Writer, WriterTake, WriterWrite, WriterFail, Sending, sinkVars, callerVars
<1>4. << >> \in Seq(Datagram) /\ Len(<< >>) = 0
  BY EmptySeq
<1>5. CASE WriterTake
  <2>1. /\ writing /\ hand = << >> /\ queue # << >> /\ queue' = Tail(queue)
        /\ UNCHANGED <<journal, failed>>
    BY <1>5 DEF WriterTake
  <2>2. Len(queue') = Len(queue) - 1
    BY <2>1, HeadTailProperties DEF TypeOK
  <2>6. Len(queue') <= QueueCap
    BY <1>2, <2>2 DEF JournalInv
  <2>3. CASE failed
    <3>1. hand' = << >>
      BY <1>5, <2>1, <2>3 DEF WriterTake
    <3>2. Behind(rest)'
      BY <1>1, <1>3, <2>1, <2>3, <3>1 DEF Behind
    <3> QED BY <1>2, <1>3, <2>2, <3>2 DEF JournalInv
  <2>4. CASE ~failed /\ Head(queue) = Stop
    <3>1. hand' = << >> /\ writing' = FALSE
      BY <1>5, <2>1, <2>4 DEF WriterTake
    <3>2. queue = Append(rest, Stop) /\ closer = "joining" /\ rest = << >>
      <4>1. queue # rest
        BY <2>1, <2>4, StopIsNoRecord, HeadTailProperties
      <4>2. queue = Append(rest, Stop) /\ closer = "joining"
        BY <1>1, <2>1, <2>4, <4>1 DEF Behind
      <4>3. CASE rest # << >>
        <5>1. rest \in Seq(Datagram \cup {Stop}) /\ Head(rest) \in Datagram
          BY <4>3, SeqMonotonic, HeadTailProperties
        <5>2. Head(queue) = Head(rest)
          BY <4>2, <4>3, <5>1, HeadTailAppend
        <5> QED BY <2>4, <5>1, <5>2, StopIsNoRecord
      <4> QED BY <4>2, <4>3
    <3>3. queue' = << >>
      BY <2>1, <3>2
    <3>4. Behind(<< >>)'
      BY <1>1, <1>3, <2>1, <2>4, <3>1, <3>2, <3>3 DEF Behind
    <3> QED BY <1>3, <1>4, <2>6, <3>4, RestIs DEF JournalInv
  <2>5. CASE ~failed /\ Head(queue) # Stop
    <3>1. hand' = <<Head(queue)>> /\ UNCHANGED writing
      BY <1>5, <2>5 DEF WriterTake
    <3>2. rest # << >> /\ Head(queue) = Head(rest)
          /\ (queue = rest => queue' = Tail(rest))
          /\ (queue = Append(rest, Stop) => queue' = Append(Tail(rest), Stop))
      <4>1. rest \in Seq(Datagram \cup {Stop})
        BY SeqMonotonic
      <4>2. CASE queue = rest
        <5>1. queue # Append(rest, Stop)
          BY <1>2, <4>1, <4>2, AppendProperties
        <5> QED BY <2>1, <4>2, <5>1
      <4>3. CASE queue # rest
        <5>1. queue = Append(rest, Stop)
          BY <1>1, <2>1, <2>5, <4>3 DEF Behind
        <5>2. rest # << >>
          BY <2>5, <5>1
        <5>3. Head(queue) = Head(rest) /\ Tail(queue) = Append(Tail(rest), Stop)
          BY <4>1, <5>1, <5>2, HeadTailAppend
        <5> QED BY <2>1, <4>3, <5>1, <5>2, <5>3
      <4> QED BY <4>2, <4>3
    <3>3. /\ Head(rest) \in Datagram /\ Tail(rest) \in Seq(Datagram) /\ <<Head(rest)>> \in Seq(Datagram)
          /\ rest = <<Head(rest)>> \o Tail(rest)
      <4>1. Head(rest) \in Datagram /\ Tail(rest) \in Seq(Datagram)
        BY <3>2, HeadTailProperties
      <4> QED BY <3>2, <4>1
    <3>4. wire' = (journal \o <<Head(rest)>>) \o Tail(rest)
      <4>1. journal \o hand = journal
        BY <2>1, ConcatEmptySeq DEF TypeOK
      <4>2. journal \o (<<Head(rest)>> \o Tail(rest)) = (journal \o <<Head(rest)>>) \o Tail(rest)
        <5>1. journal \in Seq(Datagram) /\ <<Head(rest)>> \in Seq(Datagram) /\ Tail(rest) \in Seq(Datagram)
          BY <3>3 DEF TypeOK
        <5> QED BY <5>1, Regrouped
      <4> QED BY <1>1, <1>3, <3>3, <4>1, <4>2 DEF Behind
    <3>5. ~failed' /\ writing'
      BY <2>1, <2>5, <3>1
    <3>6. Behind(Tail(rest))'
      BY <1>1, <1>3, <2>1, <2>5, <3>1, <3>2, <3>4, <3>5 DEF Behind
    <3> QED BY <1>3, <2>6, <3>3, <3>6, RestIs DEF JournalInv
  <2> QED BY <2>3, <2>4, <2>5
<1>6. CASE WriterWrite
  <2>1. journal' = journal \o hand /\ hand' = << >> /\ hand # << >> /\ UNCHANGED <<queue, failed, writing>>
    BY <1>6 DEF WriterWrite
  <2>2. journal' \o hand' = journal \o hand
    <3>1. journal \o hand \in Seq(Datagram)
      BY ConcatProperties DEF TypeOK
    <3> QED BY <2>1, <3>1, ConcatEmptySeq
  <2>3. Behind(rest)'
    BY <1>1, <1>2, <1>3, <1>4, <2>1, <2>2 DEF Behind
  <2> QED BY <1>3, <2>1, <2>3 DEF JournalInv
<1>7. CASE WriterFail
  <2>1. failed' = TRUE /\ hand' = << >> /\ hand # << >> /\ UNCHANGED <<journal, queue, writing>>
    BY <1>7 DEF WriterFail
  <2>2. hand \o rest \in Seq(Datagram) /\ Len(hand \o rest) = Len(hand) + Len(rest)
    BY ConcatProperties DEF TypeOK
  <2>3. wire' = (journal' \o hand') \o (hand \o rest)
    <3>1. journal' \o hand' = journal
      BY <2>1, ConcatEmptySeq DEF TypeOK
    <3>2. (journal \o hand) \o rest = journal \o (hand \o rest)
      BY ConcatAssociative DEF TypeOK
    <3> QED BY <1>1, <1>3, <3>1, <3>2 DEF Behind
  <2>4. Len(hand) + Len(rest) <= IF Sending THEN QueueCap ELSE QueueCap + 1
    <3>1. CASE failed
      BY <1>1, <3>1 DEF Behind
    <3>2. CASE ~failed
      <4>1. Len(rest) <= Len(queue) /\ Len(hand) <= 1 /\ Len(queue) <= QueueCap
        BY <1>1, <3>2, RestInQueue DEF TypeOK, JournalInv
      <4>2. Sending => Len(queue) < QueueCap
        BY DEF Sending, RoomForRecord
      <4> QED BY <1>2, <4>1, <4>2
    <3> QED BY <3>1, <3>2
  <2>6. PICK more \in Seq(Datagram) : more = hand \o rest
    BY <2>2
  <2>5. Behind(more)'
    <3>1. Len(hand') + Len(more) <= IF Sending' THEN QueueCap ELSE QueueCap + 1
      BY <1>2, <1>3, <1>4, <2>1, <2>2, <2>4, <2>6
    <3> QED BY <2>1, <2>3, <2>6, <3>1 DEF Behind
  <2> QED BY <1>3, <2>1, <2>2, <2>5, RestIs DEF JournalInv
<1> QED BY <1>5, <1>6, <1>7 DEF Writer

\* A step of close() keeps the account of the journal.
LEMMA CloserKeepsJournal ==
  ASSUME TypeOK, CloserExcludes, JournalInv, Closing
  PROVE  JournalInv'
<1> USE SinkAssumption
<1>1. PICK rest \in Seq(Datagram) : Behind(rest)
  BY DEF JournalInv
<1>2. Len(rest) \in Nat /\ Len(hand) \in Nat /\ Len(queue) \in Nat
  BY LenProperties DEF TypeOK
<1>3. UNCHANGED <<wire, hand, journal, writing>> /\ (Sending' <=> Sending) /\ ~Sending
  BY DEF Closing, CloseBegin, ClosePut, ClosePutTimeout, CloseJoin, Sending, sinkVars, callerVars,
         SenderFree, CloserExcludes, JournalInv
<1>4. CASE CloseBegin
  <2>1. closer = "none" /\ closer' = "putting" /\ UNCHANGED <<queue, failed>>
    BY <1>4 DEF CloseBegin
  <2>2. Behind(rest)'
    BY <1>1, <1>3, <2>1 DEF Behind
  <2> QED BY <1>3, <2>1, <2>2, RestIs DEF JournalInv
<1>5. CASE ClosePut
  <2>1. queue' = Append(queue, Stop) /\ closer' = "joining" /\ closer = "putting" /\ UNCHANGED failed
    BY <1>5 DEF ClosePut
  <2>2. Len(queue') = Len(queue) + 1 /\ Len(queue) < QueueCap
    BY <1>5, <2>1, AppendProperties DEF ClosePut, TypeOK
  <2>3. Behind(rest)'
    BY <1>1, <1>3, <2>1 DEF Behind
  <2> QED BY <1>2, <1>3, <2>2, <2>3 DEF JournalInv
<1>6. CASE ClosePutTimeout \/ CloseJoin
  <2>1. /\ UNCHANGED queue /\ closer' \in {"joining", "closed"} /\ (failed => failed')
        /\ closer = "joining" \/ failed'
        /\ ~failed' => closer' = "closed" /\ ~writing
    BY <1>6 DEF ClosePutTimeout, CloseJoin, TypeOK
  <2>2. Len(hand) + Len(rest) <= QueueCap + 1
    <3>1. CASE failed
      BY <1>1, <1>3, <3>1 DEF Behind
    <3>2. CASE ~failed
      <4>1. Len(rest) <= Len(queue) /\ Len(queue) <= QueueCap /\ Len(hand) <= 1
        BY <1>1, <3>2, RestInQueue DEF TypeOK, JournalInv
      <4> QED BY <1>2, <4>1
    <3> QED BY <3>1, <3>2
  <2>3. Behind(rest)'
    BY <1>1, <1>3, <2>1, <2>2 DEF Behind
  <2> QED BY <1>3, <2>1, <2>3 DEF JournalInv
<1> QED BY <1>4, <1>5, <1>6 DEF Closing

-----------------------------------------------------------------------------
(* The theorems. *)

\* The strengthening is an invariant of the sink.
THEOREM SinkInvariant == Spec => []SinkInv
<1>1. Init => OneCaller /\ CloserExcludes /\ PacketCurrent /\ WireNumbering /\ RoomForRecord
  BY DEF Init, OneCaller, CloserExcludes, PacketCurrent, WireNumbering, RoomForRecord
<1>2. SinkInv /\ [Next]_vars /\ TypeOK' => SinkInv'
  BY LockStep, RoomStep, NumberStep, PacketStep DEF SinkInv
<1>3. Init /\ TypeOK => SinkInv
  BY <1>1 DEF SinkInv
<1>4. QED BY <1>2, <1>3, TypeCorrect, PTL DEF Spec

\* No call that fails, for whatever reason, burns or repeats an action sequence
\* number: the Orin sees 0, 1, 2, ...
THEOREM NumbersOnTheWire == Spec => []WireNumbering
<1>1. SinkInv => WireNumbering
  BY DEF SinkInv
<1>2. QED BY <1>1, SinkInvariant, PTL

\* Whoever has passed the availability check finds room for its audit record.
THEOREM RecordsHaveRoom == Spec => []RoomForRecord
<1>1. SinkInv => RoomForRecord
  BY DEF SinkInv
<1>2. QED BY <1>1, SinkInvariant, PTL

\* What the journal has not got yet is in the writer's hand or in the queue, or was lost
\* when the journal failed.
THEOREM JournalAccount == Spec => [](SinkInv /\ JournalInv)
<1>1. Init => JournalInv
  <2> SUFFICES ASSUME Init PROVE JournalInv
    OBVIOUS
  <2>1. << >> \in Seq(Datagram) /\ Len(<< >>) = 0 /\ ~Sending
    BY EmptySeq DEF Init, Sending
  <2>2. Behind(<< >>)
    BY <2>1, ConcatEmptySeq DEF Init, Behind
  <2>3. Len(queue) <= QueueCap
    BY <2>1, SinkAssumption DEF Init
  <2> QED BY <2>1, <2>2, <2>3 DEF JournalInv
<1>2. SinkInv /\ JournalInv /\ [Next]_vars => JournalInv'
  <2> SUFFICES ASSUME SinkInv, JournalInv, [Next]_vars PROVE JournalInv'
    OBVIOUS
  <2>1. CASE UNCHANGED vars
    BY <2>1 DEF vars, JournalInv, Behind, Sending
  <2>2. CASE Next
    BY <2>2, CallerKeepsJournal, WriterKeepsJournal, CloserKeepsJournal DEF Next, SinkInv
  <2> QED BY <2>1, <2>2
<1> QED BY <1>1, <1>2, SinkInvariant, PTL DEF Spec

\* Until the journal fails it records exactly what left the PC, once each and in order.
THEOREM AuditIsExact == Spec => []AuditExact
<1>1. SinkInv /\ JournalInv => AuditExact
  <2> SUFFICES ASSUME SinkInv, JournalInv, ~failed PROVE journal \o hand \o Records(queue) = wire
    BY DEF AuditExact
  <2>1. PICK rest \in Seq(Datagram) : Behind(rest)
    BY DEF JournalInv
  <2>2. Len(rest) \in Nat
    BY LenProperties
  <2>3. Records(queue) = rest
    <3>1. CASE queue = Append(rest, Stop)
      <4>1. rest \in Seq(Datagram \cup {Stop})
        BY SeqMonotonic
      <4>2. /\ queue # << >> /\ Len(queue) = Len(rest) + 1 /\ queue[Len(queue)] = Stop
            /\ queue \in Seq(Datagram \cup {Stop}) /\ \A i \in 1 .. Len(rest) : queue[i] = rest[i]
        BY <2>2, <3>1, <4>1, AppendProperties
      <4>3. Front(queue) = SubSeq(queue, 1, Len(rest))
        BY <2>2, <4>2 DEF Front
      <4>4. SubSeq(queue, 1, Len(rest)) = rest
        <5>1. \A i \in 1 .. Len(rest) : queue[i] \in Datagram \cup {Stop}
          BY <4>1, <4>2, ElementOfSeq
        <5>2. /\ SubSeq(queue, 1, Len(rest)) \in Seq(Datagram \cup {Stop})
              /\ Len(SubSeq(queue, 1, Len(rest))) = Len(rest)
              /\ \A i \in 1 .. Len(rest) : SubSeq(queue, 1, Len(rest))[i] = rest[i]
          BY <2>2, <4>2, <5>1, SubSeqProperties
        <5> QED BY <4>1, <5>2, SeqEqual
      <4> QED BY <4>2, <4>3, <4>4 DEF Records
    <3>2. CASE queue = rest
      <4>1. ASSUME queue # << >> PROVE queue[Len(queue)] # Stop
        <5>1. Len(queue) \in 1 .. Len(queue)
          BY <2>2, <3>2, <4>1, EmptySeq
        <5> QED BY <3>2, <5>1, ElementOfSeq, StopIsNoRecord
      <4> QED BY <3>2, <4>1 DEF Records
    <3> QED BY <2>1, <3>1, <3>2 DEF Behind
  <2> QED BY <2>1, <2>3 DEF Behind
<1> QED BY <1>1, JournalAccount, PTL

\* A failed journal has a prefix of what left the PC, and lacks no more than the queue
\* and one record; a close() that reports no error has everything on disk.
THEOREM LossIsBounded == Spec => []AuditLossBounded
<1>1. SinkInv /\ JournalInv => LossWithinQueue
  <2> SUFFICES ASSUME SinkInv, JournalInv PROVE LossWithinQueue
    OBVIOUS
  <2> USE DEF SinkInv, TypeOK
  <2>1. PICK rest \in Seq(Datagram) : Behind(rest)
    BY DEF JournalInv
  <2>2. Len(rest) \in Nat /\ Len(hand) \in Nat /\ Len(queue) \in Nat /\ Len(journal) \in Nat
    BY LenProperties
  <2>3. Len(hand) + Len(rest) <= QueueCap + 1
    <3>1. CASE failed
      BY <2>1, <2>2, <3>1, SinkAssumption DEF Behind
    <3>2. CASE ~failed
      <4>1. Len(rest) <= Len(queue) /\ Len(queue) <= QueueCap
        BY <2>1, <3>2, RestInQueue DEF JournalInv
      <4> QED BY <2>2, <4>1, SinkAssumption
    <3> QED BY <3>1, <3>2
  <2>4. /\ wire = journal \o (hand \o rest) /\ hand \o rest \in Seq(Datagram)
        /\ Len(wire) = Len(journal) + Len(hand) + Len(rest)
    <3>1. hand \o rest \in Seq(Datagram) /\ Len(hand \o rest) = Len(hand) + Len(rest)
      BY ConcatProperties
    <3>2. wire = journal \o (hand \o rest)
      <4>1. wire = (journal \o hand) \o rest
        BY <2>1, Zenon DEF Behind
      <4>2. journal \in Seq(Datagram) /\ hand \in Seq(Datagram) /\ rest \in Seq(Datagram)
        BY <2>1 DEF SinkInv, TypeOK
      <4> QED BY <4>1, <4>2, Regrouped
    <3> QED BY <2>2, <3>1, <3>2, ConcatProperties
  <2>5. SubSeq(journal, 1, Len(journal)) = SubSeq(wire, 1, Len(journal))
    <3>1. CASE Len(journal) = 0
      BY <3>1, SubSeqEmpty
    <3>2. CASE Len(journal) # 0
      <4>1. 1 \in 1 .. Len(journal) /\ Len(journal) \in 1 .. Len(journal)
        BY <2>2, <3>2
      <4> QED BY <2>4, <4>1, SubSeqOfConcat1
    <3> QED BY <3>1, <3>2
  <2> QED BY <2>2, <2>3, <2>4, <2>5 DEF LossWithinQueue, IsPrefix
<1>2. SinkInv /\ JournalInv => CloseLosesNothing
  <2> SUFFICES ASSUME SinkInv, JournalInv, closer = "closed", ~failed PROVE journal = wire
    BY DEF CloseLosesNothing
  <2>1. PICK rest \in Seq(Datagram) : Behind(rest)
    BY DEF JournalInv
  <2>2. wire = (journal \o << >>) \o << >>
    BY <2>1 DEF Behind
  <2> QED BY <2>2, ConcatEmptySeq DEF SinkInv, TypeOK
<1>3. LossWithinQueue /\ CloseLosesNothing => AuditLossBounded
  BY DEF AuditLossBounded
<1> QED BY <1>1, <1>2, <1>3, JournalAccount, PTL

\* The sink implements its promise: motion only from an open state, never from an
\* older state than before, never after a disarm, in one numbered stream.
THEOREM SinkKeepsPromise == Spec => KeepsPromise
<1>1. Init => Promise!PromiseInit
  BY DEF Init, Promise!PromiseInit
<1>2. SinkInv /\ [Next]_vars => [Promise!PromiseNext]_(Promise!promiseVars)
  <2> SUFFICES ASSUME SinkInv, [Next]_vars
               PROVE  [Promise!PromiseNext]_(Promise!promiseVars)
    OBVIOUS
  <2> USE DEF Promise!promiseVars
  <2>1. ASSUME NEW t \in Threads, SendTo(t)
        PROVE  Promise!EmitZero \/ \E s \in States : Promise!EmitMotion(s)
    <3> DEFINE d == [seq |-> actionSeq, state |-> packet[t]]
    <3>1. wire' = Append(wire, d) /\ UNCHANGED disarmed /\ actionSeq = Len(wire)
      BY <2>1 DEF SendTo, SinkInv, WireNumbering
    <3>2. CASE packet[t] = 0
      BY <3>1, <3>2 DEF Promise!EmitZero
    <3>3. CASE packet[t] # 0
      <4>1. /\ ~disarmed /\ packet[t] \in OpenStates
            /\ \A i \in DOMAIN wire : wire[i].state <= packet[t]
        BY <3>3 DEF SinkInv, PacketCurrent
      <4>2. packet[t] \in States
        BY <4>1, SinkAssumption
      <4>3. Promise!EmitMotion(packet[t])
        BY <3>1, <4>1 DEF Promise!EmitMotion
      <4>4. QED BY <4>2, <4>3
    <3>4. QED BY <3>2, <3>3
  <2>2. ASSUME NEW t \in Threads, DisarmSink(t) PROVE Promise!Disarm
    BY <2>2 DEF DisarmSink, Promise!Disarm
  <2>3. ASSUME NEW t \in Threads,
               \/ SendVelocity(t) \/ SendZero(t) \/ CheckRefuse(t)
               \/ CheckPass(t) \/ SendToFails(t)
        PROVE  UNCHANGED <<disarmed, wire>>
    BY <2>3 DEF SendVelocity, SendZero, CheckRefuse, CheckPass, SendToFails, sinkVars
  <2>4. ASSUME Writer \/ Closing \/ UNCHANGED vars
        PROVE  UNCHANGED <<disarmed, wire>>
    BY <2>4 DEF Writer, WriterTake, WriterWrite, WriterFail, Closing, CloseBegin,
                ClosePut, ClosePutTimeout, CloseJoin, sinkVars, vars
  <2>5. QED
    BY <2>1, <2>2, <2>3, <2>4 DEF Next, Caller, Promise!PromiseNext
<1>3. QED
  BY <1>1, <1>2, SinkInvariant, PTL DEF Spec, KeepsPromise, Promise!PromiseSpec
================================================================================
