------------------------------ MODULE CommandSink ------------------------------
(***************************************************************************)
(* The one place where the PC hands a datagram to the network:             *)
(* MotionCommandSink (runtime_bridge/live_control.py) over                 *)
(* RecordedUdpSender and its journal writer thread                         *)
(* (runtime_bridge/action_journal.py).                                     *)
(*                                                                         *)
(* Callers are threads: the execute callback of the behaviour that owns    *)
(* the lease, and the main thread inside destroy_node().  A call holds the *)
(* sink's lock from the decision to the return of sendto(); inside it the  *)
(* sender's own lock covers availability check, sendto() and the enqueue   *)
(* of the audit record, which a separate thread writes to disk.  The steps *)
(* below cut those regions where another thread can get in between.        *)
(***************************************************************************)
EXTENDS Naturals, Sequences, SequencesExt

CONSTANTS
  Threads,       \* the callers of the sink
  States,        \* sequence numbers of the Machine States a caller may pass
  OpenStates,    \* those for which evaluate_motion_state() allows motion
  QueueCap,      \* maxsize of the audit queue (8192 in the code)
  Stop,          \* the stop token close() queues behind the last record
  MaxWire        \* bound: datagrams a behaviour of the model may emit

ASSUME SinkAssumption ==
  /\ States \subseteq Nat \ {0}
  /\ OpenStates \subseteq States
  /\ QueueCap \in Nat \ {0}
  /\ MaxWire \in Nat
  /\ Stop \notin [seq : Nat, state : States \cup {0}]

VARIABLES
  disarmed,      \* MotionCommandSink._disarmed
  lastStateSeq,  \* MotionCommandSink._last_state_seq, 0 for None
  actionSeq,     \* _action_seq and _action_datagrams, always advanced together
  pc,            \* per caller: where it is inside a call
  packet,        \* per caller: the state of the packet it is about to send
  queue,         \* RecordedUdpSender._queue: audit records and the stop token
  hand,          \* the record the writer took and has not written yet
  journal,       \* records in the journal files, oldest first
  failed,        \* RecordedUdpSender._writer_failed
  closer,        \* progress of close(): none, putting, joining, closed
  writing,       \* the writer thread is in its loop
  wire           \* every datagram that left the socket, oldest first

vars == <<disarmed, lastStateSeq, actionSeq, pc, packet, queue, hand, journal,
          failed, closer, writing, wire>>

sinkVars    == <<disarmed, lastStateSeq, actionSeq>>
callerVars  == <<pc, packet>>
journalVars == <<queue, hand, journal, failed, closer, writing>>

Datagram == [seq : Nat, state : States \cup {0}]

\* The audit records of the queue: the stop token can only be its last item.
Records(q) == IF q # << >> /\ q[Len(q)] = Stop THEN Front(q) ELSE q

Init ==
  /\ disarmed = FALSE /\ lastStateSeq = 0 /\ actionSeq = 0
  /\ pc = [t \in Threads |-> "idle"] /\ packet = [t \in Threads |-> 0]
  /\ queue = << >> /\ hand = << >> /\ journal = << >>
  /\ failed = FALSE /\ closer = "none" /\ writing = TRUE
  /\ wire = << >>

-----------------------------------------------------------------------------
(* The two locks: a caller inside a call holds MotionCommandSink._send_lock, *)
(* one past the availability check holds RecordedUdpSender._send_lock too,   *)
(* and so does close() while it puts the stop token.                         *)

SinkFree   == \A t \in Threads : pc[t] = "idle"
SenderFree == closer # "putting" /\ \A t \in Threads : pc[t] # "sending"

Enter(t, s) ==
  /\ pc[t] = "idle" /\ SinkFree
  /\ pc' = [pc EXCEPT ![t] = "decided"]
  /\ packet' = [packet EXCEPT ![t] = s]

\* MUTANT: the state handed in may be older than one the sink has seen.
AllowedOlder(s, fresh, inside) == ~disarmed /\ fresh /\ s \in OpenStates /\ inside

\* send_velocity(): the gate decision for a state of sequence number s.
Allowed(s, fresh, inside) ==
  /\ ~disarmed
  /\ s >= lastStateSeq
  /\ fresh
  /\ s \in OpenStates
  /\ inside

SendVelocity(t) ==
  \E s \in States, fresh \in BOOLEAN, inside \in BOOLEAN :
    /\ Enter(t, IF Allowed(s, fresh, inside) THEN s ELSE 0)
    /\ lastStateSeq' = IF s > lastStateSeq THEN s ELSE lastStateSeq
    /\ UNCHANGED <<disarmed, actionSeq, wire, journalVars>>

SendZero(t) ==
  /\ Enter(t, 0)
  /\ UNCHANGED <<sinkVars, wire, journalVars>>

DisarmSink(t) ==
  /\ Enter(t, 0)
  /\ disarmed' = TRUE
  /\ UNCHANGED <<lastStateSeq, actionSeq, wire, journalVars>>

\* RecordedUdpSender.send(): refuse before sendto() when closed, when the
\* writer failed or when the queue is full ...
Leave(t) == pc' = [pc EXCEPT ![t] = "idle"] /\ packet' = [packet EXCEPT ![t] = 0]

\* MUTANT: a failed journal no longer refuses.
AvailableFailed == closer = "none" /\ Len(queue) < QueueCap

Available == closer = "none" /\ ~failed /\ Len(queue) < QueueCap

CheckRefuse(t) ==
  /\ pc[t] = "decided" /\ SenderFree /\ ~Available
  /\ Leave(t)
  /\ UNCHANGED <<sinkVars, wire, journalVars>>

CheckPass(t) ==
  /\ pc[t] = "decided" /\ SenderFree /\ Available
  /\ Len(wire) < MaxWire
  /\ pc' = [pc EXCEPT ![t] = "sending"]
  /\ UNCHANGED <<sinkVars, packet, wire, journalVars>>

\* ... then sendto(), the record, and the sink's counters.
SendTo(t) ==
  LET d == [seq |-> actionSeq, state |-> packet[t]] IN
    /\ pc[t] = "sending"
    /\ wire' = Append(wire, d)
    /\ queue' = Append(queue, d)
    /\ actionSeq' = actionSeq + 1
    /\ Leave(t)
    /\ UNCHANGED <<disarmed, lastStateSeq, hand, journal, failed, closer, writing>>

\* MUTANTS: the number is taken, or the record queued, before sendto() raises.
SendToFailsCounted(t) ==
  /\ pc[t] = "sending" /\ Leave(t)
  /\ actionSeq' = actionSeq + 1
  /\ UNCHANGED <<disarmed, lastStateSeq, wire, journalVars>>
SendToFailsRecorded(t) ==
  /\ pc[t] = "sending" /\ Leave(t)
  /\ queue' = Append(queue, [seq |-> actionSeq, state |-> packet[t]])
  /\ UNCHANGED <<sinkVars, wire, hand, journal, failed, closer, writing>>

SendToFails(t) ==
  /\ pc[t] = "sending"
  /\ Leave(t)
  /\ UNCHANGED <<sinkVars, wire, journalVars>>

-----------------------------------------------------------------------------
(* The journal writer thread. *)

WriterTake ==
  /\ writing /\ hand = << >> /\ queue # << >>
  /\ queue' = Tail(queue)
  /\ IF Head(queue) = Stop
       THEN writing' = FALSE /\ UNCHANGED hand
       ELSE hand' = (IF failed THEN << >> ELSE <<Head(queue)>>) /\ UNCHANGED writing
  /\ UNCHANGED <<journal, failed, closer, wire, sinkVars, callerVars>>

WriterWrite ==
  /\ hand # << >>
  /\ journal' = journal \o hand
  /\ hand' = << >>
  /\ UNCHANGED <<queue, failed, closer, writing, wire, sinkVars, callerVars>>

\* An OSError while rotating, writing or pruning: permanent.
WriterFail ==
  /\ hand # << >>
  /\ failed' = TRUE
  /\ hand' = << >>
  /\ UNCHANGED <<queue, journal, closer, writing, wire, sinkVars, callerVars>>

-----------------------------------------------------------------------------
(* close(), called once the node is going down. *)

CloseBegin ==
  /\ closer = "none" /\ SenderFree
  /\ closer' = "putting"
  /\ UNCHANGED <<queue, hand, journal, failed, writing, wire, sinkVars, callerVars>>

ClosePut ==
  /\ closer = "putting" /\ Len(queue) < QueueCap
  /\ queue' = Append(queue, Stop)
  /\ closer' = "joining"
  /\ UNCHANGED <<hand, journal, failed, writing, wire, sinkVars, callerVars>>

\* queue.Full after five seconds.
ClosePutTimeout ==
  /\ closer = "putting" /\ Len(queue) = QueueCap
  /\ failed' = TRUE
  /\ closer' = "joining"
  /\ UNCHANGED <<queue, hand, journal, writing, wire, sinkVars, callerVars>>

\* MUTANT: join() gave up and nobody notices.
CloseJoinBlind ==
  /\ closer = "joining" /\ closer' = "closed"
  /\ UNCHANGED <<queue, hand, journal, failed, writing, wire, sinkVars, callerVars>>

\* join() returned, or gave up on a writer that is still alive after five
\* seconds; either way the endpoint lock is released.
CloseJoin ==
  /\ closer = "joining"
  /\ closer' = "closed"
  /\ failed' = (failed \/ writing)
  /\ UNCHANGED <<queue, hand, journal, writing, wire, sinkVars, callerVars>>

-----------------------------------------------------------------------------

Caller(t) == \/ SendVelocity(t) \/ SendZero(t) \/ DisarmSink(t)
             \/ CheckRefuse(t) \/ CheckPass(t) \/ SendTo(t) \/ SendToFails(t)
Writer    == WriterTake \/ WriterWrite \/ WriterFail
Closing   == CloseBegin \/ ClosePut \/ ClosePutTimeout \/ CloseJoin

Next == (\E t \in Threads : Caller(t)) \/ Writer \/ Closing

Spec == Init /\ [][Next]_vars

-----------------------------------------------------------------------------

TypeOK ==
  /\ disarmed \in BOOLEAN
  /\ lastStateSeq \in States \cup {0}
  /\ actionSeq \in Nat
  /\ pc \in [Threads -> {"idle", "decided", "sending"}]
  /\ packet \in [Threads -> States \cup {0}]
  /\ queue \in Seq(Datagram \cup {Stop})
  /\ hand \in Seq(Datagram) /\ Len(hand) <= 1
  /\ journal \in Seq(Datagram)
  /\ failed \in BOOLEAN /\ writing \in BOOLEAN
  /\ closer \in {"none", "putting", "joining", "closed"}
  /\ wire \in Seq(Datagram)

\* The Orin sees 0, 1, 2, ... whatever calls failed in between: a refused or
\* failed send never burns or repeats a sequence number.
WireNumbering ==
  /\ actionSeq = Len(wire)
  /\ \A i \in DOMAIN wire : wire[i].seq = i - 1

\* Exactly the datagrams that left the PC are recorded, once each and in
\* order, as long as the journal has not failed.
AuditExact == ~failed => journal \o hand \o Records(queue) = wire

\* A failed journal loses a suffix of the stream, never a hole in it, and
\* never more than what a full queue and the writer's hand can hold, even for
\* the send that passed the availability check just before the failure.
LossWithinQueue == IsPrefix(journal, wire) /\ Len(wire) - Len(journal) <= QueueCap + 1

\* put_nowait() after sendto() never finds the queue full, so no datagram is
\* on the wire whose caller was told that the send failed.
RoomForRecord == \A t \in Threads : pc[t] = "sending" => Len(queue) < QueueCap

\* When close() returns without an error every datagram is on disk.
CloseLosesNothing == closer = "closed" /\ ~failed => journal = wire

\* What the journal lacks is bounded while it is written, and nothing once it is closed.
AuditLossBounded == LossWithinQueue /\ CloseLosesNothing

\* The sink keeps the promise of MotionPromise to its callers: the lock makes
\* every decision take effect before a later disarm() or a newer state.
Promise == INSTANCE MotionPromise
KeepsPromise == Promise!PromiseSpec

-----------------------------------------------------------------------------
(* The strengthening of WireNumbering, RoomForRecord and KeepsPromise that is *)
(* inductive (see CommandSinkProofs).                                         *)

\* The sink's lock admits one caller; outside a call no packet is pending.
OneCaller ==
  /\ \A t, u \in Threads : pc[t] # "idle" /\ pc[u] # "idle" => t = u
  /\ \A t \in Threads : pc[t] = "idle" => packet[t] = 0

\* close() and a send exclude one another on the sender's lock.
CloserExcludes == closer = "putting" => \A t \in Threads : pc[t] # "sending"

\* A pending motion packet carries the newest state the sink has seen, an open
\* one, and no disarm came before it; nothing on the wire is newer.
PacketCurrent ==
  /\ \A t \in Threads : packet[t] # 0 =>
       ~disarmed /\ packet[t] \in OpenStates /\ packet[t] = lastStateSeq
  /\ \A i \in DOMAIN wire : wire[i].state <= lastStateSeq

SinkInv == TypeOK /\ OneCaller /\ CloserExcludes /\ PacketCurrent
             /\ WireNumbering /\ RoomForRecord
================================================================================
