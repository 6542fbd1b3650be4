------------------------------- MODULE StateStream -------------------------------
(***************************************************************************)
(* How Machine States reach the live server: the Orin stamps them with its *)
(* own clock, the network and the socket's buffer hold them, and the       *)
(* receiver thread of runtime_bridge/apps/live_machine_behavior_server.py  *)
(* accepts those whose provenance it believes                              *)
(* (runtime_bridge/live_control.py, evaluate_state_provenance).            *)
(*                                                                         *)
(* Time is the PC's, in ticks; its wall clock and its monotonic clock      *)
(* agree.  The Orin and the network are not part of the repository's       *)
(* runtime: they do what Faults lets them do.                              *)
(***************************************************************************)
EXTENDS Integers, SequencesExt

CONSTANTS
  Tolerance,   \* clock_offset_tolerance_ms
  MaxAge,      \* machine_state_timeout_ms
  Skews,       \* Orin clock minus PC clock, chosen when the Orin boots
  Faults,      \* what goes wrong: see the actions
  MaxTime,     \* bound: the last tick
  MaxSends     \* bound: Machine States per boot of the Orin

ASSUME StreamAssumption ==
  /\ Tolerance \in Nat /\ MaxAge \in Nat /\ MaxTime \in Nat /\ MaxSends \in Nat
  /\ Skews \subseteq Int /\ Skews # {}
  /\ Faults \subseteq {"restart", "delay", "loss", "reorder"}

VARIABLES
  now,           \* the PC's clock
  skew,          \* of the Orin's clock
  boots,         \* restarts of the Orin so far
  sent,          \* sequence number of the Orin's last state
  flight,        \* states on their way, those in the socket's buffer included
  receiving,     \* the receiver thread runs
  lastSeq,       \* _last_remote_state_seq; 0 is None
  lastStamp,     \* _last_remote_state_stamp_ms; 0 is None
  clockOffset,   \* _remote_clock_offset_ms, once a state has been accepted
  latestState,   \* _latest_state
  stateSequence, \* _state_sequence
  firstState,    \* history: the first state accepted
  stepped        \* history: the Orin's clock was stepped by a restart

orinVars   == <<skew, boots, sent, stepped>>
serverVars == <<lastSeq, lastStamp, clockOffset, latestState, stateSequence, firstState>>
streamVars == <<now, flight, receiving, orinVars, serverVars>>

\* The clock starts late enough for every stamp to be positive.
Dawn == 4
Packet == [seq : 1 .. MaxSends, stamp : Int, made : Nat]
\* A sample is a packet and the time it was received; at = 0 is no sample.
NoSample == [seq |-> 0, stamp |-> 0, made |-> 0, at |-> 0]

StreamInit ==
  /\ now = Dawn /\ skew \in Skews /\ boots = 0 /\ sent = 0 /\ stepped = FALSE
  /\ flight = << >> /\ receiving = FALSE
  /\ lastSeq = 0 /\ lastStamp = 0 /\ clockOffset = 0
  /\ latestState = NoSample /\ stateSequence = 0 /\ firstState = NoSample

-----------------------------------------------------------------------------
(* The Orin and the network. *)

\* At most one state a tick.
OrinSends ==
  /\ sent < MaxSends
  /\ \A i \in DOMAIN flight : flight[i].made # now
  /\ latestState.made # now
  /\ sent' = sent + 1
  /\ flight' = Append(flight, [seq |-> sent', stamp |-> now + skew, made |-> now])
  /\ UNCHANGED <<now, receiving, skew, boots, stepped, serverVars>>

\* Its numbers start again, its clock may come back different.
OrinRestarts ==
  /\ "restart" \in Faults /\ boots = 0
  /\ boots' = 1 /\ sent' = 0
  /\ skew' \in Skews /\ stepped' = (skew' # skew)
  /\ UNCHANGED <<now, flight, receiving, serverVars>>

Loses ==
  /\ "loss" \in Faults /\ flight # << >>
  /\ flight' = Tail(flight)
  /\ UNCHANGED <<now, receiving, orinVars, serverVars>>

\* Without "delay" the receiver, once it runs, empties the buffer at once.
TimePasses ==
  /\ now < MaxTime
  /\ receiving /\ "delay" \notin Faults => flight = << >>
  /\ now' = now + 1
  /\ UNCHANGED <<flight, receiving, orinVars, serverVars>>

-----------------------------------------------------------------------------
(* The server. *)

\* The socket is bound early in __init__(), the thread started at its end; what
\* comes in between waits in the buffer.
StartReceiver ==
  /\ ~receiving /\ receiving' = TRUE
  /\ UNCHANGED <<now, flight, orinVars, serverVars>>

Distance(a, b) == IF a < b THEN b - a ELSE a - b

\* MUTANT: stamps may go back.
ProvenanceUnstamped(p) ==
  /\ p.stamp > 0
  /\ lastSeq # 0 => /\ p.seq > lastSeq
                    /\ Distance(p.stamp - now, clockOffset) <= Tolerance

\* evaluate_state_provenance(); packets of another source or machine, which it
\* drops as well, leave no trace and are left out.
Provenance(p) ==
  /\ p.stamp > 0
  /\ lastSeq # 0 => /\ p.seq > lastSeq /\ p.stamp > lastStamp
                    /\ Distance(p.stamp - now, clockOffset) <= Tolerance

\* MUTANT: every accepted state sets the expected offset anew.
AcceptRebased(p) ==
  LET sample == [seq |-> p.seq, stamp |-> p.stamp, made |-> p.made, at |-> now] IN
  /\ lastSeq' = p.seq /\ lastStamp' = p.stamp
  /\ clockOffset' = p.stamp - now
  /\ latestState' = sample /\ stateSequence' = stateSequence + 1
  /\ firstState' = IF lastSeq = 0 THEN sample ELSE firstState

\* The first accepted state fixes the offset that is expected of all others.
Accept(p) ==
  LET sample == [seq |-> p.seq, stamp |-> p.stamp, made |-> p.made, at |-> now] IN
  /\ lastSeq' = p.seq /\ lastStamp' = p.stamp
  /\ clockOffset' = IF lastSeq = 0 THEN p.stamp - now ELSE clockOffset
  /\ latestState' = sample /\ stateSequence' = stateSequence + 1
  /\ firstState' = IF lastSeq = 0 THEN sample ELSE firstState

\* One turn of _receive_states().
Receive ==
  /\ receiving
  /\ \E i \in DOMAIN flight :
       /\ i = 1 \/ "reorder" \in Faults
       /\ flight' = RemoveAt(flight, i)
       /\ IF Provenance(flight[i]) THEN Accept(flight[i]) ELSE UNCHANGED serverVars
  /\ UNCHANGED <<now, receiving, orinVars>>

StreamNext ==
  OrinSends \/ OrinRestarts \/ Loses \/ TimePasses \/ StartReceiver \/ Receive

StreamSpec == StreamInit /\ [][StreamNext]_streamVars

-----------------------------------------------------------------------------

\* _state_age_s() against the limit: the age counts from the receipt.
Fresh(sample) == sample.at # 0 /\ now - sample.at <= MaxAge

\* How long a sample was on its way.
Transit(sample) == sample.at - sample.made

Sample == [seq : 0 .. MaxSends, stamp : Int, made : Nat, at : Nat]

StreamTypeOK ==
  /\ now \in Dawn .. MaxTime /\ skew \in Skews /\ boots \in 0 .. 1 /\ sent \in 0 .. MaxSends
  /\ flight \in Seq(Packet) /\ receiving \in BOOLEAN /\ stepped \in BOOLEAN
  /\ lastSeq \in 0 .. MaxSends /\ lastStamp \in Int /\ clockOffset \in Int
  /\ latestState \in Sample /\ firstState \in Sample
  /\ stateSequence \in 0 .. 2 * MaxSends

\* While the Orin's clock is not stepped, states are accepted in the order in
\* which they were made, whatever the network does and although the Orin's
\* sequence numbers start again when it restarts.
AcceptedInOrder ==
  [][latestState' # latestState /\ ~stepped => latestState'.made > latestState.made]_streamVars

\* While the Orin's clock is not stepped, no state is accepted that was longer on
\* its way than the first one by more than the tolerance: what _receive_states()
\* takes for fresh is at most that much older than it looks.
TransitBounded ==
  ~stepped => Transit(latestState) <= Transit(firstState) + Tolerance

\* docs/runtime_bridge_protocol.md: both stages block a Machine State that is too
\* old.  On a network without delays, a state that counts as fresh was made no
\* longer ago than the age limit and the tolerance allow.
OldStatesBlocked ==
  Fresh(latestState) => now - latestState.made <= MaxAge + Tolerance
==================================================================================
