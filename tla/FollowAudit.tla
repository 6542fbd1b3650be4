------------------------------- MODULE FollowAudit -------------------------------
(***************************************************************************)
(* The evidence of a supervised Follow: FollowAuditWriter                  *)
(* (runtime_bridge/follow_audit.py), fed by the execute callback of the    *)
(* live server, which records every decision of the policy before it sends *)
(* its motion command, and closed by destroy_node()                        *)
(* (runtime_bridge/apps/live_machine_behavior_server.py).                  *)
(*                                                                         *)
(* Decisions are numbered.  A send is one step here and may fail for any   *)
(* reason; from the disarm() of destroy_node() on no motion is sent any    *)
(* more (MotionPromise, ExitQuiet of LiveBehavior).                        *)
(***************************************************************************)
EXTENDS Naturals, FiniteSets, SequencesExt

CONSTANTS
  AuditCap,     \* maxsize of the queue (2048 in the code)
  MaxDecisions  \* bound: decisions of the policy

ASSUME AuditAssumption == AuditCap \in Nat \ {0} /\ MaxDecisions \in Nat

VARIABLES
  follow,     \* the execute callback: "ready", "healthy", "checked", "recorded"
  decided,    \* _follow_audit_sequence: the decisions submitted
  moved,      \* history: decisions whose command left the PC
  pending,    \* _queue
  writer,     \* the writer thread: "opens", "waits", "journal", "snapshot", "over"
  held,       \* the record it writes
  evidence,   \* the lines of the journal; 0 is a torn line
  latest,     \* the latest snapshot; 0 is the one of an earlier process
  unhealthy,  \* _failure
  shutdown    \* destroy_node(): "none", "disarmed", "putting", "joining", "closed"

callbackVars == <<follow, decided, moved>>
diskVars     == <<writer, held, evidence, latest>>
auditVars    == <<callbackVars, diskVars, pending, unhealthy, shutdown>>

\* _STOP
Stopping == MaxDecisions + 1

AuditInit ==
  /\ follow = "ready" /\ decided = 0 /\ moved = {}
  /\ pending = << >> /\ writer = "opens" /\ held = 0 /\ evidence = << >> /\ latest = 0
  /\ unhealthy = FALSE /\ shutdown = "none"

-----------------------------------------------------------------------------
(* The execute callback.  Whenever it raises the Follow is over, and another *)
(* one may begin.                                                            *)

\* _record_follow_decision(): is_healthy
Decides ==
  /\ follow = "ready" /\ ~unhealthy /\ decided < MaxDecisions
  /\ follow' = "healthy"
  /\ UNCHANGED <<decided, moved, diskVars, pending, unhealthy, shutdown>>

\* build_follow_audit_record() finds a number that is not finite.
Invalid ==
  /\ follow = "healthy" /\ follow' = "ready"
  /\ UNCHANGED <<decided, moved, diskVars, pending, unhealthy, shutdown>>

\* submit(): closed and failed are looked at first, the record is queued after.
Closed == shutdown \in {"putting", "joining", "closed"}

SubmitChecks ==
  /\ follow = "healthy"
  /\ follow' = IF Closed \/ unhealthy THEN "ready" ELSE "checked"
  /\ UNCHANGED <<decided, moved, diskVars, pending, unhealthy, shutdown>>

Submits ==
  /\ follow = "checked" /\ Len(pending) < AuditCap
  /\ pending' = Append(pending, decided + 1)
  /\ decided' = decided + 1 /\ follow' = "recorded"
  /\ UNCHANGED <<moved, diskVars, unhealthy, shutdown>>

QueueIsFull ==
  /\ follow = "checked" /\ Len(pending) = AuditCap
  /\ unhealthy' = TRUE /\ follow' = "ready"
  /\ UNCHANGED <<decided, moved, diskVars, pending, shutdown>>

\* _send_motion()
Moves ==
  /\ follow = "recorded"
  /\ \/ shutdown = "none" /\ moved' = moved \cup {decided}
     \/ UNCHANGED moved
  /\ follow' = "ready"
  /\ UNCHANGED <<decided, diskVars, pending, unhealthy, shutdown>>

-----------------------------------------------------------------------------
(* _write_loop() *)

\* The thread's last step: a journal without a complete record is removed, the
\* one whose first record got no snapshot too.
CleansUp(failure) ==
  \E lines \in {evidence} \cup (IF writer = "journal" THEN {Append(evidence, 0)} ELSE {}) :
    \/ latest # 0 /\ evidence' = lines /\ unhealthy' = failure
    \/ latest = 0 /\ evidence' = << >> /\ unhealthy' = failure
    \/ latest = 0 /\ evidence' = lines /\ unhealthy' = TRUE

\* MUTANT: a writer whose queue was full once takes nothing more.
WriterTakesHealthy ==
  /\ writer = "waits" /\ pending # << >> /\ ~unhealthy
  /\ pending' = Tail(pending)
  /\ IF Head(pending) = Stopping
       THEN writer' = "over" /\ CleansUp(unhealthy) /\ UNCHANGED held
       ELSE writer' = "journal" /\ held' = Head(pending) /\ UNCHANGED <<evidence, unhealthy>>
  /\ UNCHANGED <<callbackVars, latest, shutdown>>

WriterTakes ==
  /\ writer = "waits" /\ pending # << >>
  /\ pending' = Tail(pending)
  /\ IF Head(pending) = Stopping
       THEN writer' = "over" /\ CleansUp(unhealthy) /\ UNCHANGED held
       ELSE writer' = "journal" /\ held' = Head(pending) /\ UNCHANGED <<evidence, unhealthy>>
  /\ UNCHANGED <<callbackVars, latest, shutdown>>

JournalOpened ==
  /\ writer = "opens" /\ writer' = "waits"
  /\ UNCHANGED <<callbackVars, held, evidence, latest, pending, unhealthy, shutdown>>

JournalWritten ==
  /\ writer = "journal" /\ writer' = "snapshot"
  /\ evidence' = Append(evidence, held)
  /\ UNCHANGED <<callbackVars, held, latest, pending, unhealthy, shutdown>>

\* Written next to it, then put in its place.
SnapshotReplaced ==
  /\ writer = "snapshot" /\ writer' = "waits"
  /\ latest' = held
  /\ UNCHANGED <<callbackVars, held, evidence, pending, unhealthy, shutdown>>

\* An OSError ends the thread; the line it wrote may be torn.
WriterFails ==
  /\ writer \in {"opens", "journal", "snapshot"} /\ writer' = "over"
  /\ CleansUp(TRUE)
  /\ UNCHANGED <<callbackVars, held, latest, pending, shutdown>>

-----------------------------------------------------------------------------
(* destroy_node(): disarm() and the zeros, the close() of the journal of the *)
(* datagrams, then the close() of this one whatever the other one raised.    *)

Disarms ==
  /\ shutdown = "none" /\ shutdown' = "disarmed"
  /\ UNCHANGED <<callbackVars, diskVars, pending, unhealthy>>

Closes ==
  /\ shutdown = "disarmed" /\ shutdown' = "putting"
  /\ UNCHANGED <<callbackVars, diskVars, pending, unhealthy>>

\* It waits for room in the queue, for ever if need be.
PutsStop ==
  /\ shutdown = "putting" /\ Len(pending) < AuditCap
  /\ pending' = Append(pending, Stopping) /\ shutdown' = "joining"
  /\ UNCHANGED <<callbackVars, diskVars, unhealthy>>

\* MUTANT: nobody looks whether the writer came to its end.
JoinsBlind ==
  /\ shutdown = "joining" /\ shutdown' = "closed"
  /\ UNCHANGED <<callbackVars, diskVars, pending, unhealthy>>

\* join() gives up on a writer that is still alive after five seconds.
Joins ==
  /\ shutdown = "joining" /\ shutdown' = "closed"
  /\ unhealthy' = (unhealthy \/ writer # "over")
  /\ UNCHANGED <<callbackVars, diskVars, pending>>

-----------------------------------------------------------------------------

FollowThread == Decides \/ Invalid \/ SubmitChecks \/ Submits \/ QueueIsFull \/ Moves
WriterWorks  == JournalOpened \/ WriterTakes \/ JournalWritten \/ SnapshotReplaced
MainThread   == Closes \/ PutsStop \/ Joins

AuditNext == FollowThread \/ WriterWorks \/ WriterFails \/ Disarms \/ MainThread

\* Threads run, and the disk answers one way or the other.
AuditFairness ==
  /\ WF_auditVars(FollowThread) /\ WF_auditVars(WriterWorks) /\ WF_auditVars(MainThread)

AuditSpec == AuditInit /\ [][AuditNext]_auditVars /\ AuditFairness

-----------------------------------------------------------------------------

\* Types.
AuditTypeOK ==
  /\ follow \in {"ready", "healthy", "checked", "recorded"}
  /\ decided \in 0 .. MaxDecisions /\ moved \subseteq 1 .. MaxDecisions
  /\ pending \in Seq(1 .. Stopping) /\ Len(pending) <= AuditCap
  /\ writer \in {"opens", "waits", "journal", "snapshot", "over"} /\ held \in 0 .. MaxDecisions
  /\ evidence \in Seq(0 .. MaxDecisions) /\ latest \in 0 .. MaxDecisions
  /\ unhealthy \in BOOLEAN
  /\ shutdown \in {"none", "disarmed", "putting", "joining", "closed"}

\* "Write every canary decision": when close() returns without an error, every
\* decision that moved the machine is in the journal, in its place, the snapshot is
\* the last one, and at no moment would a crash lose more than the queue and the
\* writer hold.
EvidenceComplete ==
  /\ shutdown = "closed" /\ ~unhealthy =>
       /\ moved \subseteq ToSet(evidence)
       /\ \A i \in DOMAIN evidence : evidence[i] = i
       /\ latest = Len(evidence)
  /\ Cardinality(moved \ ToSet(evidence)) <= AuditCap + 1

\* The close() of a node that goes down returns, though the Follow may still be
\* running, unless the writer died and left a full queue behind.
AuditCloses ==
  (shutdown = "putting") ~> \/ shutdown = "closed"
                            \/ writer = "over" /\ Len(pending) = AuditCap
==================================================================================
