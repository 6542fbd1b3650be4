-------------------------------- MODULE MCJournals -------------------------------
(***************************************************************************)
(* The two journals of the live server, each on its own.                   *)
(***************************************************************************)
EXTENDS CommandSink, FollowAudit

VARIABLE scenario

MCVars == <<vars, auditVars, scenario>>

MCInit == Init /\ AuditInit /\ scenario \in {"sink", "audit"}

MCNext ==
  /\ \/ scenario = "sink" /\ Next /\ UNCHANGED auditVars
     \/ scenario = "audit" /\ AuditNext /\ UNCHANGED vars
  /\ UNCHANGED scenario

Audit(A) == scenario = "audit" /\ A /\ UNCHANGED <<vars, scenario>>

MCSpec ==
  /\ MCInit /\ [][MCNext]_MCVars
  /\ WF_MCVars(Audit(FollowThread)) /\ WF_MCVars(Audit(WriterWorks)) /\ WF_MCVars(Audit(MainThread))
==================================================================================
