CONSTANTS
  Threads = {t1, t2}
  States = {1, 2, 3}
  OpenStates = {1, 3}
  QueueCap = 2
  Stop = Stop
  MaxWire = 4
  AuditCap = 2
  MaxDecisions = 5
SPECIFICATION MCSpec
INVARIANTS WireNumbering AuditExact AuditLossBounded EvidenceComplete
PROPERTIES KeepsPromise AuditCloses
CHECK_DEADLOCK FALSE
