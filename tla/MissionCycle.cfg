CONSTANTS
  m1 = m1
  m2 = m2
  Missions = {m1, m2}
  Supervisors = {m1}
  Faults = {"server", "exit"}
  Replays = {r1, r2}
  Points = {"p", "q"}
  Snapshots <- MCSnapshots
  Recordings <- MCRecordings
SPECIFICATION MCSpec
INVARIANTS StagesInOrder NoOrphan QuietIsReal DatagramsAddUp CancelBounded OneMission ReplayOutput
PROPERTIES MissionEnds
CHECK_DEADLOCK FALSE
