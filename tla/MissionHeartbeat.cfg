CONSTANTS
  Missions = {m1}
  Supervisors = {}
  Faults = {}
SPECIFICATION Spec
INVARIANT FollowStageSupervised
CHECK_DEADLOCK FALSE
