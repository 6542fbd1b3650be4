SPECIFICATION MCSpec
CHECK_DEADLOCK FALSE
CONSTANTS
  Configs <- MCConfigs
  MaxOperations = 2
  Texts = {t1, t2}
  MaxEntries = 3
  MaxRepeat = 2
  Launches = {l1, l2}
  Wanted = {"live_shadow", "live_production"}
  Children = {c1, c2}
  MayHang = {"planner", "perception"}
  MaxMishaps = 2
  MaxGroupMishaps = 3
INVARIANTS CancelReaches NothingLeft HeartbeatStops OneCommandSink NothingLeftBehind
PROPERTIES OperationEnds SevereKept StackComesDown
