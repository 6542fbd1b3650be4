CONSTANTS
  Launches = {l1}
  Wanted = {"live_production"}
  Children = {c1}
  MayHang = {"perception"}
SPECIFICATION StackSpec
INVARIANT GroupsGone
CHECK_DEADLOCK FALSE
