SPECIFICATION MCSpec
CHECK_DEADLOCK FALSE
CONSTANTS
  p1 = p1
  p2 = p2
  f1 = f1
  h1 = h1
  c1 = c1
  c2 = c2
  Follows = {f1}
  Homes = {h1}
  Plans = {p1, p2}
  Previews = {c1, c2}
  Nothing = Nothing
  OwnPlan = p1
  OwnFollow = f1
  MaxCrashes = 1
INVARIANTS OutputsOfOneRun ClientLeavesNothing
PROPERTIES ShadowKeepsLease StatusCatchesUp
