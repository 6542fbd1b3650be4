SPECIFICATION StreamSpec
CHECK_DEADLOCK FALSE
CONSTANTS
  Tolerance = 1
  MaxAge = 2
  Skews = {0}
  Faults = {}
  MaxTime = 9
  MaxSends = 5
INVARIANT OldStatesBlocked
