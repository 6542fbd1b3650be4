CONSTANTS
  f1 = f1
  f2 = f2
  d1 = d1
  j1 = j1
  Follows = {f1, f2}
  Digs = {}
  Dumps = {}
  Jogs = {j1}
  DigestOf <- SharedDigest
  IdOf <- SharedId
  Plans <- SharedPlans
  Production = TRUE
  PlanCap = 2
  TipCap = 1
  MaxAge = 1
  HbTimeout = 1
  MaxHold = 1
  ValidTicks = 2
  StopTicks = 1
  DrainTicks = 2
  MaxStates = 3
  MaxPlans = 1
  Faults = {"journal", "transport", "exit"}
SPECIFICATION Spec
CONSTRAINT ThreeScenarios
INVARIANTS PlanUsedOnce BlindMotionBounded ExitQuiet
