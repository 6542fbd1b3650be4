CONSTANTS
  f1 = f1
  f2 = f2
  d1 = d1
  j1 = j1
  Follows = {f1}
  Digs = {d1}
  Dumps = {}
  Jogs = {}
  DigestOf <- OwnDigest
  IdOf <- OwnId
  Plans <- OwnPlans
  Production = TRUE
  PlanCap = 2
  TipCap = 1
  MaxAge = 1
  HbTimeout = 1
  MaxHold = 1
  ValidTicks = 2
  StopTicks = 1
  DrainTicks = 2
  MaxStates = 2
  MaxPlans = 1
  Faults = {"transport"}
SPECIFICATION Spec
INVARIANTS QuiescenceReal
PROPERTIES KeepsLease
