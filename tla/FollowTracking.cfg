CONSTANTS
  Tolerance = 1
  MaxAge = 1
  Skews <- MCSkews
  Faults = {"restart", "delay", "loss", "reorder"}
  MaxTime = 13
  MaxSends = 5
  Tips <- MCTips
  Waypoints = 2
  Dwell = 1
  Timeout = 2
  TurnTicks = 1
  Axes <- MCAxes
  Limit = 1
  Poses <- MCPoses
  Steps <- MCSteps
  PoseTolerance = 0
  StepTimeout = 2
  Hold = 1
  TipTicks = 1
  Commissioning = {"first"}
  Production = {"second"}
  Profiles = {1, 2}
  Urdfs = {1, 2}
  Powers = {1}
  Postures = {"near", "far"}
  Contracts <- MCContracts
  MaxEdits = 5
SPECIFICATION MCSpec
INVARIANTS TransitBounded SuccessMeansDwelt EndsInTime NewSamplesOnly
INVARIANTS StepsCarriedOut FixedEndsInTime RunsAsExercised
PROPERTY AcceptedInOrder
CHECK_DEADLOCK FALSE
