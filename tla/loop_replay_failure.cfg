CONSTANTS
  Setups <- OpenSetups
  PlanTokens = {400}
  Faults = {"executor"}
SPECIFICATION Spec
INVARIANT ReplayShowsFailure
CHECK_DEADLOCK FALSE
