CONSTANTS
  Setups <- SomeSetups
  PlanTokens = {120, 400}
  Faults = {"audit", "checkpoint", "approver", "executor"}
SPECIFICATION FairSpec
INVARIANTS
  GatedExecution
  BudgetRespected
  ProductionNeverOnHost
  RefusedDidNothing
  ReplayAgrees
PROPERTIES
  ImplementsGuardedRun
  Terminates
CHECK_DEADLOCK FALSE
