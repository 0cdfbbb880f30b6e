CONSTANTS
  Runs = {r1}
  Clients = {c1, c2}
  Decisions = {"Approve", "Retry"}
  NoPlan = NoPlan
  MaxClock = 0
  MaxRequests = 2
SPECIFICATION Spec
INVARIANT ReviewedPlanIsDecided
CHECK_DEADLOCK FALSE
