\* Two runs, two polls and two health checks before the page and the shell give up.
CONSTANTS
  Sessions = {s1, s2}
  MaxPolls = 2
  MaxChecks = 2
  MaxPlans = 2
SPECIFICATION FairSpec
INVARIANTS
  ReportsAreTrue
  NoSilentWait
  NoOrphan
PROPERTY
  BackToOperator
CHECK_DEADLOCK FALSE
