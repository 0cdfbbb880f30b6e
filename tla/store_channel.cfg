\* One run that asks up to three times (the limit of run_once) and starts in either of
\* two milliseconds, two callers.
CONSTANTS
  Runs = {r1}
  Clients = {c1, c2}
  Decisions = {"Approve", "Retry", "Skip"}
  NoPlan = NoPlan
  MaxClock = 1
  MaxRequests = 3
SPECIFICATION ImpatientSpec
INVARIANTS
  NoLostWakeup
  AckedIsApplied
PROPERTIES
  ImplementsChannel
  ImplementsFairChannel
CHECK_DEADLOCK FALSE
