SPECIFICATION FairSpec
CONSTANTS
  Setups <- AllSetups
  MaxFrames = 2
INVARIANTS
  OkMeansExecuted
  ExecutionsBounded
  ReportIsTrue
  DelayInRange
PROPERTY
  EndsUnlessSilent
CHECK_DEADLOCK FALSE
