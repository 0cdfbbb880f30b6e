\* Every pack, mode and sandboxd wiring; catalogs of at most two of seven tools.
CONSTANTS
  TokenLimits = {2000}
  IterationLimits = {5}
  SecondLimits = {15}
  Tools <- MCTools
  WordsOf <- MCWordsOf
  MaxCatalog = 2
SPECIFICATION PlanningSpec
INVARIANTS
  RequiredSandboxIsWired
  UnaskedPlansAreReads
CHECK_DEADLOCK FALSE
