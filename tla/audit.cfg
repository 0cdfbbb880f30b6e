\* Two runs of at most three events, of two ids or of one, two appends cut off.
CONSTANTS
  Runs = {a, b}
  Ids = {i, j}
  Histories <- MCHistories
  MaxLength = 3
  MaxCuts = 2
SYMMETRY Symmetry
SPECIFICATION Spec
INVARIANTS
  RunsReplayInFull
  CutsSpoilOneLineEach
  NoVerdictIsInvented
  DecisionsNotOvercounted
