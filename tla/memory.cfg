\* Two processes, one file of two lines that the old store, if there is one, has
\* indexed, and one session event and one fact of the old store.
CONSTANTS
  Procs = {p, q}
  s = s
  f = f
  e = e
  Sources = {s}
  LineCount <- MCLineCount
  OldSources = {s}
  OldFacts = {f}
  OldEvents = {e}
  MaxItems = 2
  MaxTokens = 2
SYMMETRY Symmetry
SPECIFICATION Spec
INVARIANTS
  SearchableIsStored
  MarkedIsIndexed
  OldStoreKept
  IndexedOnce
  LogKnowsFirst
  RecallWithinBudget
PROPERTY
  IndexNeverShrinks
CHECK_DEADLOCK FALSE
