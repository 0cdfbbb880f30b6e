\* Two command-line processes and an API run of one workspace, two prompts, and two
\* milliseconds for three runs, so that some share a run id.
CONSTANTS
  CliRuns = {a, b}
  ServerRuns = {s}
  Prompts = {p, q}
  Ids = {i, j}
  NoId = NoId
  NoPrompt = NoPrompt
SYMMETRY Symmetry
VIEW WithoutAnnouncements
SPECIFICATION Spec
INVARIANTS
  CheckpointIsTrue
  EndedStaysEnded
  FailedDidNothing
CHECK_DEADLOCK FALSE
