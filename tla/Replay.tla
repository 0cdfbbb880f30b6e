------------------------------- MODULE Replay -------------------------------
(***************************************************************************)
(* What `ozr replay` reports of a run from its lines in the audit log      *)
(* (classify_run, src/core/replay.rs).                                     *)
(*                                                                         *)
(* A line is an event and whether the reader can parse it: append only     *)
(* replaces double quotes (src/core/audit.rs), so a text with a backslash  *)
(* or a line break makes a line that is not JSON, and load_runs skips it.  *)
(***************************************************************************)
EXTENDS Sequences, FiniteSetsExt

Line(event, readable) == [event |-> event, readable |-> readable]

\* The lines load_runs gets out of a log.
ReadLines(log) == {i \in DOMAIN log : log[i].readable}

\* The events classify_run matches in its loop.
DecisiveEvents == {"loop_completed", "denied", "skipped", "loop_failed"}
DecisiveLines(log) == {i \in ReadLines(log) : log[i].event \in DecisiveEvents}

Verdict(outcome, reason) == [outcome |-> outcome, reason |-> reason]

VerdictOf(event) ==
  CASE event = "loop_completed" -> Verdict("Completed", "none")
    [] event = "denied" -> Verdict("Denied", "denied")
    [] event = "skipped" -> Verdict("Skipped", "skipped")
    [] event = "loop_failed" -> Verdict("Incomplete", "loop_failed")

\* `ozr replay <run>` on that run's lines, by classify_run: the last decisive event
\* wins; without one, a run that started was interrupted.  (The faulty one looks for
\* a completion only.)
ReplayCompletion(log) ==
  IF \E i \in ReadLines(log) : log[i].event = "loop_completed"
    THEN Verdict("Completed", "none") ELSE Verdict("Incomplete", "interrupted")
ReplayOf(log) ==
  IF DecisiveLines(log) # {} THEN VerdictOf(log[Max(DecisiveLines(log))].event)
  ELSE IF \E i \in ReadLines(log) : log[i].event = "loop_started"
    THEN Verdict("Incomplete", "interrupted")
    ELSE Verdict("Unknown", "none")

=============================================================================
