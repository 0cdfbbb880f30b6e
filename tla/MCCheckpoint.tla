---------------------------- MODULE MCCheckpoint ----------------------------
(* Instances of Checkpoint for TLC. *)
EXTENDS Checkpoint, TLC

\* Processes, tasks, prompts and run ids are interchangeable.
Symmetry ==
  UNION {Permutations(set) : set \in {CliRuns, ServerRuns, Prompts, Ids}}

\* What was announced and taken up changes nothing that follows.
WithoutAnnouncements == <<file, buf, opened, pc, prompt, id, acted, result>>
=============================================================================
