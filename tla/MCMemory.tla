------------------------------ MODULE MCMemory ------------------------------
(***************************************************************************)
(* Memory for TLC.                                                         *)
(***************************************************************************)
EXTENDS Memory, TLC

CONSTANTS s, f, e
MCLineCount == s :> 2
Symmetry == Permutations(Procs)
=============================================================================
