--------------------------- MODULE MCSessionStore ---------------------------
(* Instances of SessionStore for TLC. *)
EXTENDS SessionStore, TLC

\* Clients are interchangeable; sound where only safety is checked.
ClientSymmetry == Permutations(Clients)
=============================================================================
