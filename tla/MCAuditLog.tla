----------------------------- MODULE MCAuditLog -----------------------------
(***************************************************************************)
(* AuditLog for TLC: what is left to log of a run that is denied and of    *)
(* one that is approved.                                                   *)
(***************************************************************************)
EXTENDS AuditLog, TLC

MCHistories == {<<"loop_started", "denied">>,
                <<"approved", "loop_completed">>,
                <<"loop_started", "approved", "loop_completed">>}
Symmetry == Permutations(Runs) \cup Permutations(Ids)
=============================================================================
