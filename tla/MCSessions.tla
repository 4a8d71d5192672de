----------------------------- MODULE MCSessions -----------------------------
(* The symmetry of Sessions' tasks. *)
EXTENDS Sessions, TLC

MCSymmetry == Permutations(Tasks)

=============================================================================
