--------------------------- MODULE MCRecoveryLoop ---------------------------
(* Instances of RecoveryLoop for TLC. *)
EXTENDS RecoveryLoop, TLC

Symmetry == Permutations(Callers) \cup Permutations(Workers)
=============================================================================
