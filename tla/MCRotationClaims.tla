-------------------------- MODULE MCRotationClaims --------------------------
(* Model values and symmetry for RotationClaims. *)
EXTENDS RotationClaims, TLC

Symmetry == Permutations(Hashes) \cup Permutations(Families) \cup Permutations(Requests)
=============================================================================
