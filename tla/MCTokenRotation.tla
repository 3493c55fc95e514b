--------------------------- MODULE MCTokenRotation ---------------------------
(* Model values, bounds and symmetry for TokenRotation. *)
EXTENDS TokenRotation, TLC

(* Tokens, lineages and handler instances are interchangeable. *)
Symmetry == Permutations(Hashes) \cup Permutations(Families) \cup Permutations(Requests)
=============================================================================
