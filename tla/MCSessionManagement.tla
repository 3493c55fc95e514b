------------------------- MODULE MCSessionManagement -------------------------
(* Model values, bounds and symmetry for SessionManagement. *)
EXTENDS SessionManagement, TLC

(* Tokens, lineages and handler instances are interchangeable. *)
Symmetry == Permutations(Hashes) \cup Permutations(Families) \cup Permutations(Requests)
=============================================================================
