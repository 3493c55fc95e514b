--------------------------- MODULE MCSessionClaims ---------------------------
(* Model values, bounds and symmetry for SessionClaims. *)
EXTENDS SessionClaims, TLC

(* Tokens, lineages and handler instances are interchangeable. *)
Symmetry == Permutations(Hashes) \cup Permutations(Families) \cup Permutations(Requests)
=============================================================================
