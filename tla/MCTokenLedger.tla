---------------------------- MODULE MCTokenLedger ----------------------------
(* Model values and symmetry for TokenLedger. *)
EXTENDS TokenLedger, TLC

Symmetry == Permutations(Hashes) \cup Permutations(Families) \cup Permutations(Requests)
=============================================================================
