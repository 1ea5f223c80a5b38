-------------------------- MODULE MCTokenRotation --------------------------
(* Instances of TokenRotation for TLC. *)
EXTENDS TokenRotation, TLC

Symmetry ==
    Permutations(Users) \cup Permutations(Families) \cup Permutations(Tokens)
    \cup Permutations(Requests)
=============================================================================
