-------------------------- MODULE MCCirculationTxn --------------------------
(* Instances of CirculationTxn for TLC. *)
EXTENDS CirculationTxn, TLC

Symmetry ==
    Permutations(Members) \cup Permutations(Books) \cup Permutations(LoanIds)
    \cup Permutations(ReservationIds) \cup Permutations(Requests)
=============================================================================
