--------------------------- MODULE MCCirculation ---------------------------
(* Instances of Circulation, its queues and its reports for TLC. *)
EXTENDS CirculationQueues, Reports, TLC

\* Identities are interchangeable: no definition orders or names them.
Symmetry == Permutations(Members) \cup Permutations(Books) \cup Permutations(LoanIds) \cup Permutations(ReservationIds)
=============================================================================
