--------------------------- MODULE MCSessionScope ---------------------------
(* Requests and pool threads are interchangeable. *)
EXTENDS SessionScope, TLC

Symmetry == Permutations(Requests) \cup Permutations(Threads)
=============================================================================
