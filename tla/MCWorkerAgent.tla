----------------------------- MODULE MCWorkerAgent -----------------------------
(* Small instances of WorkerAgent; bookings differ in nothing. *)
EXTENDS WorkerAgent, TLC

Symmetry == Permutations(Bookings)

=============================================================================
