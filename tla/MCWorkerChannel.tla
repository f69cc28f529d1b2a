---------------------------- MODULE MCWorkerChannel ----------------------------
(***************************************************************************)
(* Small instances of WorkerChannel.  Connections differ only in the order *)
(* they are made.                                                          *)
(***************************************************************************)
EXTENDS WorkerChannel, TLC

Symmetry == Permutations(Conns)

=============================================================================
