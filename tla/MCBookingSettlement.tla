-------------------------- MODULE MCBookingSettlement --------------------------
(***************************************************************************)
(* Small instances of BookingSettlement.  Requests differ only in the      *)
(* order they run, bookings in nothing unless one starts without wallets.  *)
(***************************************************************************)
EXTENDS BookingSettlement, TLC

Symmetry == Permutations(Requests)

=============================================================================
