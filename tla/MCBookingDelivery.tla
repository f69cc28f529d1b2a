--------------------------- MODULE MCBookingDelivery ---------------------------
(* Small instances of BookingDelivery; bookings differ in nothing, nor do   *)
(* requests but in the order they run.                                      *)
EXTENDS BookingDelivery, TLC

Symmetry == Permutations(Bookings) \cup Permutations(Requests)

=============================================================================
