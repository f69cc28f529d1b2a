----------------------------- MODULE MCClawEscrow -----------------------------
(***************************************************************************)
(* Small instances of ClawEscrow.  The units are scaled down so that every *)
(* rounding case occurs with a handful of base units: with 4 base units to *)
(* the cent and 3 seconds to the hour, a booking of 1 second at rate 1     *)
(* locks 2 and costs 1, one of 2 seconds locks 3 and costs 1 or 2; with a  *)
(* base of 2 for the commission the cap is one half and a cost of 1 still  *)
(* rounds to no commission.                                                *)
(***************************************************************************)
EXTENDS ClawEscrow, TLC

CONSTANTS Funded, Funds     \* the accounts that own USDC, and how much each

MCWallet == [a \in Accounts |-> IF a \in Funded THEN Funds ELSE 0]

Symmetry == Permutations(Funded) \cup Permutations(Accounts \ Funded)
                \cup Permutations(BookingIds)

(* Total is the sum it claims to be.                                        *)
ASSUME TotalIsSum ==
    \A f \in [1..3 -> 0..2] : Total(f) = f[1] + f[2] + f[3]

=============================================================================
