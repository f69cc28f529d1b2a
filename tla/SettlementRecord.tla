--------------------------- MODULE SettlementRecord ---------------------------
(***************************************************************************)
(* What the confirmed rows of settlement_txs promise to who reads them: of *)
(* a booking there is first a lock, and after it at most one close, of any *)
(* kind; and neither ever again.                                           *)
(***************************************************************************)
CONSTANT Bookings

VARIABLES
    locked,     \* bookings with a confirmed lock and no confirmed close
    closed      \* bookings with a confirmed close

record == <<locked, closed>>

Init == locked = {} /\ closed = {}

ConfirmLock(b) ==
    /\ b \notin locked \cup closed
    /\ locked' = locked \cup {b}
    /\ UNCHANGED closed

ConfirmClose(b) ==
    /\ b \in locked
    /\ locked' = locked \ {b}
    /\ closed' = closed \cup {b}

Next == \E b \in Bookings : ConfirmLock(b) \/ ConfirmClose(b)

Spec == Init /\ [][Next]_record

=============================================================================
