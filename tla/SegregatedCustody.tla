--------------------------- MODULE SegregatedCustody ---------------------------
(***************************************************************************)
(* What the escrow contract promises its parties, as an ideal custodian    *)
(* who keeps every pot apart: the free money of each consumer, one sealed  *)
(* pot per running booking, and the earnings of each account.  ClawEscrow  *)
(* pools the first two in one balance per consumer and keeps only a        *)
(* running total of the locks; that it still implements this module says   *)
(* that no booking is ever paid from, or released into, another's pot.     *)
(***************************************************************************)
EXTENDS Integers

CONSTANTS
    Accounts,
    Nobody,             \* the payer of a booking that has not started
    BookingIds,
    FeeCap, FeeBase,    \* the fee is at most FeeCap / FeeBase of a payment
    Wallet              \* what each account owns at the start

VARIABLES
    free,       \* consumer => money not tied to any booking
    pot,        \* booking => money set aside for it
    stage,      \* booking => "new", "running" or "closed"
    payer,      \* booking => the consumer whose money is in the pot
    owed,       \* account => earnings
    outside     \* account => money not in custody

custody == <<free, pot, stage, payer, owed, outside>>

Stages == {"new", "running", "closed"}

Init ==
    /\ free = [a \in Accounts |-> 0]
    /\ pot = [b \in BookingIds |-> 0]
    /\ stage = [b \in BookingIds |-> "new"]
    /\ payer = [b \in BookingIds |-> Nobody]
    /\ owed = [a \in Accounts |-> 0]
    /\ outside = Wallet

(* A consumer brings money in, or takes free money out. *)
PayIn(c, n) ==
    /\ n \in 1..outside[c]
    /\ outside' = [outside EXCEPT ![c] = @ - n]
    /\ free' = [free EXCEPT ![c] = @ + n]
    /\ UNCHANGED <<pot, stage, payer, owed>>

Refund(c, n) ==
    /\ n \in 1..free[c]
    /\ free' = [free EXCEPT ![c] = @ - n]
    /\ outside' = [outside EXCEPT ![c] = @ + n]
    /\ UNCHANGED <<pot, stage, payer, owed>>

(* A booking starts: money moves from the free money into its own pot. *)
Reserve(b, c, n) ==
    /\ stage[b] = "new"
    /\ n \in 0..free[c]
    /\ free' = [free EXCEPT ![c] = @ - n]
    /\ pot' = [pot EXCEPT ![b] = n]
    /\ stage' = [stage EXCEPT ![b] = "running"]
    /\ payer' = [payer EXCEPT ![b] = c]
    /\ UNCHANGED <<owed, outside>>

(* A booking ends: its pot, and no other, is emptied.  A part of it pays    *)
(* the supplier, less a capped fee; the rest is free money again.           *)
Close(b, supplier, collector, paid, fee) ==
    LET credit == [owed EXCEPT ![supplier] = @ + (paid - fee)]
    IN /\ stage[b] = "running"
       /\ paid \in 0..pot[b]
       /\ fee \in 0..paid
       /\ fee * FeeBase <= paid * FeeCap
       /\ owed' = [credit EXCEPT ![collector] = @ + fee]
       /\ free' = [free EXCEPT ![payer[b]] = @ + (pot[b] - paid)]
       /\ pot' = [pot EXCEPT ![b] = 0]
       /\ stage' = [stage EXCEPT ![b] = "closed"]
       /\ UNCHANGED <<payer, outside>>

(* Earnings are paid out in full. *)
PayOut(a) ==
    /\ owed[a] > 0
    /\ owed' = [owed EXCEPT ![a] = 0]
    /\ outside' = [outside EXCEPT ![a] = @ + owed[a]]
    /\ UNCHANGED <<free, pot, stage, payer>>

Next ==
    \/ \E c \in Accounts :
          \/ \E n \in 1..outside[c] : PayIn(c, n)
          \/ \E n \in 1..free[c] : Refund(c, n)
          \/ PayOut(c)
    \/ \E b \in BookingIds, c \in Accounts : \E n \in 0..free[c] : Reserve(b, c, n)
    \/ \E b \in BookingIds, supplier, collector \in Accounts :
          \E paid \in 0..pot[b] : \E fee \in 0..paid :
              Close(b, supplier, collector, paid, fee)

Spec == Init /\ [][Next]_custody

=============================================================================
