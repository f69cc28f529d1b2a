------------------------------ MODULE ClawEscrow ------------------------------
(***************************************************************************)
(* The USDC escrow contract contracts/src/ClawEscrow.sol.                  *)
(*                                                                         *)
(* One action per external function.  A transaction is atomic and a revert *)
(* leaves every variable alone, so a reverting call is simply a call whose *)
(* action is not enabled: each revert of the code is a guard here, the     *)
(* checked subtractions of Solidity 0.8 included.  Amounts are natural     *)
(* numbers: every product of the contract fits uint256 (96 + 14 + 32 bits) *)
(* and no balance exceeds the supply of the token.                         *)
(***************************************************************************)
EXTENDS Integers, FiniteSets, Totals

CONSTANTS
    Accounts,           \* the addresses that take part, the zero address apart
    ZeroAddress,        \* address(0)
    BookingIds,         \* bytes32 keys of _bookings
    Cent,               \* CENT: base units of USDC in one cent
    SecondsPerHour,     \* the 3600 of quote and _ceilDiv
    BpsBase,            \* the 10_000 of the commission split
    MaxCommissionBps,   \* MAX_COMMISSION_BPS
    SettleGraceSecs,    \* SETTLE_GRACE_SECS
    Rates,              \* ratePerHourCents a settler passes
    Durations,          \* maxDurationSecs a settler passes
    Usages,             \* usageSeconds a settler passes
    Commissions,        \* bps the constructor and the admin pass
    SettlerKeys,        \* the service keys the admin may grant SETTLER_ROLE
    Wallet,             \* USDC each account starts with
    MaxTime             \* bound: the last block timestamp explored

Addresses == Accounts \cup {ZeroAddress}

ASSUME AddressAssumption ==
    /\ IsFiniteSet(Accounts)
    /\ IsFiniteSet(BookingIds)
    /\ ZeroAddress \notin Accounts

ASSUME UnitAssumption ==
    /\ Cent \in Nat
    /\ SecondsPerHour \in Nat \ {0}
    /\ BpsBase \in Nat \ {0}
    /\ MaxCommissionBps \in 0..BpsBase
    /\ SettleGraceSecs \in Nat

ASSUME InputAssumption ==
    /\ Rates \subseteq Nat
    /\ Durations \subseteq Nat
    /\ Usages \subseteq Nat
    /\ Commissions \subseteq Nat
    /\ Wallet \in [Accounts -> Nat]
    /\ MaxTime \in Nat

VARIABLES
    now,            \* block.timestamp
    paused,         \* Pausable
    settlers,       \* the holders of SETTLER_ROLE (AccessControl)
    treasury,
    commissionBps,
    escrow,         \* consumer => prepaid balance, free and locked
    lockedOf,       \* consumer => part of the escrow that open bookings reserve
    claimable,      \* account => earnings to pull
    bookings,       \* _bookings
    usdc,           \* the token: account => balance
    held            \* the token: balance of the contract itself

config == <<paused, settlers, treasury, commissionBps>>
vars == <<now, config, escrow, lockedOf, claimable, bookings, usdc, held>>

-----------------------------------------------------------------------------
(* Amounts *)

(* quote: what a usage costs, rounded down. *)
Quote(rate, usage) == (rate * Cent * usage) \div SecondsPerHour

(* _ceilDiv *)
CeilDiv(a, b) == IF a = 0 THEN 0 ELSE (a - 1) \div b + 1

LockWholeHours(rate, duration) ==   \* mutant: divides before it multiplies
    rate * Cent * (duration \div SecondsPerHour)

(* The lock of openBooking: the worst-case cost, rounded up. *)
LockFor(rate, duration) == CeilDiv(rate * Cent * duration, SecondsPerHour)

Lesser(a, b) == IF a < b THEN a ELSE b

-----------------------------------------------------------------------------
(* State *)

Statuses == {"Unset", "Open", "Settled", "Cancelled"}

Booking ==
    [consumer : Addresses, supplier : Addresses, ratePerHourCents : Nat,
     lockedAmount : Nat, openedAt : Nat, maxDurationSecs : Nat,
     commissionBps : Nat, status : Statuses]

(* The zero value of the mapping: "does not exist". *)
NoBooking ==
    [consumer |-> ZeroAddress, supplier |-> ZeroAddress, ratePerHourCents |-> 0,
     lockedAmount |-> 0, openedAt |-> 0, maxDurationSecs |-> 0,
     commissionBps |-> 0, status |-> "Unset"]

IsOpen(b) == bookings[b].status = "Open"

WholeEscrowOf(c) == escrow[c]       \* mutant: forgets the locks

FreeEscrowOf(c) == escrow[c] - lockedOf[c]

(* The constructor; the token was minted to the accounts before. *)
Init ==
    /\ now = 0
    /\ paused = FALSE
    /\ settlers \in {{s} : s \in SettlerKeys} \cup {{}}
    /\ treasury \in Accounts
    /\ commissionBps \in {bps \in Commissions : bps <= MaxCommissionBps}
    /\ escrow = [a \in Accounts |-> 0]
    /\ lockedOf = [a \in Accounts |-> 0]
    /\ claimable = [a \in Accounts |-> 0]
    /\ bookings = [b \in BookingIds |-> NoBooking]
    /\ usdc = Wallet
    /\ held = 0

-----------------------------------------------------------------------------
(* The token (external): the two transfers the contract makes. *)

TransferIn(from, amount) ==
    /\ amount <= usdc[from]
    /\ usdc' = [usdc EXCEPT ![from] = @ - amount]
    /\ held' = held + amount

TransferOut(to, amount) ==
    /\ amount <= held
    /\ held' = held - amount
    /\ usdc' = [usdc EXCEPT ![to] = @ + amount]

-----------------------------------------------------------------------------
(* Consumers and suppliers *)

Deposit(c, amount) ==
    /\ ~paused
    /\ amount > 0
    /\ escrow' = [escrow EXCEPT ![c] = @ + amount]
    /\ TransferIn(c, amount)
    /\ UNCHANGED <<now, config, lockedOf, claimable, bookings>>

WithdrawUnused(c, amount) ==
    /\ amount > 0
    /\ amount <= FreeEscrowOf(c)
    /\ escrow' = [escrow EXCEPT ![c] = @ - amount]
    /\ TransferOut(c, amount)
    /\ UNCHANGED <<now, config, lockedOf, claimable, bookings>>

ClaimWhenNotPaused(a) ==            \* mutant: claim is pausable
    /\ ~paused
    /\ claimable[a] > 0
    /\ claimable' = [claimable EXCEPT ![a] = 0]
    /\ TransferOut(a, claimable[a])
    /\ UNCHANGED <<now, config, escrow, lockedOf, bookings>>

Claim(a) ==
    /\ claimable[a] > 0
    /\ claimable' = [claimable EXCEPT ![a] = 0]
    /\ TransferOut(a, claimable[a])
    /\ UNCHANGED <<now, config, escrow, lockedOf, bookings>>

-----------------------------------------------------------------------------
(* The settler *)

OpenBooking(s, b, c, sup, rate, duration) ==
    LET lock == LockFor(rate, duration)
    IN /\ s \in settlers
       /\ ~paused
       /\ ZeroAddress \notin {c, sup}
       /\ duration # 0
       /\ bookings[b].status = "Unset"
       /\ lock <= FreeEscrowOf(c)
       /\ lockedOf' = [lockedOf EXCEPT ![c] = @ + lock]
       /\ bookings' = [bookings EXCEPT ![b] =
            [consumer |-> c, supplier |-> sup, ratePerHourCents |-> rate,
             lockedAmount |-> lock, openedAt |-> now,
             maxDurationSecs |-> duration, commissionBps |-> commissionBps,
             status |-> "Open"]]
       /\ UNCHANGED <<now, config, escrow, claimable, usdc, held>>

BookedWindow(b) == bookings[b].maxDurationSecs  \* mutant: ignores the wall clock

(* The usage a settler may report now: the booked window, and the wall      *)
(* clock with its grace.                                                    *)
MaxAllowed(b) ==
    Lesser(bookings[b].maxDurationSecs, now - bookings[b].openedAt + SettleGraceSecs)

CostOf(b, usage) ==
    Lesser(Quote(bookings[b].ratePerHourCents, usage), bookings[b].lockedAmount)

CommissionOfToday(b, usage) ==      \* mutant: the commission is not snapshotted
    (CostOf(b, usage) * commissionBps) \div BpsBase

CommissionOf(b, usage) == (CostOf(b, usage) * bookings[b].commissionBps) \div BpsBase

(* The supplier's share and the commission land on the treasury of now,     *)
(* which may be the supplier itself.                                        *)
CreditSplit(supplier, cost, commission) ==
    LET paid == [claimable EXCEPT ![supplier] = @ + (cost - commission)]
    IN [paid EXCEPT ![treasury] = @ + commission]

MaySettleAgain(s, b, usage) ==      \* mutant: the status is not checked
    /\ s \in settlers
    /\ bookings[b].status # "Unset"
    /\ usage <= MaxAllowed(b)

MaySettle(s, b, usage) ==
    /\ s \in settlers
    /\ bookings[b].status = "Open"
    /\ usage <= MaxAllowed(b)

Settle(s, b, usage, finalStatus) ==
    LET k == bookings[b]
        cost == CostOf(b, usage)
    IN /\ MaySettle(s, b, usage)
       /\ k.lockedAmount <= lockedOf[k.consumer]
       /\ cost <= escrow[k.consumer]
       /\ bookings' = [bookings EXCEPT ![b].status = finalStatus]
       /\ lockedOf' = [lockedOf EXCEPT ![k.consumer] = @ - k.lockedAmount]
       /\ escrow' = [escrow EXCEPT ![k.consumer] = @ - cost]
       /\ claimable' = CreditSplit(k.supplier, cost, CommissionOf(b, usage))
       /\ UNCHANGED <<now, config, usdc, held>>

SettleBooking(s, b, usage) == Settle(s, b, usage, "Settled")
CancelBooking(s, b, usage) == Settle(s, b, usage, "Cancelled")

-----------------------------------------------------------------------------
(* The admin *)

SetCommissionBps(bps) ==
    /\ bps <= MaxCommissionBps
    /\ commissionBps' = bps
    /\ UNCHANGED <<now, paused, settlers, treasury, escrow, lockedOf, claimable,
                   bookings, usdc, held>>

SetTreasury(t) ==
    /\ t # ZeroAddress
    /\ treasury' = t
    /\ UNCHANGED <<now, paused, settlers, commissionBps, escrow, lockedOf, claimable,
                   bookings, usdc, held>>

SetPaused(p) ==
    /\ paused # p
    /\ paused' = p
    /\ UNCHANGED <<now, settlers, treasury, commissionBps, escrow, lockedOf, claimable,
                   bookings, usdc, held>>

Pause == SetPaused(TRUE)
Unpause == SetPaused(FALSE)

(* AccessControl.grantRole and revokeRole of SETTLER_ROLE: the admin may    *)
(* rotate the settler at any time, also while bookings are open.            *)
SetSettlers(keys) ==
    /\ settlers' = keys
    /\ UNCHANGED <<now, paused, treasury, commissionBps, escrow, lockedOf, claimable,
                   bookings, usdc, held>>

GrantSettler(s) == SetSettlers(settlers \cup {s})
RevokeSettler(s) == SetSettlers(settlers \ {s})

(* Blocks advance the timestamp, up to the bound MaxTime. *)
Tick ==
    /\ now < MaxTime
    /\ now' = now + 1
    /\ UNCHANGED <<config, escrow, lockedOf, claimable, bookings, usdc, held>>

-----------------------------------------------------------------------------
ConsumerStep ==
    \E c \in Accounts :
        \/ \E amount \in 0..usdc[c] : Deposit(c, amount)
        \/ \E amount \in 0..escrow[c] : WithdrawUnused(c, amount)
        \/ Claim(c)

SettlerStep ==
    \E s \in SettlerKeys, b \in BookingIds :
        \/ \E c, sup \in Addresses, rate \in Rates, duration \in Durations :
               OpenBooking(s, b, c, sup, rate, duration)
        \/ \E usage \in Usages : SettleBooking(s, b, usage)
        \/ \E usage \in Usages : CancelBooking(s, b, usage)

AdminStep ==
    \/ \E bps \in Commissions : SetCommissionBps(bps)
    \/ \E t \in Addresses : SetTreasury(t)
    \/ \E s \in SettlerKeys : GrantSettler(s) \/ RevokeSettler(s)
    \/ Pause
    \/ Unpause

Next == ConsumerStep \/ SettlerStep \/ AdminStep \/ Tick

Spec == Init /\ [][Next]_vars

-----------------------------------------------------------------------------
(* Correctness *)

(* Every variable has its type; in particular no balance ever goes below    *)
(* zero, and openedAt never lies ahead of the block timestamp.              *)
TypeOK ==
    /\ now \in Nat
    /\ paused \in BOOLEAN
    /\ settlers \subseteq SettlerKeys
    /\ treasury \in Accounts
    /\ commissionBps \in 0..MaxCommissionBps
    /\ escrow \in [Accounts -> Nat]
    /\ lockedOf \in [Accounts -> Nat]
    /\ claimable \in [Accounts -> Nat]
    /\ bookings \in [BookingIds -> Booking]
    /\ usdc \in [Accounts -> Nat]
    /\ held \in Nat

(* The contract holds exactly what it owes: its USDC balance is the sum of  *)
(* all prepaid escrow and all unclaimed earnings, so no party's money is    *)
(* used twice and no unit is trapped (rounding dust included) by deposit,   *)
(* _settle, claim and withdrawUnused.                                       *)
Solvency == held = Total(escrow) + Total(claimable)

(* lockedOf of a consumer is the sum of the locks of their open bookings,   *)
(* so that the release in _settle returns exactly what openBooking took     *)
(* whatever other bookings of the consumer opened or closed in between.     *)
LockOf(c, b) ==
    IF IsOpen(b) /\ bookings[b].consumer = c THEN bookings[b].lockedAmount ELSE 0

LocksOf(c) == [b \in BookingIds |-> LockOf(c, b)]

LocksMatch == \A c \in Accounts : lockedOf[c] = Total(LocksOf(c))

(* The reserved part never exceeds the escrow: freeEscrowOf cannot          *)
(* underflow, and withdrawUnused cannot drain what an open booking needs.   *)
LocksCovered == \A c \in Accounts : lockedOf[c] <= escrow[c]

(* Auxiliary to the proofs: an existing booking has the lock its terms call *)
(* for, real parties, a capped commission and an opening in the past.       *)
TermsRecorded ==
    \A b \in BookingIds : bookings[b].status # "Unset" =>
        LET k == bookings[b]
        IN /\ k.consumer \in Accounts
           /\ k.supplier \in Accounts
           /\ k.lockedAmount = LockFor(k.ratePerHourCents, k.maxDurationSecs)
           /\ k.commissionBps <= MaxCommissionBps
           /\ k.openedAt <= now

(* The bookkeeping of the contract: types, terms, the locks that match and  *)
(* are covered, and solvency hold together; this is the inductive invariant *)
(* of the proofs.                                                           *)
EscrowInv == TypeOK /\ TermsRecorded /\ LocksMatch /\ LocksCovered /\ Solvency

(* An open booking can always be charged in full: for any usage inside the  *)
(* booked window the quoted cost fits the lock (the rounding of quote and   *)
(* of the lock never disagree, so the min() of _settle changes nothing) and *)
(* neither checked subtraction of _settle reverts.                          *)
OpenBookingsPayable ==
    \A b \in BookingIds : IsOpen(b) =>
        \A usage \in 0..bookings[b].maxDurationSecs :
            LET k == bookings[b]
            IN /\ Quote(k.ratePerHourCents, usage) <= k.lockedAmount
               /\ k.lockedAmount <= lockedOf[k.consumer]
               /\ CostOf(b, usage) <= escrow[k.consumer]

(* Money can always leave, paused or not: earnings can be claimed, the      *)
(* whole free escrow withdrawn, and a settler can close any open booking    *)
(* for any usage up to the booked window and the elapsed time.              *)
NothingTrapped ==
    /\ \A a \in Accounts : claimable[a] > 0 => ENABLED Claim(a)
    /\ \A c \in Accounts :
          escrow[c] > lockedOf[c] => ENABLED WithdrawUnused(c, escrow[c] - lockedOf[c])
    /\ \A b \in BookingIds, s \in settlers, usage \in Usages :
          /\ IsOpen(b)
          /\ usage <= bookings[b].maxDurationSecs
          /\ usage <= now - bookings[b].openedAt
          => ENABLED SettleBooking(s, b, usage) /\ ENABLED CancelBooking(s, b, usage)

Closes(b) == IsOpen(b) /\ ~IsOpen(b)'
Charge(b) == escrow[bookings[b].consumer] - escrow'[bookings[b].consumer]

(* However the settler behaves, closing a booking charges its consumer no   *)
(* more than the booked window costs, no more than the wall clock since     *)
(* openBooking (and the grace) costs, and never more than the lock.         *)
NoOverbilling ==
    [][\A b \in BookingIds : Closes(b) =>
          LET k == bookings[b]
          IN /\ Charge(b) <= k.lockedAmount
             /\ Charge(b) <= Quote(k.ratePerHourCents, k.maxDurationSecs)
             /\ Charge(b) <= Quote(k.ratePerHourCents, now - k.openedAt + SettleGraceSecs)]_vars

(* The charge of a closed booking is split by the commission in force when  *)
(* the booking opened: the treasury of the moment gets that commission, the *)
(* supplier the rest and never less than the cap leaves, and nobody else    *)
(* gains; later setCommissionBps calls reprice nothing.                     *)
SplitBySnapshot ==
    [][\A b \in BookingIds : Closes(b) =>
          LET sup == bookings[b].supplier
              commission == (Charge(b) * bookings[b].commissionBps) \div BpsBase
              gain(a) == claimable'[a] - claimable[a]
          IN /\ gain(sup) + (IF treasury = sup THEN 0 ELSE gain(treasury)) = Charge(b)
             /\ treasury # sup => gain(treasury) = commission
             /\ gain(sup) * BpsBase >= Charge(b) * (BpsBase - MaxCommissionBps)]_vars

(* A booking's terms are fixed once opened, and a settled or cancelled      *)
(* booking never changes again: no reopening under the same key, no second  *)
(* settlement.                                                              *)
TermsAreFinal ==
    [][\A b \in BookingIds :
          /\ bookings[b].status \in {"Settled", "Cancelled"} => bookings'[b] = bookings[b]
          /\ IsOpen(b) => \E st \in Statuses \ {"Unset"} :
                              bookings'[b] = [bookings[b] EXCEPT !.status = st]]_vars

-----------------------------------------------------------------------------
(* Refinement: the pooled balances implement an ideal custodian that keeps  *)
(* a separate pot for every open booking.                                   *)

StageOf(status) ==
    CASE status = "Unset" -> "new"
      [] status = "Open" -> "running"
      [] OTHER -> "closed"

Custody == INSTANCE SegregatedCustody WITH
    Nobody  <- ZeroAddress,
    FeeCap  <- MaxCommissionBps,
    FeeBase <- BpsBase,
    free    <- [c \in Accounts |-> FreeEscrowOf(c)],
    pot     <- [b \in BookingIds |-> IF IsOpen(b) THEN bookings[b].lockedAmount ELSE 0],
    stage   <- [b \in BookingIds |-> StageOf(bookings[b].status)],
    payer   <- [b \in BookingIds |-> bookings[b].consumer],
    owed    <- claimable,
    outside <- usdc

(* Every step of the contract is a step of the ideal custodian, or does not *)
(* touch the money: pooling the escrow of a consumer and tracking its locks *)
(* by one number never lets one booking use or release another's money.     *)
ImplementsCustody == Custody!Spec

=============================================================================
