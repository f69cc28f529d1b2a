------------------------- MODULE ClawEscrowProofs --------------------------
(*****************************************************************************)
(* ClawEscrow is correct for every set of accounts and bookings, every       *)
(* unit, rate, duration and commission: proofs of its safety properties.     *)
(* The inductive invariant is EscrowInv of ClawEscrow.                       *)
(*                                                                           *)
(* First come lemmas about Total: its type, what one update does to it, and  *)
(* that a term never exceeds it.                                             *)
(*****************************************************************************)
EXTENDS ClawEscrow, FiniteSetTheorems, TLAPS

-----------------------------------------------------------------------------
(* Totals *)

(* Units of a set of keys of f. *)
UnitsOf(f, K) == UNION {Units(f, x) : x \in K}

(* The units of one key: there are as many as the value says. *)
LEMMA UnitsCount ==
    ASSUME NEW S, NEW f \in [S -> Nat], NEW x \in S
    PROVE  /\ IsFiniteSet(Units(f, x))
           /\ Cardinality(Units(f, x)) = f[x]
<1>1. f[x] \in Nat
  OBVIOUS
<1>2. /\ IsFiniteSet(1..f[x])
      /\ Cardinality(1..f[x]) = f[x]
  BY <1>1, FS_Interval
<1>3. IsFiniteSet({x}) /\ Cardinality({x}) = 1
  BY FS_Singleton
<1> QED
  BY <1>1, <1>2, <1>3, FS_Product, SMTT(30) DEF Units

(* The units of finitely many keys are finitely many. *)
LEMMA UnitsFinite ==
    ASSUME NEW S, NEW f \in [S -> Nat], NEW K \in SUBSET S, IsFiniteSet(K)
    PROVE  IsFiniteSet(UnitsOf(f, K))
<1> DEFINE R == {Units(f, x) : x \in K}
           g == [x \in K |-> Units(f, x)]
<1>1. g \in Surjection(K, R)
  BY DEF Surjection
<1>2. IsFiniteSet(R)
  BY <1>1, FS_Surjection
<1>3. \A T \in R : IsFiniteSet(T)
  BY UnitsCount
<1> QED
  BY <1>2, <1>3, FS_UNION DEF UnitsOf

(* The total is one term plus the units of the other keys. *)
LEMMA TotalSplit ==
    ASSUME NEW S, IsFiniteSet(S), NEW f \in [S -> Nat], NEW x \in S
    PROVE  /\ Cardinality(UnitsOf(f, S \ {x})) \in Nat
           /\ Total(f) = f[x] + Cardinality(UnitsOf(f, S \ {x}))
<1> DEFINE Rest == UnitsOf(f, S \ {x})
<1>1. IsFiniteSet(S \ {x}) /\ S \ {x} \in SUBSET S
  BY FS_RemoveElement
<1>2. IsFiniteSet(Rest)
  BY <1>1, UnitsFinite
<1>3. IsFiniteSet(Units(f, x)) /\ Cardinality(Units(f, x)) = f[x]
  BY UnitsCount
<1>4. Units(f, x) \cap Rest = {}
  BY DEF Units, UnitsOf
<1>5. UNION {Units(f, y) : y \in DOMAIN f} = Units(f, x) \cup Rest
  BY DEF UnitsOf
<1>6. Cardinality(Rest) \in Nat
  BY <1>2, FS_CardinalityType
<1>7. Cardinality(Units(f, x) \cup Rest) =
        Cardinality(Units(f, x)) + Cardinality(Rest) - Cardinality(Units(f, x) \cap Rest)
  BY <1>2, <1>3, FS_Union
<1>8. Cardinality(Units(f, x) \cap Rest) = 0
  BY <1>4, FS_EmptySet
<1>9. Total(f) = Cardinality(Units(f, x) \cup Rest)
  BY <1>5 DEF Total
<1>10. f[x] \in Nat
  OBVIOUS
<1>11. Total(f) = f[x] + Cardinality(Rest)
  BY <1>3, <1>6, <1>7, <1>8, <1>9, <1>10
<1> QED
  BY <1>6, <1>11

(* A total of natural numbers is a natural number. *)
LEMMA TotalType ==
    ASSUME NEW S, IsFiniteSet(S), NEW f \in [S -> Nat]
    PROVE  Total(f) \in Nat
<1>1. IsFiniteSet(UnitsOf(f, S))
  BY UnitsFinite
<1>2. UNION {Units(f, x) : x \in DOMAIN f} = UnitsOf(f, S)
  BY DEF UnitsOf
<1> QED
  BY <1>1, <1>2, FS_CardinalityType DEF Total

(* A term never exceeds the total. *)
LEMMA TermBelowTotal ==
    ASSUME NEW S, IsFiniteSet(S), NEW f \in [S -> Nat], NEW x \in S
    PROVE  f[x] <= Total(f)
<1>1. f[x] \in Nat
  OBVIOUS
<1>2. /\ Cardinality(UnitsOf(f, S \ {x})) \in Nat
      /\ Total(f) = f[x] + Cardinality(UnitsOf(f, S \ {x}))
  BY TotalSplit
<1> QED
  BY <1>1, <1>2

(* Two functions that agree everywhere but at x have totals that differ by  *)
(* the difference there.                                                    *)
LEMMA TotalChange ==
    ASSUME NEW S, IsFiniteSet(S), NEW f \in [S -> Nat], NEW g \in [S -> Nat],
           NEW x \in S, \A y \in S \ {x} : g[y] = f[y]
    PROVE  Total(g) + f[x] = Total(f) + g[x]
<1>1. UnitsOf(f, S \ {x}) = UnitsOf(g, S \ {x})
  BY DEF UnitsOf, Units
<1>2. f[x] \in Nat /\ g[x] \in Nat
  OBVIOUS
<1> QED
  BY <1>1, <1>2, TotalSplit

(* The total of zeros is zero. *)
LEMMA TotalZero ==
    ASSUME NEW S
    PROVE  Total([x \in S |-> 0]) = 0
<1> DEFINE z == [x \in S |-> 0]
<1>1. 1..0 = {}
  OBVIOUS
<1>2. \A x \in S : Units(z, x) = {}
  BY <1>1 DEF Units
<1>3. UNION {Units(z, x) : x \in DOMAIN z} = {}
  BY <1>2
<1> QED
  BY <1>3, FS_EmptySet DEF Total

-----------------------------------------------------------------------------
(* Arithmetic *)

LEMMA MulMono ==
    ASSUME NEW a \in Nat, NEW b \in Nat, NEW c \in Nat, b <= c
    PROVE  a * b \in Nat /\ a * c \in Nat /\ a * b <= a * c
OBVIOUS

LEMMA DivType ==
    ASSUME NEW a \in Nat, NEW d \in Nat \ {0}
    PROVE  a \div d \in Nat
OBVIOUS

LEMMA DivMono ==
    ASSUME NEW a \in Nat, NEW b \in Nat, NEW d \in Nat \ {0}, a <= b
    PROVE  a \div d <= b \div d
OBVIOUS

LEMMA DivOfProduct ==
    ASSUME NEW a \in Nat, NEW d \in Nat \ {0}
    PROVE  (a * d) \div d = a
OBVIOUS

(* Rounding up never gives less than rounding down. *)
LEMMA FloorBelowCeil ==
    ASSUME NEW a \in Nat, NEW d \in Nat \ {0}
    PROVE  CeilDiv(a, d) \in Nat /\ a \div d <= CeilDiv(a, d)
<1>1. CASE a = 0
  BY <1>1, DivType DEF CeilDiv
<1>2. CASE a # 0
  <2>1. a - 1 \in Nat
    BY <1>2
  <2>2. (a - 1) \div d \in Nat
    BY <2>1, DivType
  <2>3. a \div d <= (a - 1) \div d + 1
    BY <2>1
  <2> QED
    BY <1>2, <2>2, <2>3 DEF CeilDiv
<1> QED
  BY <1>1, <1>2

(* A quote is a natural number, and grows with the usage. *)
LEMMA QuoteMono ==
    ASSUME NEW rate \in Nat, NEW u \in Nat, NEW v \in Nat, u <= v
    PROVE  /\ Quote(rate, u) \in Nat
           /\ Quote(rate, v) \in Nat
           /\ Quote(rate, u) <= Quote(rate, v)
<1>1. rate * Cent \in Nat
  BY UnitAssumption
<1>2. /\ rate * Cent * u \in Nat
      /\ rate * Cent * v \in Nat
      /\ rate * Cent * u <= rate * Cent * v
  BY <1>1, MulMono
<1> QED
  BY <1>2, DivType, DivMono, UnitAssumption DEF Quote

LEMMA LockType ==
    ASSUME NEW rate \in Nat, NEW duration \in Nat
    PROVE  LockFor(rate, duration) \in Nat
<1>1. rate * Cent * duration \in Nat
  BY UnitAssumption
<1> QED
  BY <1>1, FloorBelowCeil, UnitAssumption DEF LockFor

(* The comment of _settle, "usage <= maxDuration and the lock rounds up, so *)
(* cost <= lockedAmount", for every rate, duration and unit.                *)
THEOREM QuoteWithinLock ==
    ASSUME NEW rate \in Nat, NEW usage \in Nat, NEW duration \in Nat, usage <= duration
    PROVE  Quote(rate, usage) <= LockFor(rate, duration)
<1>1. rate * Cent * duration \in Nat
  BY UnitAssumption
<1>2. Quote(rate, duration) <= LockFor(rate, duration)
  BY <1>1, FloorBelowCeil, UnitAssumption DEF Quote, LockFor
<1>3. /\ Quote(rate, usage) \in Nat
      /\ Quote(rate, duration) \in Nat
      /\ Quote(rate, usage) <= Quote(rate, duration)
  BY QuoteMono
<1> QED
  BY <1>2, <1>3, LockType

(* A capped commission never exceeds the cost it is taken from. *)
LEMMA CommissionWithinCost ==
    ASSUME NEW cost \in Nat, NEW bps \in Nat, bps <= BpsBase
    PROVE  /\ (cost * bps) \div BpsBase \in Nat
           /\ (cost * bps) \div BpsBase <= cost
<1>1. BpsBase \in Nat \ {0}
  BY UnitAssumption
<1>2. cost * bps \in Nat /\ cost * BpsBase \in Nat /\ cost * bps <= cost * BpsBase
  BY <1>1, MulMono
<1>3. (cost * bps) \div BpsBase <= (cost * BpsBase) \div BpsBase
  BY <1>1, <1>2, DivMono
<1>4. (cost * BpsBase) \div BpsBase = cost
  BY <1>1, DivOfProduct
<1> QED
  BY <1>1, <1>2, <1>3, <1>4, DivType

-----------------------------------------------------------------------------
(* Initial states: the contract starts with every part of the invariant.    *)
THEOREM InitInv == Init => EscrowInv
<1> SUFFICES ASSUME Init PROVE EscrowInv
  OBVIOUS
<1>1. TypeOK
  <2>1. NoBooking \in Booking
    BY DEF NoBooking, Booking, Addresses, Statuses
  <2>2. bookings \in [BookingIds -> Booking]
    BY <2>1 DEF Init
  <2>3. settlers \subseteq SettlerKeys
    BY DEF Init
  <2>4. commissionBps \in 0..MaxCommissionBps
    BY UnitAssumption, InputAssumption DEF Init
  <2>5. usdc \in [Accounts -> Nat]
    BY InputAssumption DEF Init
  <2> QED
    BY <2>2, <2>3, <2>4, <2>5 DEF Init, TypeOK
<1>2. TermsRecorded
  BY DEF Init, TermsRecorded, NoBooking
<1>3. ASSUME NEW c \in Accounts PROVE LocksOf(c) = [b \in BookingIds |-> 0]
  BY DEF Init, LocksOf, LockOf, IsOpen, NoBooking
<1>4. LocksMatch
  BY <1>3, TotalZero DEF LocksMatch, Init
<1>5. LocksCovered
  BY DEF LocksCovered, Init
<1>6. Total(escrow) = 0 /\ Total(claimable) = 0
  BY TotalZero DEF Init
<1>7. Solvency
  BY <1>6 DEF Solvency, Init
<1> QED
  BY <1>1, <1>2, <1>4, <1>5, <1>7 DEF EscrowInv

-----------------------------------------------------------------------------
(* Steps that touch neither the balances nor the bookings *)

(* The locks of a consumer are those of the bookings alone. *)
LEMMA LocksUnchanged ==
    ASSUME bookings' = bookings, NEW c \in Accounts
    PROVE  LocksOf(c)' = LocksOf(c)
BY DEF LocksOf, LockOf, IsOpen

LEMMA QuietStep ==
    ASSUME EscrowInv, TypeOK', now <= now',
           UNCHANGED <<escrow, lockedOf, claimable, bookings, held>>
    PROVE  EscrowInv'
<1>1. TermsRecorded'
  <2> SUFFICES ASSUME NEW b \in BookingIds, bookings'[b].status # "Unset"
               PROVE  bookings[b].openedAt <= now => bookings[b].openedAt <= now'
    BY DEF EscrowInv, TermsRecorded
  <2>1. bookings[b].openedAt \in Nat /\ now \in Nat /\ now' \in Nat
    BY DEF EscrowInv, TypeOK, Booking
  <2> QED
    BY <2>1
<1>2. LocksMatch'
  BY LocksUnchanged DEF EscrowInv, LocksMatch
<1>3. LocksCovered'
  BY DEF EscrowInv, LocksCovered
<1>4. Solvency'
  BY DEF EscrowInv, Solvency
<1> QED
  BY <1>1, <1>2, <1>3, <1>4 DEF EscrowInv

LEMMA AdminStepInv ==
    ASSUME EscrowInv, AdminStep
    PROVE  EscrowInv'
<1> USE DEF EscrowInv, TypeOK
<1>1. ASSUME NEW bps \in Commissions, SetCommissionBps(bps) PROVE EscrowInv'
  BY <1>1, QuietStep, UnitAssumption, InputAssumption DEF SetCommissionBps
<1>2. ASSUME NEW t \in Addresses, SetTreasury(t) PROVE EscrowInv'
  BY <1>2, QuietStep DEF SetTreasury, Addresses
<1>3. ASSUME NEW s \in SettlerKeys, GrantSettler(s) \/ RevokeSettler(s) PROVE EscrowInv'
  BY <1>3, QuietStep DEF GrantSettler, RevokeSettler, SetSettlers
<1>4. ASSUME NEW p \in BOOLEAN, SetPaused(p) PROVE EscrowInv'
  BY <1>4, QuietStep DEF SetPaused
<1> QED
  BY <1>1, <1>2, <1>3, <1>4 DEF AdminStep, Pause, Unpause

LEMMA TickInv ==
    ASSUME EscrowInv, Tick
    PROVE  EscrowInv'
<1>1. TypeOK'
  BY DEF EscrowInv, TypeOK, Tick, config
<1>2. now <= now'
  BY DEF EscrowInv, TypeOK, Tick
<1> QED
  BY <1>1, <1>2, QuietStep DEF Tick

-----------------------------------------------------------------------------
(* Money in and out *)

(* The change of a total, with the types the steps need. *)
LEMMA TotalMoves ==
    ASSUME NEW S, IsFiniteSet(S), NEW f \in [S -> Nat], NEW g \in [S -> Nat],
           NEW x \in S, \A y \in S \ {x} : g[y] = f[y]
    PROVE  /\ Total(f) \in Nat
           /\ Total(g) \in Nat
           /\ Total(g) + f[x] = Total(f) + g[x]
BY TotalChange, TotalType

LEMMA DepositInv ==
    ASSUME EscrowInv, NEW c \in Accounts, NEW amount \in 0..usdc[c], Deposit(c, amount)
    PROVE  EscrowInv'
<1>1. amount \in Nat /\ escrow[c] + amount \in Nat /\ escrow[c] \in Nat
  BY DEF EscrowInv, TypeOK
<1>2. TypeOK'
  BY <1>1 DEF EscrowInv, TypeOK, Deposit, TransferIn, config
<1>3. TermsRecorded'
  BY DEF EscrowInv, TermsRecorded, Deposit
<1>4. LocksMatch'
  BY LocksUnchanged DEF EscrowInv, LocksMatch, Deposit
<1>5. LocksCovered'
  <2> SUFFICES ASSUME NEW a \in Accounts PROVE lockedOf'[a] <= escrow'[a]
    BY DEF LocksCovered
  <2>1. lockedOf[a] <= escrow[a] /\ lockedOf[a] \in Nat /\ escrow[a] \in Nat
    BY DEF EscrowInv, LocksCovered, TypeOK
  <2>2. escrow'[a] = IF a = c THEN escrow[a] + amount ELSE escrow[a]
    BY DEF Deposit, EscrowInv, TypeOK
  <2> QED
    BY <1>1, <2>1, <2>2 DEF Deposit
<1>6. Solvency'
  <2>1. escrow \in [Accounts -> Nat] /\ claimable \in [Accounts -> Nat]
    BY DEF EscrowInv, TypeOK
  <2>2. /\ Total(escrow') + escrow[c] = Total(escrow) + (escrow[c] + amount)
        /\ Total(escrow) \in Nat
        /\ Total(escrow') \in Nat
    <3>1. /\ escrow' \in [Accounts -> Nat]
          /\ escrow'[c] = escrow[c] + amount
          /\ \A y \in Accounts \ {c} : escrow'[y] = escrow[y]
      BY <1>1, <2>1 DEF Deposit
    <3>2. /\ Total(escrow) \in Nat
          /\ Total(escrow') \in Nat
          /\ Total(escrow') + escrow[c] = Total(escrow) + escrow'[c]
      BY <2>1, <3>1, TotalMoves, AddressAssumption
    <3> QED
      BY <3>1, <3>2
  <2>3. Total(claimable) \in Nat
    BY <2>1, TotalType, AddressAssumption
  <2>4. held' = held + amount /\ claimable' = claimable
    BY DEF Deposit, TransferIn
  <2> QED
    BY <1>1, <2>2, <2>3, <2>4 DEF EscrowInv, Solvency
<1> QED
  BY <1>2, <1>3, <1>4, <1>5, <1>6 DEF EscrowInv

LEMMA WithdrawUnusedInv ==
    ASSUME EscrowInv, NEW c \in Accounts, NEW amount \in 0..escrow[c],
           WithdrawUnused(c, amount)
    PROVE  EscrowInv'
<1>1. /\ amount \in Nat
      /\ escrow[c] \in Nat
      /\ lockedOf[c] \in Nat
      /\ amount <= escrow[c] - lockedOf[c]
      /\ escrow[c] - amount \in Nat
  BY DEF EscrowInv, TypeOK, WithdrawUnused, FreeEscrowOf
<1>2. TypeOK'
  BY <1>1 DEF EscrowInv, TypeOK, WithdrawUnused, TransferOut, config
<1>3. TermsRecorded'
  BY DEF EscrowInv, TermsRecorded, WithdrawUnused
<1>4. LocksMatch'
  BY LocksUnchanged DEF EscrowInv, LocksMatch, WithdrawUnused
<1>5. LocksCovered'
  <2> SUFFICES ASSUME NEW a \in Accounts PROVE lockedOf'[a] <= escrow'[a]
    BY DEF LocksCovered
  <2>1. lockedOf[a] <= escrow[a] /\ lockedOf[a] \in Nat /\ escrow[a] \in Nat
    BY DEF EscrowInv, LocksCovered, TypeOK
  <2>2. escrow'[a] = IF a = c THEN escrow[a] - amount ELSE escrow[a]
    BY DEF WithdrawUnused, EscrowInv, TypeOK
  <2> QED
    BY <1>1, <2>1, <2>2 DEF WithdrawUnused
<1>6. Solvency'
  <2>1. escrow \in [Accounts -> Nat] /\ claimable \in [Accounts -> Nat]
    BY DEF EscrowInv, TypeOK
  <2>2. /\ Total(escrow') + escrow[c] = Total(escrow) + (escrow[c] - amount)
        /\ Total(escrow) \in Nat
        /\ Total(escrow') \in Nat
    <3>1. /\ escrow' \in [Accounts -> Nat]
          /\ escrow'[c] = escrow[c] - amount
          /\ \A y \in Accounts \ {c} : escrow'[y] = escrow[y]
      BY <1>1, <2>1 DEF WithdrawUnused
    <3>2. /\ Total(escrow) \in Nat
          /\ Total(escrow') \in Nat
          /\ Total(escrow') + escrow[c] = Total(escrow) + escrow'[c]
      BY <2>1, <3>1, TotalMoves, AddressAssumption
    <3> QED
      BY <3>1, <3>2
  <2>3. Total(claimable) \in Nat
    BY <2>1, TotalType, AddressAssumption
  <2>4. held' = held - amount /\ claimable' = claimable
    BY DEF WithdrawUnused, TransferOut
  <2> QED
    BY <1>1, <2>2, <2>3, <2>4 DEF EscrowInv, Solvency
<1> QED
  BY <1>2, <1>3, <1>4, <1>5, <1>6 DEF EscrowInv

LEMMA ClaimInv ==
    ASSUME EscrowInv, NEW a \in Accounts, Claim(a)
    PROVE  EscrowInv'
<1>1. claimable[a] \in Nat /\ held \in Nat /\ claimable[a] <= held
  BY DEF EscrowInv, TypeOK, Claim, TransferOut
<1>2. TypeOK'
  BY <1>1 DEF EscrowInv, TypeOK, Claim, TransferOut, config
<1>3. TermsRecorded'
  BY DEF EscrowInv, TermsRecorded, Claim
<1>4. LocksMatch'
  BY LocksUnchanged DEF EscrowInv, LocksMatch, Claim
<1>5. LocksCovered'
  BY DEF EscrowInv, LocksCovered, Claim
<1>6. Solvency'
  <2>1. escrow \in [Accounts -> Nat] /\ claimable \in [Accounts -> Nat]
    BY DEF EscrowInv, TypeOK
  <2>2. /\ Total(claimable') + claimable[a] = Total(claimable) + 0
        /\ Total(claimable) \in Nat
        /\ Total(claimable') \in Nat
    <3>1. /\ claimable' \in [Accounts -> Nat]
          /\ claimable'[a] = 0
          /\ \A y \in Accounts \ {a} : claimable'[y] = claimable[y]
      BY <2>1 DEF Claim
    <3>2. /\ Total(claimable) \in Nat
          /\ Total(claimable') \in Nat
          /\ Total(claimable') + claimable[a] = Total(claimable) + claimable'[a]
      BY <2>1, <3>1, TotalMoves, AddressAssumption
    <3> QED
      BY <3>1, <3>2
  <2>3. Total(escrow) \in Nat
    BY <2>1, TotalType, AddressAssumption
  <2>4. held' = held - claimable[a] /\ escrow' = escrow
    BY DEF Claim, TransferOut
  <2> QED
    BY <1>1, <2>2, <2>3, <2>4 DEF EscrowInv, Solvency
<1> QED
  BY <1>2, <1>3, <1>4, <1>5, <1>6 DEF EscrowInv

-----------------------------------------------------------------------------
(* Opening a booking *)

LEMMA LocksOfType ==
    ASSUME TypeOK, NEW c \in Accounts
    PROVE  LocksOf(c) \in [BookingIds -> Nat]
BY DEF TypeOK, Booking, LocksOf, LockOf

LEMMA OpenBookingInv ==
    ASSUME EscrowInv,
           NEW s \in SettlerKeys, NEW b \in BookingIds, NEW c \in Addresses,
           NEW sup \in Addresses, NEW rate \in Rates, NEW duration \in Durations,
           OpenBooking(s, b, c, sup, rate, duration)
    PROVE  EscrowInv'
<1> DEFINE lock == LockFor(rate, duration)
           k == [consumer |-> c, supplier |-> sup, ratePerHourCents |-> rate,
                 lockedAmount |-> lock, openedAt |-> now,
                 maxDurationSecs |-> duration, commissionBps |-> commissionBps,
                 status |-> "Open"]
<1>1. c \in Accounts /\ sup \in Accounts /\ rate \in Nat /\ duration \in Nat
  BY InputAssumption DEF OpenBooking, Addresses
<1>2. lock \in Nat
  BY <1>1, LockType
<1>3. /\ bookings' = [bookings EXCEPT ![b] = k]
      /\ lockedOf' = [lockedOf EXCEPT ![c] = lockedOf[c] + lock]
      /\ lock <= escrow[c] - lockedOf[c]
      /\ bookings[b].status = "Unset"
      /\ UNCHANGED <<now, config, escrow, claimable, usdc, held>>
  BY DEF OpenBooking, FreeEscrowOf
<1> HIDE DEF lock
<1>4. k \in Booking
  BY <1>1, <1>2 DEF Booking, Addresses, Statuses, EscrowInv, TypeOK
<1>5. TypeOK'
  <2>1. bookings' \in [BookingIds -> Booking]
    BY <1>3, <1>4 DEF EscrowInv, TypeOK
  <2>2. lockedOf' \in [Accounts -> Nat]
    BY <1>1, <1>2, <1>3 DEF EscrowInv, TypeOK
  <2> QED
    BY <1>3, <2>1, <2>2 DEF EscrowInv, TypeOK, config
<1>6. TermsRecorded'
  <2> SUFFICES ASSUME NEW d \in BookingIds, bookings'[d].status # "Unset"
               PROVE  LET q == bookings'[d]
                      IN /\ q.consumer \in Accounts
                         /\ q.supplier \in Accounts
                         /\ q.lockedAmount = LockFor(q.ratePerHourCents, q.maxDurationSecs)
                         /\ q.commissionBps <= MaxCommissionBps
                         /\ q.openedAt <= now'
    BY DEF TermsRecorded
  <2>1. CASE d = b
    <3>1. bookings'[d] = k
      BY <1>3, <2>1 DEF EscrowInv, TypeOK
    <3>2. commissionBps <= MaxCommissionBps /\ now <= now'
      BY <1>3, UnitAssumption DEF EscrowInv, TypeOK
    <3> QED
      BY <1>1, <3>1, <3>2 DEF lock
  <2>2. CASE d # b
    <3>1. bookings'[d] = bookings[d] /\ now' = now
      BY <1>3, <2>2 DEF EscrowInv, TypeOK
    <3> QED
      BY <3>1 DEF EscrowInv, TermsRecorded
  <2> QED
    BY <2>1, <2>2
<1>7. LocksMatch'
  <2> SUFFICES ASSUME NEW a \in Accounts
               PROVE  lockedOf'[a] = Total(LocksOf(a)')
    BY DEF LocksMatch
  <2>1. LocksOf(a) \in [BookingIds -> Nat] /\ LocksOf(a)' \in [BookingIds -> Nat]
    <3>1. LocksOf(a)' \in [BookingIds -> Nat]
      BY <1>5 DEF TypeOK, Booking, LocksOf, LockOf
    <3> QED
      BY <3>1, LocksOfType DEF EscrowInv
  <2>2. \A d \in BookingIds \ {b} : LocksOf(a)'[d] = LocksOf(a)[d]
    BY <1>3 DEF LocksOf, LockOf, IsOpen, EscrowInv, TypeOK
  <2>3. LocksOf(a)[b] = 0
    BY <1>3 DEF LocksOf, LockOf, IsOpen
  <2>4. LocksOf(a)'[b] = IF a = c THEN lock ELSE 0
    BY <1>3 DEF LocksOf, LockOf, IsOpen, EscrowInv, TypeOK
  <2>5. /\ Total(LocksOf(a)) \in Nat
        /\ Total(LocksOf(a)') \in Nat
        /\ Total(LocksOf(a)') + LocksOf(a)[b] = Total(LocksOf(a)) + LocksOf(a)'[b]
    BY <2>1, <2>2, TotalMoves, AddressAssumption
  <2>6. lockedOf[a] = Total(LocksOf(a))
    BY DEF EscrowInv, LocksMatch
  <2>7. lockedOf'[a] = IF a = c THEN lockedOf[a] + lock ELSE lockedOf[a]
    BY <1>3 DEF EscrowInv, TypeOK
  <2> QED
    BY <1>2, <2>3, <2>4, <2>5, <2>6, <2>7
<1>8. LocksCovered'
  <2> SUFFICES ASSUME NEW a \in Accounts PROVE lockedOf'[a] <= escrow'[a]
    BY DEF LocksCovered
  <2>1. lockedOf[a] <= escrow[a] /\ lockedOf[a] \in Nat /\ escrow[a] \in Nat
    BY DEF EscrowInv, LocksCovered, TypeOK
  <2>2. lockedOf'[a] = IF a = c THEN lockedOf[a] + lock ELSE lockedOf[a]
    BY <1>3 DEF EscrowInv, TypeOK
  <2> QED
    BY <1>2, <1>3, <2>1, <2>2
<1>9. Solvency'
  BY <1>3 DEF EscrowInv, Solvency
<1> QED
  BY <1>5, <1>6, <1>7, <1>8, <1>9 DEF EscrowInv

-----------------------------------------------------------------------------
(* Closing a booking *)

(* What _settle computes for an open booking: the cost fits the lock and    *)
(* the commission fits the cost.                                            *)
LEMMA SettleAmounts ==
    ASSUME TypeOK, TermsRecorded, NEW b \in BookingIds, NEW usage \in Nat, IsOpen(b)
    PROVE  /\ bookings[b].consumer \in Accounts
           /\ bookings[b].supplier \in Accounts
           /\ bookings[b].lockedAmount \in Nat
           /\ CostOf(b, usage) \in Nat
           /\ CostOf(b, usage) <= bookings[b].lockedAmount
           /\ CostOf(b, usage) <= Quote(bookings[b].ratePerHourCents, usage)
           /\ CommissionOf(b, usage) \in Nat
           /\ CommissionOf(b, usage) <= CostOf(b, usage)
<1> DEFINE k == bookings[b]
<1>1. k \in Booking
  BY DEF TypeOK
<1>2. k.consumer \in Accounts /\ k.supplier \in Accounts /\ k.commissionBps <= MaxCommissionBps
  BY DEF TermsRecorded, IsOpen
<1>3. k.lockedAmount \in Nat /\ k.ratePerHourCents \in Nat /\ k.commissionBps \in Nat
  BY <1>1 DEF Booking
<1>4. Quote(k.ratePerHourCents, usage) \in Nat
  <2>1. usage <= usage
    OBVIOUS
  <2> QED
    BY <1>3, <2>1, QuoteMono
<1>5. /\ CostOf(b, usage) \in Nat
      /\ CostOf(b, usage) <= k.lockedAmount
      /\ CostOf(b, usage) <= Quote(k.ratePerHourCents, usage)
  BY <1>3, <1>4 DEF CostOf, Lesser
<1>6. k.commissionBps <= BpsBase
  BY <1>2, <1>3, UnitAssumption
<1>7. CommissionOf(b, usage) \in Nat /\ CommissionOf(b, usage) <= CostOf(b, usage)
  BY <1>3, <1>5, <1>6, CommissionWithinCost DEF CommissionOf
<1> QED
  BY <1>2, <1>3, <1>5, <1>7

(* Crediting the split raises the unclaimed total by exactly the cost, also *)
(* when the supplier is the treasury.                                       *)
LEMMA CreditTotal ==
    ASSUME TypeOK, NEW supplier \in Accounts, NEW cost \in Nat, NEW commission \in Nat,
           commission <= cost
    PROVE  /\ CreditSplit(supplier, cost, commission) \in [Accounts -> Nat]
           /\ Total(claimable) \in Nat
           /\ Total(CreditSplit(supplier, cost, commission)) = Total(claimable) + cost
<1> DEFINE paid == [claimable EXCEPT ![supplier] = @ + (cost - commission)]
           both == [paid EXCEPT ![treasury] = @ + commission]
<1>1. claimable \in [Accounts -> Nat] /\ treasury \in Accounts /\ cost - commission \in Nat
  BY DEF TypeOK
<1>2. /\ paid \in [Accounts -> Nat]
      /\ paid[supplier] = claimable[supplier] + (cost - commission)
      /\ \A y \in Accounts \ {supplier} : paid[y] = claimable[y]
  BY <1>1
<1> HIDE DEF paid
<1>3. /\ both \in [Accounts -> Nat]
      /\ both[treasury] = paid[treasury] + commission
      /\ \A y \in Accounts \ {treasury} : both[y] = paid[y]
  BY <1>1, <1>2
<1>4. CreditSplit(supplier, cost, commission) = both
  BY DEF CreditSplit, paid
<1> HIDE DEF both
<1>5. /\ Total(claimable) \in Nat
      /\ Total(paid) \in Nat
      /\ Total(paid) + claimable[supplier] = Total(claimable) + paid[supplier]
  BY <1>1, <1>2, TotalMoves, AddressAssumption
<1>6. /\ Total(both) \in Nat
      /\ Total(both) + paid[treasury] = Total(paid) + both[treasury]
  BY <1>1, <1>2, <1>3, TotalMoves, AddressAssumption
<1>7. claimable[supplier] \in Nat /\ paid[treasury] \in Nat
  BY <1>1, <1>2
<1> QED
  BY <1>2, <1>3, <1>4, <1>5, <1>6, <1>7

LEMMA SettleInv ==
    ASSUME EscrowInv, NEW s \in SettlerKeys, NEW b \in BookingIds, NEW usage \in Usages,
           NEW final \in {"Settled", "Cancelled"}, Settle(s, b, usage, final)
    PROVE  EscrowInv'
<1> DEFINE k == bookings[b]
           c == k.consumer
           cost == CostOf(b, usage)
<1>1. TypeOK /\ TermsRecorded /\ IsOpen(b) /\ usage \in Nat
  BY InputAssumption DEF EscrowInv, Settle, MaySettle, IsOpen
<1>2. /\ c \in Accounts
      /\ k.supplier \in Accounts
      /\ k.lockedAmount \in Nat
      /\ cost \in Nat
      /\ cost <= k.lockedAmount
      /\ CommissionOf(b, usage) \in Nat
      /\ CommissionOf(b, usage) <= cost
  BY <1>1, SettleAmounts
<1>3. /\ k.lockedAmount <= lockedOf[c]
      /\ cost <= escrow[c]
      /\ bookings' = [bookings EXCEPT ![b] = [k EXCEPT !.status = final]]
      /\ lockedOf' = [lockedOf EXCEPT ![c] = lockedOf[c] - k.lockedAmount]
      /\ escrow' = [escrow EXCEPT ![c] = escrow[c] - cost]
      /\ claimable' = CreditSplit(k.supplier, cost, CommissionOf(b, usage))
      /\ UNCHANGED <<now, config, usdc, held>>
  BY DEF Settle
<1> HIDE DEF cost
<1>4. /\ claimable' \in [Accounts -> Nat]
      /\ Total(claimable) \in Nat
      /\ Total(claimable') = Total(claimable) + cost
  BY <1>1, <1>2, <1>3, CreditTotal
<1>5. TypeOK'
  <2>1. [k EXCEPT !.status = final] \in Booking
    BY <1>1 DEF TypeOK, Booking, Statuses
  <2>2. bookings' \in [BookingIds -> Booking]
    BY <1>1, <1>3, <2>1 DEF TypeOK
  <2>3. lockedOf' \in [Accounts -> Nat]
    BY <1>1, <1>2, <1>3 DEF TypeOK
  <2>4. escrow' \in [Accounts -> Nat]
    BY <1>1, <1>2, <1>3 DEF TypeOK
  <2> QED
    BY <1>1, <1>3, <1>4, <2>2, <2>3, <2>4 DEF TypeOK, config
<1>6. TermsRecorded'
  <2> SUFFICES ASSUME NEW d \in BookingIds, bookings'[d].status # "Unset"
               PROVE  LET q == bookings'[d]
                      IN /\ q.consumer \in Accounts
                         /\ q.supplier \in Accounts
                         /\ q.lockedAmount = LockFor(q.ratePerHourCents, q.maxDurationSecs)
                         /\ q.commissionBps <= MaxCommissionBps
                         /\ q.openedAt <= now'
    BY DEF TermsRecorded
  <2>1. now' = now
    BY <1>3
  <2>2. CASE d = b
    <3>1. bookings'[d] = [k EXCEPT !.status = final] /\ k \in Booking
      BY <1>1, <1>3, <2>2 DEF TypeOK
    <3>2. k.status # "Unset"
      BY <1>1 DEF IsOpen
    <3> QED
      BY <1>1, <2>1, <2>2, <3>1, <3>2 DEF TermsRecorded, Booking
  <2>3. CASE d # b
    <3>1. bookings'[d] = bookings[d]
      BY <1>1, <1>3, <2>3 DEF TypeOK
    <3> QED
      BY <1>1, <2>1, <3>1 DEF TermsRecorded
  <2> QED
    BY <2>2, <2>3
<1>7. LocksMatch'
  <2> SUFFICES ASSUME NEW a \in Accounts
               PROVE  lockedOf'[a] = Total(LocksOf(a)')
    BY DEF LocksMatch
  <2>1. LocksOf(a) \in [BookingIds -> Nat] /\ LocksOf(a)' \in [BookingIds -> Nat]
    <3>1. LocksOf(a)' \in [BookingIds -> Nat]
      BY <1>5 DEF TypeOK, Booking, LocksOf, LockOf
    <3> QED
      BY <1>1, <3>1, LocksOfType
  <2>2. \A d \in BookingIds \ {b} : LocksOf(a)'[d] = LocksOf(a)[d]
    BY <1>1, <1>3 DEF LocksOf, LockOf, IsOpen, TypeOK
  <2>3. LocksOf(a)[b] = IF a = c THEN k.lockedAmount ELSE 0
    BY <1>1 DEF LocksOf, LockOf
  <2>4. LocksOf(a)'[b] = 0
    <3>1. bookings'[b].status = final
      BY <1>1, <1>3 DEF TypeOK, Booking
    <3> QED
      BY <3>1 DEF LocksOf, LockOf, IsOpen
  <2>5. /\ Total(LocksOf(a)) \in Nat
        /\ Total(LocksOf(a)') \in Nat
        /\ Total(LocksOf(a)') + LocksOf(a)[b] = Total(LocksOf(a)) + LocksOf(a)'[b]
    BY <2>1, <2>2, TotalMoves, AddressAssumption
  <2>6. lockedOf[a] = Total(LocksOf(a))
    BY DEF EscrowInv, LocksMatch
  <2>7. lockedOf'[a] = IF a = c THEN lockedOf[a] - k.lockedAmount ELSE lockedOf[a]
    BY <1>1, <1>3 DEF TypeOK
  <2> QED
    BY <1>2, <2>3, <2>4, <2>5, <2>6, <2>7
<1>8. LocksCovered'
  <2> SUFFICES ASSUME NEW a \in Accounts PROVE lockedOf'[a] <= escrow'[a]
    BY DEF LocksCovered
  <2>1. lockedOf[a] <= escrow[a] /\ lockedOf[a] \in Nat /\ escrow[a] \in Nat
    BY DEF EscrowInv, LocksCovered, TypeOK
  <2>2. /\ lockedOf'[a] = IF a = c THEN lockedOf[a] - k.lockedAmount ELSE lockedOf[a]
        /\ escrow'[a] = IF a = c THEN escrow[a] - cost ELSE escrow[a]
    BY <1>1, <1>3 DEF TypeOK
  <2> QED
    BY <1>2, <2>1, <2>2
<1>9. Solvency'
  <2>1. /\ escrow \in [Accounts -> Nat]
        /\ escrow' \in [Accounts -> Nat]
        /\ escrow'[c] = escrow[c] - cost
        /\ \A y \in Accounts \ {c} : escrow'[y] = escrow[y]
    BY <1>1, <1>2, <1>3, <1>5 DEF TypeOK
  <2>2. /\ Total(escrow) \in Nat
        /\ Total(escrow') \in Nat
        /\ Total(escrow') + escrow[c] = Total(escrow) + escrow'[c]
    BY <1>2, <2>1, TotalMoves, AddressAssumption
  <2>3. held' = held /\ escrow[c] \in Nat
    BY <1>2, <1>3, <2>1
  <2> QED
    BY <1>2, <1>4, <2>1, <2>2, <2>3 DEF EscrowInv, Solvency
<1> QED
  BY <1>5, <1>6, <1>7, <1>8, <1>9 DEF EscrowInv

-----------------------------------------------------------------------------
(* The invariant *)

LEMMA ConsumerStepInv ==
    ASSUME EscrowInv, ConsumerStep
    PROVE  EscrowInv'
BY DepositInv, WithdrawUnusedInv, ClaimInv DEF ConsumerStep

LEMMA SettlerStepInv ==
    ASSUME EscrowInv, SettlerStep
    PROVE  EscrowInv'
<1>1. ASSUME NEW s \in SettlerKeys, NEW b \in BookingIds, NEW usage \in Usages,
             SettleBooking(s, b, usage) \/ CancelBooking(s, b, usage)
      PROVE  EscrowInv'
  BY <1>1, SettleInv DEF SettleBooking, CancelBooking
<1> QED
  BY <1>1, OpenBookingInv DEF SettlerStep

LEMMA StutterInv ==
    ASSUME EscrowInv, UNCHANGED vars
    PROVE  EscrowInv'
<1>1. TypeOK'
  BY DEF EscrowInv, TypeOK, vars, config
<1>2. now <= now'
  BY DEF EscrowInv, TypeOK, vars
<1> QED
  BY <1>1, <1>2, QuietStep DEF vars

(* EscrowInv is inductive: it holds initially and every step keeps it. *)
THEOREM EscrowInvariant == Spec => []EscrowInv
<1>1. EscrowInv /\ [Next]_vars => EscrowInv'
  BY ConsumerStepInv, SettlerStepInv, AdminStepInv, TickInv, StutterInv DEF Next
<1> QED
  BY InitInv, <1>1, PTL DEF Spec

(* Every variable keeps its type: no balance or lock of ClawEscrow ever     *)
(* underflows, whatever the order of calls.                                 *)
THEOREM TypeCorrect == Spec => []TypeOK
<1>1. EscrowInv => TypeOK
  BY DEF EscrowInv
<1> QED
  BY EscrowInvariant, <1>1, PTL

(* The USDC balance of the contract is always exactly what it owes.         *)
THEOREM AlwaysSolvent == Spec => []Solvency
<1>1. EscrowInv => Solvency
  BY DEF EscrowInv
<1> QED
  BY EscrowInvariant, <1>1, PTL

(* lockedOf is always the sum of the locks of a consumer's open bookings.   *)
THEOREM LocksAlwaysMatch == Spec => []LocksMatch
<1>1. EscrowInv => LocksMatch
  BY DEF EscrowInv
<1> QED
  BY EscrowInvariant, <1>1, PTL

(* The locks of a consumer never exceed the consumer's escrow.              *)
THEOREM LocksAlwaysCovered == Spec => []LocksCovered
<1>1. EscrowInv => LocksCovered
  BY DEF EscrowInv
<1> QED
  BY EscrowInvariant, <1>1, PTL

(* The subtractions of _settle and the cap of the lock never bite for a      *)
(* usage inside the booked window, whatever else is open.                   *)
LEMMA InvPayable ==
    ASSUME EscrowInv
    PROVE  OpenBookingsPayable
<1> SUFFICES ASSUME NEW b \in BookingIds, IsOpen(b),
                    NEW usage \in 0..bookings[b].maxDurationSecs
             PROVE  /\ Quote(bookings[b].ratePerHourCents, usage) <= bookings[b].lockedAmount
                    /\ bookings[b].lockedAmount <= lockedOf[bookings[b].consumer]
                    /\ CostOf(b, usage) <= escrow[bookings[b].consumer]
  BY DEF OpenBookingsPayable
<1> DEFINE k == bookings[b]
           c == k.consumer
<1>1. TypeOK /\ TermsRecorded /\ k \in Booking
  BY DEF EscrowInv, TypeOK
<1>2. /\ k.ratePerHourCents \in Nat
      /\ k.maxDurationSecs \in Nat
      /\ k.lockedAmount = LockFor(k.ratePerHourCents, k.maxDurationSecs)
      /\ usage \in Nat
      /\ usage <= k.maxDurationSecs
  BY <1>1 DEF Booking, TermsRecorded, IsOpen
<1>3. Quote(k.ratePerHourCents, usage) <= k.lockedAmount
  BY <1>2, QuoteWithinLock
<1>4. /\ c \in Accounts
      /\ k.lockedAmount \in Nat
      /\ CostOf(b, usage) \in Nat
      /\ CostOf(b, usage) <= k.lockedAmount
  BY <1>1, <1>2, SettleAmounts
<1>5. k.lockedAmount <= lockedOf[c]
  <2>1. LocksOf(c) \in [BookingIds -> Nat]
    BY <1>1, <1>4, LocksOfType
  <2>2. LocksOf(c)[b] <= Total(LocksOf(c))
    BY <2>1, TermBelowTotal, AddressAssumption
  <2>3. LocksOf(c)[b] = k.lockedAmount
    BY DEF LocksOf, LockOf
  <2>4. lockedOf[c] = Total(LocksOf(c))
    BY <1>4 DEF EscrowInv, LocksMatch
  <2> QED
    BY <2>2, <2>3, <2>4
<1>6. lockedOf[c] <= escrow[c] /\ lockedOf[c] \in Nat /\ escrow[c] \in Nat
  BY <1>4 DEF EscrowInv, LocksCovered, TypeOK
<1>7. CostOf(b, usage) <= escrow[c]
  BY <1>4, <1>5, <1>6
<1> QED
  BY <1>3, <1>5, <1>7

(* An open booking can always be charged in full: the quote of any usage in *)
(* the booked window fits the lock, and neither subtraction of _settle      *)
(* reverts.                                                                 *)
THEOREM AlwaysPayable == Spec => []OpenBookingsPayable
<1>1. EscrowInv => OpenBookingsPayable
  BY InvPayable
<1> QED
  BY EscrowInvariant, <1>1, PTL

-----------------------------------------------------------------------------
(* Ways out.  NothingTrapped says ENABLED, which the provers cannot expand;  *)
(* what is proved is that everything claim, withdrawUnused and _settle check *)
(* before they write holds (WaysOut), and that nothing else is asked: in a   *)
(* state with a way out, the writes alone make the step of the contract.     *)

CanPayOut(amount) == amount > 0 /\ amount <= held

Closable(s, b, usage) ==
    /\ MaySettle(s, b, usage)
    /\ bookings[b].lockedAmount <= lockedOf[bookings[b].consumer]
    /\ CostOf(b, usage) <= escrow[bookings[b].consumer]

(* Earnings can be claimed, the whole free escrow withdrawn, and an open     *)
(* booking closed for any usage up to the booked window and the time since.  *)
WaysOut ==
    /\ \A a \in Accounts : claimable[a] > 0 => CanPayOut(claimable[a])
    /\ \A c \in Accounts : escrow[c] > lockedOf[c] => CanPayOut(FreeEscrowOf(c))
    /\ \A b \in BookingIds, s \in settlers, usage \in Usages :
          /\ IsOpen(b)
          /\ usage <= bookings[b].maxDurationSecs
          /\ usage <= now - bookings[b].openedAt
          => Closable(s, b, usage)

(* The USDC the contract holds covers every single debt of it.               *)
LEMMA DebtsCovered ==
    ASSUME EscrowInv, NEW a \in Accounts
    PROVE  /\ escrow[a] \in Nat /\ lockedOf[a] \in Nat /\ claimable[a] \in Nat
           /\ escrow[a] <= held /\ claimable[a] <= held
<1>1. /\ escrow \in [Accounts -> Nat]
      /\ claimable \in [Accounts -> Nat]
      /\ lockedOf \in [Accounts -> Nat]
  BY DEF EscrowInv, TypeOK
<1>2. Total(escrow) \in Nat /\ Total(claimable) \in Nat
  BY <1>1, TotalType, AddressAssumption
<1>3. escrow[a] <= Total(escrow) /\ claimable[a] <= Total(claimable)
  BY <1>1, TermBelowTotal, AddressAssumption
<1>4. held = Total(escrow) + Total(claimable)
  BY DEF EscrowInv, Solvency
<1>5. escrow[a] \in Nat /\ lockedOf[a] \in Nat /\ claimable[a] \in Nat
  BY <1>1
<1> QED
  BY <1>2, <1>3, <1>4, <1>5

(* No debt of the contract is out of reach, paused or not: earnings can be   *)
(* claimed and free escrow withdrawn to the last unit, and a settler can     *)
(* close any open booking for an honest usage without a revert of _settle.   *)
THEOREM MoneyCanLeave == Spec => []WaysOut
<1>1. ASSUME EscrowInv PROVE WaysOut
  <2>1. ASSUME NEW a \in Accounts, claimable[a] > 0
        PROVE  CanPayOut(claimable[a])
    BY <1>1, <2>1, DebtsCovered DEF CanPayOut
  <2>2. ASSUME NEW c \in Accounts, escrow[c] > lockedOf[c]
        PROVE  CanPayOut(FreeEscrowOf(c))
    <3>1. /\ escrow[c] \in Nat /\ lockedOf[c] \in Nat
          /\ escrow[c] <= held
      BY <1>1, DebtsCovered
    <3>2. held \in Nat
      BY <1>1 DEF EscrowInv, TypeOK
    <3> QED
      BY <2>2, <3>1, <3>2 DEF CanPayOut, FreeEscrowOf
  <2>3. ASSUME NEW b \in BookingIds, NEW s \in settlers, NEW usage \in Usages,
               IsOpen(b), usage <= bookings[b].maxDurationSecs,
               usage <= now - bookings[b].openedAt
        PROVE  Closable(s, b, usage)
    <3>1. /\ bookings[b] \in Booking
          /\ now \in Nat
          /\ usage \in Nat
          /\ SettleGraceSecs \in Nat
      BY <1>1, InputAssumption, UnitAssumption DEF EscrowInv, TypeOK
    <3>2. bookings[b].maxDurationSecs \in Nat /\ bookings[b].openedAt \in Nat
      BY <3>1 DEF Booking
    <3>3. usage <= MaxAllowed(b)
      BY <2>3, <3>1, <3>2 DEF MaxAllowed, Lesser
    <3>4. MaySettle(s, b, usage)
      BY <2>3, <3>3 DEF MaySettle, IsOpen
    <3>5. OpenBookingsPayable
      BY <1>1, InvPayable
    <3>6. usage \in 0..bookings[b].maxDurationSecs
      BY <2>3, <3>1, <3>2
    <3> QED
      BY <2>3, <3>4, <3>5, <3>6 DEF Closable, OpenBookingsPayable
  <2> QED
    BY <2>1, <2>2, <2>3 DEF WaysOut
<1> QED
  BY EscrowInvariant, <1>1, PTL

(* Nothing but the checks of WaysOut stands before the three ways out: where *)
(* they hold, a state with the new balances is a step of the contract.       *)
LEMMA ClaimNeedsNoMore ==
    ASSUME NEW a \in Accounts, CanPayOut(claimable[a]),
           claimable' = [claimable EXCEPT ![a] = 0],
           held' = held - claimable[a],
           usdc' = [usdc EXCEPT ![a] = @ + claimable[a]],
           UNCHANGED <<now, config, escrow, lockedOf, bookings>>
    PROVE  Claim(a)
BY DEF Claim, CanPayOut, TransferOut

LEMMA WithdrawNeedsNoMore ==
    ASSUME EscrowInv, NEW c \in Accounts, CanPayOut(FreeEscrowOf(c)),
           escrow' = [escrow EXCEPT ![c] = @ - FreeEscrowOf(c)],
           held' = held - FreeEscrowOf(c),
           usdc' = [usdc EXCEPT ![c] = @ + FreeEscrowOf(c)],
           UNCHANGED <<now, config, lockedOf, claimable, bookings>>
    PROVE  WithdrawUnused(c, FreeEscrowOf(c))
<1>1. escrow[c] \in Nat /\ lockedOf[c] \in Nat
  BY DebtsCovered
<1>2. FreeEscrowOf(c) <= FreeEscrowOf(c)
  BY <1>1 DEF FreeEscrowOf
<1> QED
  BY <1>2 DEF WithdrawUnused, CanPayOut, TransferOut

LEMMA CloseNeedsNoMore ==
    ASSUME NEW b \in BookingIds, NEW s, NEW usage, NEW final, Closable(s, b, usage),
           bookings' = [bookings EXCEPT ![b].status = final],
           lockedOf' = [lockedOf EXCEPT ![bookings[b].consumer] = @ - bookings[b].lockedAmount],
           escrow' = [escrow EXCEPT ![bookings[b].consumer] = @ - CostOf(b, usage)],
           claimable' = CreditSplit(bookings[b].supplier, CostOf(b, usage), CommissionOf(b, usage)),
           UNCHANGED <<now, config, usdc, held>>
    PROVE  Settle(s, b, usage, final)
BY DEF Settle, Closable

-----------------------------------------------------------------------------
(* Action properties *)

(* Only a settlement changes the bookings, apart from an opening. *)
LEMMA BookingStep ==
    ASSUME EscrowInv, [Next]_vars
    PROVE  \/ bookings' = bookings
           \/ \E s \in SettlerKeys, b \in BookingIds, c, sup \in Addresses,
                 rate \in Rates, duration \in Durations :
                 OpenBooking(s, b, c, sup, rate, duration)
           \/ \E s \in SettlerKeys, b \in BookingIds, usage \in Usages,
                 final \in {"Settled", "Cancelled"} : Settle(s, b, usage, final)
<1>1. CASE ConsumerStep
  BY <1>1 DEF ConsumerStep, Deposit, WithdrawUnused, Claim
<1>2. CASE SettlerStep
  <2>1. ASSUME NEW s \in SettlerKeys, NEW b \in BookingIds, NEW usage \in Usages,
               SettleBooking(s, b, usage) \/ CancelBooking(s, b, usage)
        PROVE  \E final \in {"Settled", "Cancelled"} : Settle(s, b, usage, final)
    BY <2>1 DEF SettleBooking, CancelBooking
  <2> QED
    BY <1>2, <2>1 DEF SettlerStep
<1>3. CASE AdminStep
  BY <1>3 DEF AdminStep, SetCommissionBps, SetTreasury, GrantSettler, RevokeSettler,
              SetSettlers, Pause, Unpause, SetPaused
<1>4. CASE Tick \/ UNCHANGED vars
  BY <1>4 DEF Tick, vars
<1> QED
  BY <1>1, <1>2, <1>3, <1>4 DEF Next

(* A booking's terms are fixed once it is opened, and nothing ever changes  *)
(* a settled or cancelled booking.                                          *)
THEOREM TermsStayFinal == Spec => TermsAreFinal
<1> DEFINE Kept(b) ==
      /\ bookings[b].status \in {"Settled", "Cancelled"} => bookings'[b] = bookings[b]
      /\ IsOpen(b) => \E st \in Statuses \ {"Unset"} :
                          bookings'[b] = [bookings[b] EXCEPT !.status = st]
<1>1. ASSUME EscrowInv, [Next]_vars, NEW b \in BookingIds PROVE Kept(b)
  <2>0. bookings \in [BookingIds -> Booking]
    BY <1>1 DEF EscrowInv, TypeOK
  <2>1. CASE bookings'[b] = bookings[b]
    <3>1. bookings[b] = [bookings[b] EXCEPT !.status = bookings[b].status]
      BY <2>0 DEF Booking
    <3>2. IsOpen(b) => bookings[b].status \in Statuses \ {"Unset"}
      BY DEF IsOpen, Statuses
    <3> QED
      BY <2>1, <3>1, <3>2
  <2>2. ASSUME NEW s \in SettlerKeys, NEW d \in BookingIds, NEW c \in Addresses,
               NEW sup \in Addresses, NEW rate \in Rates, NEW duration \in Durations,
               OpenBooking(s, d, c, sup, rate, duration)
        PROVE  Kept(b)
    <3>1. bookings[d].status = "Unset"
      BY <2>2 DEF OpenBooking
    <3>2. b # d => bookings'[b] = bookings[b]
      BY <2>0, <2>2 DEF OpenBooking
    <3>3. CASE b = d
      BY <3>1, <3>3 DEF IsOpen
    <3> QED
      BY <2>1, <3>2, <3>3
  <2>3. ASSUME NEW s \in SettlerKeys, NEW d \in BookingIds, NEW usage \in Usages,
               NEW final \in {"Settled", "Cancelled"}, Settle(s, d, usage, final)
        PROVE  Kept(b)
    <3>1. /\ bookings[d].status = "Open"
          /\ bookings' = [bookings EXCEPT ![d] = [bookings[d] EXCEPT !.status = final]]
      BY <2>3 DEF Settle, MaySettle
    <3>2. b # d => bookings'[b] = bookings[b]
      BY <2>0, <3>1
    <3>3. CASE b = d
      <4>1. bookings'[b] = [bookings[b] EXCEPT !.status = final]
        BY <2>0, <3>1, <3>3
      <4>2. final \in Statuses \ {"Unset"}
        BY DEF Statuses
      <4> QED
        BY <3>1, <3>3, <4>1, <4>2
    <3> QED
      BY <2>1, <3>2, <3>3
  <2>4. CASE bookings' = bookings
    BY <2>1, <2>4
  <2> QED
    BY <1>1, <2>2, <2>3, <2>4, BookingStep
<1>2. EscrowInv /\ [Next]_vars => [\A b \in BookingIds : Kept(b)]_vars
  BY <1>1
<1> QED
  BY EscrowInvariant, <1>2, PTL DEF Spec, TermsAreFinal

(* A booking closes only by a settlement of that booking. *)
LEMMA ClosingStep ==
    ASSUME EscrowInv, [Next]_vars, NEW b \in BookingIds, Closes(b)
    PROVE  \E s \in SettlerKeys, usage \in Usages, final \in {"Settled", "Cancelled"} :
               Settle(s, b, usage, final)
<1>0. bookings \in [BookingIds -> Booking]
  BY DEF EscrowInv, TypeOK
<1>1. bookings'[b] # bookings[b] /\ bookings[b].status = "Open"
  BY DEF Closes, IsOpen
<1>2. ASSUME NEW s \in SettlerKeys, NEW d \in BookingIds, NEW c \in Addresses,
             NEW sup \in Addresses, NEW rate \in Rates, NEW duration \in Durations,
             OpenBooking(s, d, c, sup, rate, duration)
      PROVE  FALSE
  BY <1>0, <1>1, <1>2 DEF OpenBooking
<1>3. ASSUME NEW s \in SettlerKeys, NEW d \in BookingIds, NEW usage \in Usages,
             NEW final \in {"Settled", "Cancelled"}, Settle(s, d, usage, final)
      PROVE  d = b
  BY <1>0, <1>1, <1>3 DEF Settle
<1> QED
  BY <1>1, <1>2, <1>3, BookingStep

(* What a settlement charges and credits. *)
LEMMA SettleEffect ==
    ASSUME EscrowInv, NEW s \in SettlerKeys, NEW b \in BookingIds, NEW usage \in Usages,
           NEW final \in {"Settled", "Cancelled"}, Settle(s, b, usage, final)
    PROVE  /\ Charge(b) = CostOf(b, usage)
           /\ claimable' = CreditSplit(bookings[b].supplier, CostOf(b, usage),
                                       CommissionOf(b, usage))
<1> DEFINE c == bookings[b].consumer
<1>1. TypeOK /\ TermsRecorded /\ IsOpen(b) /\ usage \in Nat
  BY InputAssumption DEF EscrowInv, Settle, MaySettle, IsOpen
<1>2. c \in Accounts /\ CostOf(b, usage) \in Nat
  BY <1>1, SettleAmounts
<1>3. escrow' = [escrow EXCEPT ![c] = escrow[c] - CostOf(b, usage)]
  BY DEF Settle
<1>4. escrow'[c] = escrow[c] - CostOf(b, usage) /\ escrow[c] \in Nat
  BY <1>1, <1>2, <1>3 DEF TypeOK
<1>5. Charge(b) = CostOf(b, usage)
  BY <1>2, <1>4 DEF Charge
<1> QED
  BY <1>5 DEF Settle

(* However the settler behaves, a booking is never charged more than its    *)
(* lock, its booked window or the wall clock with its grace.                *)
THEOREM NeverOverbilled == Spec => NoOverbilling
<1> DEFINE Bounded(b) ==
      /\ Charge(b) <= bookings[b].lockedAmount
      /\ Charge(b) <= Quote(bookings[b].ratePerHourCents, bookings[b].maxDurationSecs)
      /\ Charge(b) <= Quote(bookings[b].ratePerHourCents,
                            now - bookings[b].openedAt + SettleGraceSecs)
<1>1. ASSUME EscrowInv, [Next]_vars, NEW b \in BookingIds, Closes(b) PROVE Bounded(b)
  <2> DEFINE k == bookings[b]
             elapsed == now - k.openedAt + SettleGraceSecs
  <2>1. PICK s \in SettlerKeys, usage \in Usages, final \in {"Settled", "Cancelled"} :
            Settle(s, b, usage, final)
    BY <1>1, ClosingStep
  <2>2. TypeOK /\ TermsRecorded /\ IsOpen(b) /\ usage \in Nat /\ k \in Booking
    BY <1>1, <2>1, InputAssumption DEF EscrowInv, Settle, MaySettle, IsOpen, TypeOK
  <2>3. k.ratePerHourCents \in Nat /\ k.maxDurationSecs \in Nat /\ k.openedAt \in Nat
    BY <2>2 DEF Booking
  <2>4. elapsed \in Nat
    <3>1. k.openedAt <= now /\ now \in Nat
      BY <2>2 DEF TermsRecorded, IsOpen, TypeOK
    <3> QED
      BY <2>3, <3>1, UnitAssumption
  <2>5. usage <= k.maxDurationSecs /\ usage <= elapsed
    BY <2>1, <2>2, <2>3, <2>4 DEF Settle, MaySettle, MaxAllowed, Lesser
  <2>6. /\ Charge(b) \in Nat
        /\ Charge(b) <= k.lockedAmount
        /\ Charge(b) <= Quote(k.ratePerHourCents, usage)
    <3>1. Charge(b) = CostOf(b, usage)
      BY <1>1, <2>1, SettleEffect
    <3> QED
      BY <2>2, <3>1, SettleAmounts
  <2> HIDE DEF elapsed
  <2>7. /\ Quote(k.ratePerHourCents, usage) \in Nat
        /\ Quote(k.ratePerHourCents, k.maxDurationSecs) \in Nat
        /\ Quote(k.ratePerHourCents, usage) <= Quote(k.ratePerHourCents, k.maxDurationSecs)
    BY <2>2, <2>3, <2>5, QuoteMono
  <2>8. /\ Quote(k.ratePerHourCents, elapsed) \in Nat
        /\ Quote(k.ratePerHourCents, usage) <= Quote(k.ratePerHourCents, elapsed)
    BY <2>2, <2>3, <2>4, <2>5, QuoteMono
  <2> QED
    BY <2>6, <2>7, <2>8 DEF elapsed
<1>2. EscrowInv /\ [Next]_vars => [\A b \in BookingIds : Closes(b) => Bounded(b)]_vars
  BY <1>1
<1> QED
  BY EscrowInvariant, <1>2, PTL DEF Spec, NoOverbilling

(* A share computed with a capped commission leaves the supplier at least   *)
(* what the cap leaves.                                                     *)
LEMMA ShareAboveCap ==
    ASSUME NEW cost \in Nat, NEW bps \in Nat, NEW cap \in Nat, NEW base \in Nat \ {0},
           bps <= cap, cap <= base
    PROVE  (cost - (cost * bps) \div base) * base >= cost * (base - cap)
<1> DEFINE com == (cost * bps) \div base
<1>1. com \in Nat /\ com * base <= cost * bps
  OBVIOUS
<1>2. cost * bps <= cost * cap
  BY MulMono
<1> HIDE DEF com
<1>3. (cost - com) * base = cost * base - com * base
  BY <1>1
<1>4. cost * (base - cap) = cost * base - cost * cap
  OBVIOUS
<1>5. /\ cost * base \in Int
      /\ com * base \in Int
      /\ cost * bps \in Int
      /\ cost * cap \in Int
  BY <1>1
<1>6. com * base <= cost * cap
  BY <1>1, <1>2, <1>5
<1>7. (cost - com) * base >= cost * (base - cap)
  BY <1>3, <1>4, <1>5, <1>6
<1> QED
  BY <1>7 DEF com

(* The charge of a booking is split by the commission snapshotted when it   *)
(* was opened, whatever the admin has set since.                            *)
THEOREM SplitIsSnapshot == Spec => SplitBySnapshot
<1> DEFINE Gain(a) == claimable'[a] - claimable[a]
           Sup(b) == bookings[b].supplier
           Fair(b) ==
      /\ Gain(Sup(b)) + (IF treasury = Sup(b) THEN 0 ELSE Gain(treasury)) = Charge(b)
      /\ treasury # Sup(b) =>
             Gain(treasury) = (Charge(b) * bookings[b].commissionBps) \div BpsBase
      /\ Gain(Sup(b)) * BpsBase >= Charge(b) * (BpsBase - MaxCommissionBps)
<1>1. ASSUME EscrowInv, [Next]_vars, NEW b \in BookingIds, Closes(b) PROVE Fair(b)
  <2> DEFINE k == bookings[b]
  <2>1. PICK s \in SettlerKeys, usage \in Usages, final \in {"Settled", "Cancelled"} :
            Settle(s, b, usage, final)
    BY <1>1, ClosingStep
  <2>2. TypeOK /\ TermsRecorded /\ IsOpen(b) /\ usage \in Nat /\ k \in Booking
    BY <1>1, <2>1, InputAssumption DEF EscrowInv, Settle, MaySettle, IsOpen, TypeOK
  <2> DEFINE cost == CostOf(b, usage)
             com == CommissionOf(b, usage)
             sup == k.supplier
  <2>3. /\ sup \in Accounts
        /\ cost \in Nat
        /\ com \in Nat
        /\ com <= cost
    BY <2>2, SettleAmounts
  <2>4. Charge(b) = cost /\ claimable' = CreditSplit(sup, cost, com)
    BY <1>1, <2>1, SettleEffect
  <2>5. com = (cost * k.commissionBps) \div BpsBase
    BY DEF CommissionOf
  <2>6. claimable \in [Accounts -> Nat] /\ treasury \in Accounts
    BY <2>2 DEF TypeOK
  <2>7. k.commissionBps \in Nat /\ k.commissionBps <= MaxCommissionBps
    BY <2>2 DEF Booking, TermsRecorded, IsOpen
  <2>8. (cost - com) * BpsBase >= cost * (BpsBase - MaxCommissionBps)
    <3>1. /\ MaxCommissionBps \in Nat
          /\ BpsBase \in Nat \ {0}
          /\ MaxCommissionBps <= BpsBase
      BY UnitAssumption
    <3> QED
      BY <2>3, <2>5, <2>7, <3>1, ShareAboveCap
  <2> HIDE DEF cost, com, sup
  <2>9. CASE treasury # sup
    <3>1. /\ claimable'[sup] = claimable[sup] + (cost - com)
          /\ claimable'[treasury] = claimable[treasury] + com
      BY <2>3, <2>4, <2>6, <2>9 DEF CreditSplit
    <3>2. Gain(sup) = cost - com /\ Gain(treasury) = com
      BY <2>3, <2>6, <3>1
    <3> QED
      BY <2>3, <2>4, <2>5, <2>8, <2>9, <3>2 DEF sup
  <2>10. CASE treasury = sup
    <3>1. claimable'[sup] = claimable[sup] + (cost - com) + com
      BY <2>3, <2>4, <2>6, <2>10 DEF CreditSplit
    <3>2. Gain(sup) = cost
      BY <2>3, <2>6, <3>1
    <3>3. cost * BpsBase >= (cost - com) * BpsBase
      BY <2>3, UnitAssumption
    <3>4. /\ cost * BpsBase \in Int
          /\ (cost - com) * BpsBase \in Int
          /\ cost * (BpsBase - MaxCommissionBps) \in Int
      BY <2>3, UnitAssumption
    <3>5. cost * BpsBase >= cost * (BpsBase - MaxCommissionBps)
      BY <2>8, <3>3, <3>4
    <3> QED
      BY <2>3, <2>4, <2>10, <3>2, <3>5 DEF sup
  <2> QED
    BY <2>9, <2>10
<1>2. EscrowInv /\ [Next]_vars => [\A b \in BookingIds : Closes(b) => Fair(b)]_vars
  BY <1>1
<1> QED
  BY EscrowInvariant, <1>2, PTL DEF Spec, SplitBySnapshot

-----------------------------------------------------------------------------
(* Refinement *)

LEMMA CustodyInit == Init => Custody!Init
<1> SUFFICES ASSUME Init PROVE Custody!Init
  OBVIOUS
<1>1. [c \in Accounts |-> FreeEscrowOf(c)] = [c \in Accounts |-> 0]
  BY DEF Init, FreeEscrowOf
<1>2. \A b \in BookingIds : bookings[b].status = "Unset" /\ bookings[b].consumer = ZeroAddress
  BY DEF Init, NoBooking
<1> QED
  BY <1>1, <1>2 DEF Custody!Init, Init, IsOpen, StageOf

(* The mapped variables, by what they depend on. *)
LEMMA PotsUnchanged ==
    ASSUME bookings' = bookings
    PROVE  /\ [b \in BookingIds |-> IF IsOpen(b) THEN bookings[b].lockedAmount ELSE 0]'
                = [b \in BookingIds |-> IF IsOpen(b) THEN bookings[b].lockedAmount ELSE 0]
           /\ [b \in BookingIds |-> StageOf(bookings[b].status)]'
                = [b \in BookingIds |-> StageOf(bookings[b].status)]
           /\ [b \in BookingIds |-> bookings[b].consumer]'
                = [b \in BookingIds |-> bookings[b].consumer]
BY DEF IsOpen, StageOf

LEMMA CustodyPayIn ==
    ASSUME EscrowInv, NEW c \in Accounts, NEW amount \in 0..usdc[c], Deposit(c, amount)
    PROVE  Custody!Next
<1>1. amount \in 1..usdc[c]
  BY DEF Deposit, EscrowInv, TypeOK
<1>2. [a \in Accounts |-> FreeEscrowOf(a)]'
        = [[a \in Accounts |-> FreeEscrowOf(a)] EXCEPT ![c] = @ + amount]
  <2>1. /\ lockedOf' = lockedOf
        /\ escrow \in [Accounts -> Nat]
        /\ lockedOf \in [Accounts -> Nat]
        /\ escrow' = [escrow EXCEPT ![c] = escrow[c] + amount]
    BY DEF Deposit, EscrowInv, TypeOK
  <2>2. \A a \in Accounts : FreeEscrowOf(a)' =
            IF a = c THEN FreeEscrowOf(c) + amount ELSE FreeEscrowOf(a)
    BY <1>1, <2>1 DEF FreeEscrowOf
  <2> QED
    BY <2>2
<1>3. usdc' = [usdc EXCEPT ![c] = @ - amount]
  BY DEF Deposit, TransferIn
<1>4. bookings' = bookings /\ claimable' = claimable
  BY DEF Deposit
<1>5. Custody!PayIn(c, amount)
  BY <1>1, <1>2, <1>3, <1>4, PotsUnchanged DEF Custody!PayIn
<1> QED
  BY <1>1, <1>5 DEF Custody!Next

LEMMA CustodyRefund ==
    ASSUME EscrowInv, NEW c \in Accounts, NEW amount \in 0..escrow[c],
           WithdrawUnused(c, amount)
    PROVE  Custody!Next
<1>1. amount \in 1..([a \in Accounts |-> FreeEscrowOf(a)][c])
  BY DEF WithdrawUnused, FreeEscrowOf, EscrowInv, TypeOK
<1>2. [a \in Accounts |-> FreeEscrowOf(a)]'
        = [[a \in Accounts |-> FreeEscrowOf(a)] EXCEPT ![c] = @ - amount]
  <2>1. /\ lockedOf' = lockedOf
        /\ escrow \in [Accounts -> Nat]
        /\ lockedOf \in [Accounts -> Nat]
        /\ escrow' = [escrow EXCEPT ![c] = escrow[c] - amount]
    BY DEF WithdrawUnused, EscrowInv, TypeOK
  <2>2. \A a \in Accounts : FreeEscrowOf(a)' =
            IF a = c THEN FreeEscrowOf(c) - amount ELSE FreeEscrowOf(a)
    BY <1>1, <2>1 DEF FreeEscrowOf
  <2> QED
    BY <2>2
<1>3. usdc' = [usdc EXCEPT ![c] = @ + amount]
  BY DEF WithdrawUnused, TransferOut
<1>4. bookings' = bookings /\ claimable' = claimable
  BY DEF WithdrawUnused
<1>5. Custody!Refund(c, amount)
  BY <1>1, <1>2, <1>3, <1>4, PotsUnchanged DEF Custody!Refund
<1> QED
  BY <1>1, <1>5 DEF Custody!Next

LEMMA CustodyPayOut ==
    ASSUME EscrowInv, NEW a \in Accounts, Claim(a)
    PROVE  Custody!Next
<1>1. [c \in Accounts |-> FreeEscrowOf(c)]' = [c \in Accounts |-> FreeEscrowOf(c)]
  BY DEF Claim, FreeEscrowOf
<1>2. Custody!PayOut(a)
  BY <1>1, PotsUnchanged DEF Custody!PayOut, Claim, TransferOut
<1> QED
  BY <1>2 DEF Custody!Next

LEMMA CustodyReserve ==
    ASSUME EscrowInv,
           NEW s \in SettlerKeys, NEW b \in BookingIds, NEW c \in Addresses,
           NEW sup \in Addresses, NEW rate \in Rates, NEW duration \in Durations,
           OpenBooking(s, b, c, sup, rate, duration)
    PROVE  Custody!Next
<1> DEFINE lock == LockFor(rate, duration)
           free == [a \in Accounts |-> FreeEscrowOf(a)]
           pot == [d \in BookingIds |-> IF IsOpen(d) THEN bookings[d].lockedAmount ELSE 0]
           stage == [d \in BookingIds |-> StageOf(bookings[d].status)]
           payer == [d \in BookingIds |-> bookings[d].consumer]
<1>1. c \in Accounts /\ rate \in Nat /\ duration \in Nat
  BY InputAssumption DEF OpenBooking, Addresses
<1>2. lock \in Nat
  BY <1>1, LockType
<1>3. /\ bookings \in [BookingIds -> Booking]
      /\ bookings[b].status = "Unset"
      /\ \A d \in BookingIds \ {b} : bookings'[d] = bookings[d]
      /\ bookings'[b].status = "Open"
      /\ bookings'[b].lockedAmount = lock
      /\ bookings'[b].consumer = c
  BY DEF OpenBooking, EscrowInv, TypeOK
<1>4. /\ lockedOf' = [lockedOf EXCEPT ![c] = lockedOf[c] + lock]
      /\ lock <= FreeEscrowOf(c)
      /\ escrow' = escrow
      /\ claimable' = claimable
      /\ usdc' = usdc
  BY DEF OpenBooking
<1> HIDE DEF lock
<1>5. lock \in 0..free[c] /\ stage[b] = "new"
  BY <1>1, <1>2, <1>3, <1>4 DEF FreeEscrowOf, EscrowInv, TypeOK, StageOf
<1>6. free' = [free EXCEPT ![c] = @ - lock]
  <2>1. escrow \in [Accounts -> Nat] /\ lockedOf \in [Accounts -> Nat]
    BY DEF EscrowInv, TypeOK
  <2>2. \A a \in Accounts : FreeEscrowOf(a)' =
            IF a = c THEN FreeEscrowOf(c) - lock ELSE FreeEscrowOf(a)
    BY <1>1, <1>2, <1>4, <2>1 DEF FreeEscrowOf
  <2> QED
    BY <2>2
<1>7. pot' = [pot EXCEPT ![b] = lock]
  BY <1>3 DEF IsOpen
<1>8. stage' = [stage EXCEPT ![b] = "running"]
  BY <1>3 DEF StageOf
<1>9. payer' = [payer EXCEPT ![b] = c]
  BY <1>3
<1>10. Custody!Reserve(b, c, lock)
  BY <1>4, <1>5, <1>6, <1>7, <1>8, <1>9 DEF Custody!Reserve
<1> QED
  BY <1>1, <1>5, <1>10 DEF Custody!Next

LEMMA CloseIsNext ==
    ASSUME NEW b \in BookingIds, NEW supplier \in Accounts, NEW collector \in Accounts,
           NEW paid, NEW fee \in 0..paid,
           paid \in 0..([d \in BookingIds |->
                            IF IsOpen(d) THEN bookings[d].lockedAmount ELSE 0][b]),
           Custody!Close(b, supplier, collector, paid, fee)
    PROVE  Custody!Next
BY DEF Custody!Next

LEMMA CustodyClose ==
    ASSUME EscrowInv, NEW s \in SettlerKeys, NEW b \in BookingIds, NEW usage \in Usages,
           NEW final \in {"Settled", "Cancelled"}, Settle(s, b, usage, final)
    PROVE  Custody!Next
<1> DEFINE k == bookings[b]
           c == k.consumer
           sup == k.supplier
           free == [a \in Accounts |-> FreeEscrowOf(a)]
           pot == [d \in BookingIds |-> IF IsOpen(d) THEN bookings[d].lockedAmount ELSE 0]
           stage == [d \in BookingIds |-> StageOf(bookings[d].status)]
           payer == [d \in BookingIds |-> bookings[d].consumer]
<1> PICK cost, com : cost = CostOf(b, usage) /\ com = CommissionOf(b, usage)
  OBVIOUS
<1>1. TypeOK /\ TermsRecorded /\ IsOpen(b) /\ usage \in Nat
  BY InputAssumption DEF EscrowInv, Settle, MaySettle, IsOpen
<1>2. /\ c \in Accounts
      /\ sup \in Accounts
      /\ k.lockedAmount \in Nat
      /\ cost \in Nat
      /\ cost <= k.lockedAmount
      /\ com \in Nat
      /\ com <= cost
  BY <1>1, SettleAmounts
<1>3. /\ k.lockedAmount <= lockedOf[c]
      /\ cost <= escrow[c]
      /\ bookings' = [bookings EXCEPT ![b] = [k EXCEPT !.status = final]]
      /\ lockedOf' = [lockedOf EXCEPT ![c] = lockedOf[c] - k.lockedAmount]
      /\ escrow' = [escrow EXCEPT ![c] = escrow[c] - cost]
      /\ claimable' = CreditSplit(sup, cost, com)
      /\ UNCHANGED <<now, config, usdc, held>>
  BY DEF Settle
<1>4. com * BpsBase <= cost * MaxCommissionBps
  <2>1. k.commissionBps \in Nat /\ k.commissionBps <= MaxCommissionBps
    BY <1>1 DEF TypeOK, Booking, TermsRecorded, IsOpen
  <2>2. MaxCommissionBps \in Nat /\ BpsBase \in Nat \ {0}
    BY UnitAssumption
  <2>3. cost * k.commissionBps \in Nat /\ cost * k.commissionBps <= cost * MaxCommissionBps
    BY <1>2, <2>1, <2>2, MulMono
  <2>4. com * BpsBase <= cost * k.commissionBps
    <3>1. com = (cost * k.commissionBps) \div BpsBase
      BY DEF CommissionOf
    <3> QED
      BY <2>2, <2>3, <3>1
  <2>5. com * BpsBase \in Nat /\ cost * MaxCommissionBps \in Nat
    BY <1>2, <2>2
  <2> QED
    BY <2>3, <2>4, <2>5
<1>5. /\ bookings \in [BookingIds -> Booking]
      /\ bookings[b].status = "Open"
      /\ \A d \in BookingIds \ {b} : bookings'[d] = bookings[d]
      /\ bookings'[b].status = final
      /\ bookings'[b].consumer = c
  BY <1>1, <1>3 DEF TypeOK, Booking, IsOpen
<1>6. pot[b] = k.lockedAmount /\ stage[b] = "running" /\ payer[b] = c
  BY <1>1, <1>5 DEF StageOf
<1>7. claimable' = [[claimable EXCEPT ![sup] = @ + (cost - com)] EXCEPT ![treasury] = @ + com]
  BY <1>3 DEF CreditSplit
<1>8. free' = [free EXCEPT ![c] = @ + (k.lockedAmount - cost)]
  <2>1. escrow \in [Accounts -> Nat] /\ lockedOf \in [Accounts -> Nat]
    BY <1>1 DEF TypeOK
  <2>2. \A a \in Accounts : FreeEscrowOf(a)' =
            IF a = c THEN FreeEscrowOf(c) + (k.lockedAmount - cost) ELSE FreeEscrowOf(a)
    BY <1>2, <1>3, <2>1 DEF FreeEscrowOf
  <2> QED
    BY <2>2
<1>9. pot' = [pot EXCEPT ![b] = 0]
  BY <1>5 DEF IsOpen
<1>10. stage' = [stage EXCEPT ![b] = "closed"]
  BY <1>5 DEF StageOf
<1>11. payer' = payer
  BY <1>5
<1>12. cost \in 0..pot[b] /\ com \in 0..cost
  BY <1>2, <1>6
<1>13. treasury \in Accounts
  BY <1>1 DEF TypeOK
<1> HIDE DEF k, c, sup, free, pot, stage, payer
<1>14. Custody!Close(b, sup, treasury, cost, com)
  BY <1>3, <1>4, <1>6, <1>7, <1>8, <1>9, <1>10, <1>11, <1>12
  DEF Custody!Close, k, c, sup, free, pot, stage, payer
<1> QED
  BY <1>2, <1>12, <1>13, <1>14, CloseIsNext DEF pot, sup, k

LEMMA CustodyStutter ==
    ASSUME UNCHANGED <<escrow, lockedOf, claimable, bookings, usdc>>
    PROVE  UNCHANGED Custody!custody
<1>1. [c \in Accounts |-> FreeEscrowOf(c)]' = [c \in Accounts |-> FreeEscrowOf(c)]
  BY DEF FreeEscrowOf
<1> QED
  BY <1>1, PotsUnchanged DEF Custody!custody

(* The contract implements the ideal custodian with one pot per booking.    *)
THEOREM CustodyImplemented == Spec => ImplementsCustody
<1>1. ASSUME EscrowInv, [Next]_vars PROVE [Custody!Next]_(Custody!custody)
  <2>1. CASE ConsumerStep
    BY <1>1, <2>1, CustodyPayIn, CustodyRefund, CustodyPayOut DEF ConsumerStep
  <2>2. CASE SettlerStep
    <3>1. ASSUME NEW s \in SettlerKeys, NEW b \in BookingIds, NEW usage \in Usages,
                 SettleBooking(s, b, usage) \/ CancelBooking(s, b, usage)
          PROVE  Custody!Next
      BY <1>1, <3>1, CustodyClose DEF SettleBooking, CancelBooking
    <3> QED
      BY <1>1, <2>2, <3>1, CustodyReserve DEF SettlerStep
  <2>3. CASE AdminStep
    <3>1. UNCHANGED <<escrow, lockedOf, claimable, bookings, usdc>>
      BY <2>3 DEF AdminStep, SetCommissionBps, SetTreasury, GrantSettler, RevokeSettler,
                  SetSettlers, Pause, Unpause, SetPaused
    <3> QED
      BY <3>1, CustodyStutter
  <2>4. CASE Tick \/ UNCHANGED vars
    <3>1. UNCHANGED <<escrow, lockedOf, claimable, bookings, usdc>>
      BY <2>4 DEF Tick, vars
    <3> QED
      BY <3>1, CustodyStutter
  <2> QED
    BY <1>1, <2>1, <2>2, <2>3, <2>4 DEF Next
<1>2. EscrowInv /\ [Next]_vars => [Custody!Next]_(Custody!custody)
  BY <1>1
<1> QED
  BY EscrowInvariant, CustodyInit, <1>2, PTL DEF Spec, ImplementsCustody, Custody!Spec
=============================================================================
