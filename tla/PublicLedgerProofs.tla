-------------------------- MODULE PublicLedgerProofs --------------------------
(***************************************************************************)
(* What a page of the public ledger shows adds up, for any bookings, locks *)
(* and charges, any unit it rounds to, any number of rows and any limit.   *)
(***************************************************************************)
EXTENDS PublicLedger, FiniteSetTheorems, SequenceTheorems, TLAPS

-----------------------------------------------------------------------------
(* Totals: the units of one are mapped into the units of another.           *)

UnitsOf(f) == UNION {Units(f, x) : x \in DOMAIN f}

LEMMA UnitOf ==
    ASSUME NEW S, NEW f \in [S -> Nat], NEW p
    PROVE  p \in UnitsOf(f) <=> \E x \in S : \E u \in 1..f[x] : p = <<x, u>>
BY DEF UnitsOf, Units

LEMMA TotalIsNatural ==
    ASSUME NEW S, IsFiniteSet(S), NEW f \in [S -> Nat]
    PROVE  /\ IsFiniteSet(UnitsOf(f)) /\ Total(f) = Cardinality(UnitsOf(f))
           /\ Total(f) \in Nat
<1> DEFINE R == {Units(f, x) : x \in S}
           g == [x \in S |-> Units(f, x)]
<1>1. g \in Surjection(S, R)
  BY DEF Surjection
<1>2. IsFiniteSet(R)
  BY <1>1, FS_Surjection
<1>3. ASSUME NEW x \in S PROVE IsFiniteSet(Units(f, x))
  <2>1. f[x] \in Int
    OBVIOUS
  <2>2. IsFiniteSet(1..f[x])
    BY <2>1, FS_Interval
  <2>3. IsFiniteSet({x})
    BY FS_Singleton
  <2> QED
    BY <2>2, <2>3, FS_Product DEF Units
<1>4. UnitsOf(f) = UNION R
  BY DEF UnitsOf
<1>5. IsFiniteSet(UnitsOf(f))
  BY <1>2, <1>3, <1>4, FS_UNION
<1>6. Total(f) = Cardinality(UnitsOf(f))
  BY DEF Total, UnitsOf
<1> QED
  BY <1>5, <1>6, FS_CardinalityType

(* If every term of one total goes under a term of its own in another, the  *)
(* first is at most the second.                                             *)
LEMMA TotalUnder ==
    ASSUME NEW S, NEW T, IsFiniteSet(T), NEW f \in [S -> Nat], NEW g \in [T -> Nat],
           NEW h \in [S -> T], \A x \in S : f[x] <= g[h[x]],
           \A x, y \in S : h[x] = h[y] => x = y
    PROVE  Total(f) <= Total(g)
<1> DEFINE m == [p \in UnitsOf(f) |-> <<h[p[1]], p[2]>>]
<1>1. ASSUME NEW p \in UnitsOf(f)
      PROVE  /\ p[1] \in S /\ p[2] \in 1..f[p[1]] /\ p = <<p[1], p[2]>>
             /\ <<h[p[1]], p[2]>> \in UnitsOf(g)
  <2>0. PICK x \in S : \E u \in 1..f[x] : p = <<x, u>>
    BY UnitOf
  <2>1. PICK u \in 1..f[x] : p = <<x, u>>
    BY <2>0
  <2>2. h[x] \in T /\ f[x] \in Nat /\ g[h[x]] \in Nat /\ f[x] <= g[h[x]]
    OBVIOUS
  <2>3. u \in 1..g[h[x]]
    BY <2>2
  <2> QED
    BY <2>1, <2>2, <2>3, UnitOf
<1>2. m \in Injection(UnitsOf(f), UnitsOf(g))
  <2>1. m \in [UnitsOf(f) -> UnitsOf(g)]
    BY <1>1
  <2>2. ASSUME NEW p \in UnitsOf(f), NEW q \in UnitsOf(f), m[p] = m[q] PROVE p = q
    <3>1. h[p[1]] = h[q[1]] /\ p[2] = q[2]
      BY <2>2
    <3> QED
      BY <1>1, <2>2, <3>1
  <2> QED
    BY <2>1, <2>2 DEF Injection, IsInjective
<1>3. IsFiniteSet(UnitsOf(g)) /\ Total(g) = Cardinality(UnitsOf(g))
  BY TotalIsNatural
<1>4. Total(f) = Cardinality(UnitsOf(f))
  BY DEF Total, UnitsOf
<1> HIDE DEF m
<1> QED
  BY <1>2, <1>3, <1>4, FS_Injection

(* The total over two sets apart is the sum of their totals.                *)
LEMMA TotalOfUnion ==
    ASSUME NEW S, NEW T, IsFiniteSet(S), IsFiniteSet(T), S \cap T = {},
           NEW f \in [S \cup T -> Nat]
    PROVE  Total(f) = Total([x \in S |-> f[x]]) + Total([x \in T |-> f[x]])
<1> DEFINE a == [x \in S |-> f[x]]
           b == [x \in T |-> f[x]]
<1>1. a \in [S -> Nat] /\ b \in [T -> Nat]
  OBVIOUS
<1>2. /\ IsFiniteSet(UnitsOf(a)) /\ Total(a) = Cardinality(UnitsOf(a)) /\ Total(a) \in Nat
      /\ IsFiniteSet(UnitsOf(b)) /\ Total(b) = Cardinality(UnitsOf(b)) /\ Total(b) \in Nat
  BY <1>1, TotalIsNatural
<1>3. UnitsOf(f) = UnitsOf(a) \cup UnitsOf(b)
  BY DEF UnitsOf, Units
<1>4. UnitsOf(a) \cap UnitsOf(b) = {}
  BY DEF UnitsOf, Units
<1>5. Total(f) = Cardinality(UnitsOf(f))
  BY DEF Total, UnitsOf
<1> HIDE DEF a, b
<1>6. Cardinality(UnitsOf(a) \cup UnitsOf(b)) =
        Cardinality(UnitsOf(a)) + Cardinality(UnitsOf(b)) - Cardinality(UnitsOf(a) \cap UnitsOf(b))
  BY <1>2, FS_Union
<1> QED
  BY <1>2, <1>3, <1>4, <1>5, <1>6, FS_EmptySet DEF a, b

-----------------------------------------------------------------------------
(* The newest rows                                                          *)

(* The rows of a finite set are numbered by how many newer ones it has.     *)
LEMMA NewerCount ==
    ASSUME NEW S \in SUBSET Nat, IsFiniteSet(S)
    PROVE  /\ \A i \in S : Cardinality(NewerIn(S, i)) \in 0..Cardinality(S) - 1
           /\ \A i, j \in S : Cardinality(NewerIn(S, i)) = Cardinality(NewerIn(S, j)) => i = j
<1>1. Cardinality(S) \in Nat
  BY FS_CardinalityType
<1>2. ASSUME NEW i \in S
      PROVE  /\ IsFiniteSet(NewerIn(S, i)) /\ Cardinality(NewerIn(S, i)) \in Nat
             /\ Cardinality(NewerIn(S, i)) < Cardinality(S)
  <2>1. NewerIn(S, i) \subseteq S /\ i \notin NewerIn(S, i)
    BY DEF NewerIn
  <2>2. /\ IsFiniteSet(NewerIn(S, i)) /\ Cardinality(NewerIn(S, i)) <= Cardinality(S)
        /\ Cardinality(S) = Cardinality(NewerIn(S, i)) => S = NewerIn(S, i)
    BY <2>1, FS_Subset
  <2>3. Cardinality(NewerIn(S, i)) \in Nat
    BY <2>2, FS_CardinalityType
  <2> QED
    BY <1>1, <2>1, <2>2, <2>3
<1>3. ASSUME NEW i \in S, NEW j \in S, i < j
      PROVE  Cardinality(NewerIn(S, j)) < Cardinality(NewerIn(S, i))
  <2>1. NewerIn(S, j) \subseteq NewerIn(S, i) /\ j \in NewerIn(S, i) /\ j \notin NewerIn(S, j)
    <3>1. i \in Int /\ j \in Int /\ \A k \in S : k \in Int
      OBVIOUS
    <3>2. \A k \in S : k > j => k > i
      BY <1>3, <3>1
    <3>3. j > i /\ ~(j > j)
      BY <1>3, <3>1
    <3> QED
      BY <3>2, <3>3 DEF NewerIn
  <2>2. /\ Cardinality(NewerIn(S, j)) <= Cardinality(NewerIn(S, i))
        /\ Cardinality(NewerIn(S, i)) = Cardinality(NewerIn(S, j)) => NewerIn(S, i) = NewerIn(S, j)
    BY <1>2, <2>1, FS_Subset
  <2> QED
    BY <1>2, <2>1, <2>2
<1>4. \A i \in S : Cardinality(NewerIn(S, i)) \in 0..Cardinality(S) - 1
  BY <1>1, <1>2
<1>5. ASSUME NEW i \in S, NEW j \in S, Cardinality(NewerIn(S, i)) = Cardinality(NewerIn(S, j))
      PROVE  i = j
  <2>1. i < j \/ j < i \/ i = j
    OBVIOUS
  <2> QED
    BY <1>2, <1>3, <1>5, <2>1
<1> QED
  BY <1>4, <1>5

(* Every place up to the size of the set is taken, by one row each.         *)
LEMMA NthIs ==
    ASSUME NEW S \in SUBSET Nat, IsFiniteSet(S)
    PROVE  /\ \A k \in 1..Cardinality(S) : Nth(S, k) \in S
           /\ \A k, l \in 1..Cardinality(S) : Nth(S, k) = Nth(S, l) => k = l
<1> DEFINE n == Cardinality(S)
           h == [i \in S |-> Cardinality(NewerIn(S, i))]
<1>1. n \in Nat
  BY FS_CardinalityType
<1>2. IsFiniteSet(0..n - 1) /\ Cardinality(0..n - 1) = n
  <2>1. /\ IsFiniteSet(0..n - 1)
        /\ Cardinality(0..n - 1) = IF 0 > n - 1 THEN 0 ELSE (n - 1) - 0 + 1
    BY <1>1, FS_Interval, SMTT(60)
  <2> QED
    BY <1>1, <2>1
<1>3. h \in Injection(S, 0..n - 1)
  BY NewerCount DEF Injection, IsInjective
<1> HIDE DEF h
<1>4. h \in Surjection(S, 0..n - 1)
  BY <1>2, <1>3, FS_Injection
<1>5. \A m \in 0..n - 1 : \E i \in S : Cardinality(NewerIn(S, i)) = m
  BY <1>4 DEF Surjection, h
<1>6. ASSUME NEW k \in 1..n
      PROVE  Nth(S, k) \in S /\ Cardinality(NewerIn(S, Nth(S, k))) = k - 1
  <2>1. k - 1 \in 0..n - 1
    BY <1>1
  <2>2. \E i \in S : Cardinality(NewerIn(S, i)) = k - 1
    BY <1>5, <2>1
  <2> QED
    BY <2>2 DEF Nth
<1>7. ASSUME NEW k \in 1..n, NEW l \in 1..n, Nth(S, k) = Nth(S, l) PROVE k = l
  <2>1. k - 1 = l - 1
    BY <1>6, <1>7
  <2> QED
    BY <1>1, <2>1
<1> QED
  BY <1>6, <1>7

-----------------------------------------------------------------------------
(* The rows: what the settlement service adds keeps them fit for the sums   *)

LedgerEntry == [booking : LedgerBookings, kind : Kinds, confirmed : BOOLEAN,
                amount : Nat, commission : Nat, usage : Nat]

RowsTyped == rows \in Seq(LedgerEntry) /\ Len(rows) <= MaxRows /\ escrow \subseteq LedgerBookings

(* A booking has one confirmed lock and at most one confirmed close, and no *)
(* close without its lock.                                                  *)
OneOfEach ==
    /\ \A i, j \in Opens : rows[i].booking = rows[j].booking => i = j
    /\ \A i, j \in Closes : rows[i].booking = rows[j].booking => i = j
    /\ \A j \in Closes : \E i \in Opens : rows[i].booking = rows[j].booking

EscrowIsOpen ==
    \A b \in LedgerBookings :
        b \in escrow <=> (\E i \in Opens : rows[i].booking = b) /\ b \notin ClosedBookings

(* A close pays no more than its booking locked, and the commission is part *)
(* of it.                                                                   *)
AmountsFit ==
    /\ \A i \in Opens : rows[i].amount = Lock[rows[i].booking]
    /\ \A i \in Closes : /\ rows[i].amount <= Lock[rows[i].booking]
                         /\ rows[i].commission <= rows[i].amount

RowsFit == RowsTyped /\ OneOfEach /\ EscrowIsOpen /\ AmountsFit

LEMMA PlacesFinite ==
    ASSUME RowsTyped
    PROVE  /\ DOMAIN rows = 1..Len(rows) /\ Len(rows) \in Nat
           /\ IsFiniteSet(DOMAIN rows) /\ Cardinality(DOMAIN rows) = Len(rows)
           /\ \A S \in SUBSET DOMAIN rows : IsFiniteSet(S)
           /\ \A i \in DOMAIN rows : rows[i] \in LedgerEntry
           /\ Opens \in SUBSET DOMAIN rows /\ Closes \in SUBSET DOMAIN rows
           /\ Opens \cap Closes = {} /\ StillOpen \in SUBSET Opens
<1>1. DOMAIN rows = 1..Len(rows) /\ Len(rows) \in Nat /\ \A i \in DOMAIN rows : rows[i] \in LedgerEntry
  BY DEF RowsTyped
<1>2. IsFiniteSet(DOMAIN rows) /\ Cardinality(DOMAIN rows) = Len(rows)
  <2>1. /\ IsFiniteSet(1..Len(rows))
        /\ Cardinality(1..Len(rows)) = IF 1 > Len(rows) THEN 0 ELSE Len(rows) - 1 + 1
    BY <1>1, FS_Interval
  <2> QED
    BY <1>1, <2>1
<1>3. \A S \in SUBSET DOMAIN rows : IsFiniteSet(S)
  BY <1>2, FS_Subset
<1>4. Opens \in SUBSET DOMAIN rows /\ Closes \in SUBSET DOMAIN rows /\ Opens \cap Closes = {}
  BY DEF Opens, Closes, Confirmed
<1>5. StillOpen \in SUBSET Opens
  BY DEF StillOpen
<1> QED
  BY <1>1, <1>2, <1>3, <1>4, <1>5

(* A row added at the end leaves the others where they are.                 *)
LEMMA RowsGrow ==
    ASSUME RowsTyped, NEW e \in LedgerEntry, rows' = Append(rows, e)
    PROVE  /\ DOMAIN rows' = DOMAIN rows \cup {Len(rows) + 1} /\ Len(rows) + 1 \notin DOMAIN rows
           /\ rows'[Len(rows) + 1] = e /\ \A i \in DOMAIN rows : rows'[i] = rows[i]
           /\ rows' \in Seq(LedgerEntry) /\ Len(rows') = Len(rows) + 1
           /\ Opens' = IF e.kind = "open" /\ e.confirmed THEN Opens \cup {Len(rows) + 1} ELSE Opens
           /\ Closes' = IF e.kind \in {"settle", "cancel"} /\ e.confirmed
                        THEN Closes \cup {Len(rows) + 1} ELSE Closes
<1>1. /\ DOMAIN rows = 1..Len(rows) /\ Len(rows) \in Nat
      /\ rows' \in Seq(LedgerEntry) /\ Len(rows') = Len(rows) + 1
  BY DEF RowsTyped
<1>2. DOMAIN rows' = DOMAIN rows \cup {Len(rows) + 1} /\ Len(rows) + 1 \notin DOMAIN rows
  BY <1>1
<1>3. rows'[Len(rows) + 1] = e /\ \A i \in DOMAIN rows : rows'[i] = rows[i]
  BY DEF RowsTyped
<1>4. ASSUME NEW kinds
      PROVE  Confirmed(kinds)' = IF e.kind \in kinds /\ e.confirmed
                                 THEN Confirmed(kinds) \cup {Len(rows) + 1} ELSE Confirmed(kinds)
  BY <1>2, <1>3 DEF Confirmed
<1>5. /\ Opens' = IF e.kind = "open" /\ e.confirmed THEN Opens \cup {Len(rows) + 1} ELSE Opens
      /\ Closes' = IF e.kind \in {"settle", "cancel"} /\ e.confirmed
                   THEN Closes \cup {Len(rows) + 1} ELSE Closes
  BY <1>4 DEF Opens, Closes
<1> QED
  BY <1>1, <1>2, <1>3, <1>5

(* A failed attempt changes nothing that counts.                            *)
LEMMA FailedKeepsRows ==
    ASSUME RowsFit, NEW e \in LedgerEntry, Len(rows) < MaxRows, rows' = Append(rows, e),
           ~e.confirmed, escrow' = escrow
    PROVE  RowsFit' /\ ClosedBookings' = ClosedBookings
<1>1. /\ Opens' = Opens /\ Closes' = Closes /\ Opens \subseteq DOMAIN rows /\ Closes \subseteq DOMAIN rows
      /\ \A i \in DOMAIN rows : rows'[i] = rows[i]
      /\ rows' \in Seq(LedgerEntry) /\ Len(rows') = Len(rows) + 1
  BY RowsGrow, PlacesFinite DEF RowsFit
<1>2. ClosedBookings' = ClosedBookings
  BY <1>1 DEF ClosedBookings
<1>3. RowsTyped'
  BY <1>1, LedgerAssumption, PlacesFinite DEF RowsFit, RowsTyped
<1>4. OneOfEach' /\ EscrowIsOpen' /\ AmountsFit'
  BY <1>1, <1>2 DEF RowsFit, OneOfEach, EscrowIsOpen, AmountsFit
<1> QED
  BY <1>2, <1>3, <1>4 DEF RowsFit

(* settle_on_activate: a confirmed lock is the first of its booking.        *)
LEMMA LockKeepsRows ==
    ASSUME RowsFit, NEW e \in LedgerEntry, Len(rows) < MaxRows, rows' = Append(rows, e),
           e.kind = "open", e.confirmed, e.amount = Lock[e.booking],
           e.booking \notin escrow \cup ClosedBookings, escrow' = escrow \cup {e.booking}
    PROVE  RowsFit' /\ ClosedBookings' = ClosedBookings
<1> DEFINE n == Len(rows) + 1
<1>0. RowsTyped /\ e.booking \in LedgerBookings
  BY DEF RowsFit, LedgerEntry
<1>1. /\ Opens' = Opens \cup {n} /\ Closes' = Closes
      /\ Opens \subseteq DOMAIN rows /\ Closes \subseteq DOMAIN rows /\ n \notin DOMAIN rows
      /\ \A i \in DOMAIN rows : rows'[i] = rows[i]
      /\ rows'[n] = e /\ rows' \in Seq(LedgerEntry) /\ Len(rows') = n
  BY <1>0, RowsGrow, PlacesFinite
<1>2. Len(rows) \in Nat /\ Len(rows') <= MaxRows
  BY <1>0, <1>1, LedgerAssumption, PlacesFinite
<1> HIDE DEF n
<1>3. ClosedBookings' = ClosedBookings
  BY <1>1 DEF ClosedBookings
<1>4. RowsTyped'
  BY <1>0, <1>1, <1>2 DEF RowsTyped
<1>5. \A i \in Opens : rows[i].booking # e.booking
  BY <1>0 DEF RowsFit, EscrowIsOpen
<1>6. OneOfEach'
  BY <1>1, <1>5 DEF RowsFit, OneOfEach
<1>7. EscrowIsOpen'
  BY <1>0, <1>1, <1>3 DEF RowsFit, EscrowIsOpen
<1>8. AmountsFit'
  BY <1>1 DEF RowsFit, AmountsFit
<1> QED
  BY <1>3, <1>4, <1>6, <1>7, <1>8 DEF RowsFit

(* settle_on_close: a confirmed close is the first of a booking locked.     *)
LEMMA CloseKeepsRows ==
    ASSUME RowsFit, NEW e \in LedgerEntry, Len(rows) < MaxRows, rows' = Append(rows, e),
           e.kind \in {"settle", "cancel"}, e.confirmed, e.amount <= Lock[e.booking],
           e.commission <= e.amount,
           e.booking \in escrow, escrow' = escrow \ {e.booking}
    PROVE  RowsFit' /\ ClosedBookings' = ClosedBookings \cup {e.booking}
<1> DEFINE n == Len(rows) + 1
<1>0. RowsTyped /\ e.booking \in LedgerBookings
  BY DEF RowsFit, LedgerEntry
<1>1. /\ Opens' = Opens /\ Closes' = Closes \cup {n}
      /\ Opens \subseteq DOMAIN rows /\ Closes \subseteq DOMAIN rows /\ n \notin DOMAIN rows
      /\ \A i \in DOMAIN rows : rows'[i] = rows[i]
      /\ rows'[n] = e /\ rows' \in Seq(LedgerEntry) /\ Len(rows') = n
  BY <1>0, RowsGrow, PlacesFinite
<1>2. Len(rows) \in Nat /\ Len(rows') <= MaxRows
  BY <1>0, <1>1, LedgerAssumption, PlacesFinite
<1> HIDE DEF n
<1>3. ClosedBookings' = ClosedBookings \cup {e.booking}
  BY <1>1 DEF ClosedBookings
<1>4. RowsTyped'
  BY <1>0, <1>1, <1>2 DEF RowsTyped
<1>5. /\ \E i \in Opens : rows[i].booking = e.booking
      /\ \A i \in Closes : rows[i].booking # e.booking
  BY <1>0 DEF RowsFit, EscrowIsOpen, ClosedBookings
<1>6. OneOfEach'
  BY <1>1, <1>5 DEF RowsFit, OneOfEach
<1>7. EscrowIsOpen'
  BY <1>0, <1>1, <1>3 DEF RowsFit, EscrowIsOpen
<1>8. AmountsFit'
  BY <1>1 DEF RowsFit, AmountsFit
<1> QED
  BY <1>3, <1>4, <1>6, <1>7, <1>8 DEF RowsFit

(* Fifteen per cent of a cost is part of it.                                *)
LEMMA CommissionFits ==
    ASSUME NEW cost \in Nat
    PROVE  (cost * 15) \div 100 \in Nat /\ (cost * 15) \div 100 <= cost
OBVIOUS

(* What one step of the settlement service does to the rows.                *)
LEMMA RecordStep ==
    ASSUME RowsFit, NEW b \in LedgerBookings, RecordOpen(b) \/ RecordClose(b)
    PROVE  /\ RowsFit' /\ \E e \in LedgerEntry : rows' = Append(rows, e)
           /\ paper' = [paper EXCEPT !.quiet = FALSE]
           /\ \/ UNCHANGED <<escrow, ClosedBookings>>
              \/ Promise!ConfirmLock(b) \/ Promise!ConfirmClose(b)
<1> USE LedgerAssumption
<1>1. ASSUME b \notin escrow \cup ClosedBookings, Add(b, "open", TRUE, Lock[b], 0, 0),
             escrow' = escrow \cup {b}
      PROVE  /\ RowsFit' /\ \E e \in LedgerEntry : rows' = Append(rows, e)
             /\ Promise!ConfirmLock(b)
  <2> DEFINE e == [booking |-> b, kind |-> "open", confirmed |-> TRUE,
                   amount |-> Lock[b], commission |-> 0, usage |-> 0]
  <2>1. e \in LedgerEntry /\ Len(rows) < MaxRows /\ rows' = Append(rows, e)
    BY <1>1 DEF Add, LedgerEntry, Kinds
  <2>2. e.booking = b /\ e.kind = "open" /\ e.confirmed /\ e.amount = Lock[b]
    OBVIOUS
  <2> HIDE DEF e
  <2>3. RowsFit' /\ ClosedBookings' = ClosedBookings
    BY <1>1, <2>1, <2>2, LockKeepsRows
  <2> QED
    BY <1>1, <2>1, <2>3 DEF Promise!ConfirmLock
<1>2. ASSUME NEW kind \in {"settle", "cancel"}, NEW c \in Charges, b \in escrow,
             c.cost <= Lock[b], Add(b, kind, TRUE, c.cost, (c.cost * 15) \div 100, c.usage),
             escrow' = escrow \ {b}
      PROVE  /\ RowsFit' /\ \E e \in LedgerEntry : rows' = Append(rows, e)
             /\ Promise!ConfirmClose(b)
  <2> DEFINE com == (c.cost * 15) \div 100
             e == [booking |-> b, kind |-> kind, confirmed |-> TRUE,
                   amount |-> c.cost, commission |-> com, usage |-> c.usage]
  <2>0. c.cost \in Nat /\ c.usage \in Nat
    OBVIOUS
  <2>1. com \in Nat /\ com <= c.cost
    BY <2>0, CommissionFits
  <2>2. Len(rows) < MaxRows /\ rows' = Append(rows, e)
    BY <1>2 DEF Add
  <2> HIDE DEF com
  <2>3. e \in LedgerEntry
    BY <2>0, <2>1 DEF LedgerEntry, Kinds
  <2>4. /\ e.booking = b /\ e.kind = kind /\ e.confirmed
        /\ e.amount = c.cost /\ e.commission = com
    OBVIOUS
  <2> HIDE DEF e
  <2>5. RowsFit' /\ ClosedBookings' = ClosedBookings \cup {b}
    BY <1>2, <2>1, <2>2, <2>3, <2>4, CloseKeepsRows
  <2> QED
    BY <1>2, <2>2, <2>3, <2>5 DEF Promise!ConfirmClose
<1>3. ASSUME NEW kind \in Kinds, NEW usage \in Nat, Add(b, kind, FALSE, 0, 0, usage),
             escrow' = escrow
      PROVE  /\ RowsFit' /\ \E e \in LedgerEntry : rows' = Append(rows, e)
             /\ ClosedBookings' = ClosedBookings
  <2> DEFINE e == [booking |-> b, kind |-> kind, confirmed |-> FALSE,
                   amount |-> 0, commission |-> 0, usage |-> usage]
  <2>1. e \in LedgerEntry /\ Len(rows) < MaxRows /\ rows' = Append(rows, e)
    BY <1>3 DEF Add, LedgerEntry
  <2>2. ~e.confirmed
    OBVIOUS
  <2> HIDE DEF e
  <2> QED
    BY <1>3, <2>1, <2>2, FailedKeepsRows
<1>4. paper' = [paper EXCEPT !.quiet = FALSE]
  BY DEF RecordOpen, RecordClose, Add
<1>5. CASE RecordOpen(b)
  BY <1>1, <1>3, <1>4, <1>5 DEF RecordOpen, Kinds
<1>6. CASE RecordClose(b)
  <2>1. PICK kind \in {"settle", "cancel"}, c \in Charges :
            \/ /\ b \in escrow /\ c.cost <= Lock[b]
               /\ Add(b, kind, TRUE, c.cost, (c.cost * 15) \div 100, c.usage)
               /\ escrow' = escrow \ {b}
            \/ Add(b, kind, FALSE, 0, 0, c.usage) /\ UNCHANGED escrow
    BY <1>6 DEF RecordClose
  <2>2. c.usage \in Nat /\ kind \in Kinds
    BY DEF Kinds
  <2> QED
    BY <1>2, <1>3, <1>4, <2>1, <2>2
<1> QED
  BY <1>5, <1>6

-----------------------------------------------------------------------------
(* What a page lists                                                        *)

Lines == {LedgerRowOf(e) : e \in LedgerEntry}

PaperRecord ==
    [at : Steps5 \cup {"shown"}, page : DOMAIN Limit, of : LedgerBookings \cup {AllBookings},
     items : Seq(Lines), figures : [DOMAIN Figures -> Nat], quiet : BOOLEAN, outage : BOOLEAN]

PaperTyped == paper \in PaperRecord /\ Len(paper.items) <= Limit[paper.page]

(* Every line shows a row of its own.                                       *)
AreRows(items) ==
    \E pos \in [DOMAIN items -> DOMAIN rows] :
        /\ \A k, l \in DOMAIN items : pos[k] = pos[l] => k = l
        /\ \A k \in DOMAIN items : items[k] = LedgerRowOf(rows[pos[k]])

(* The newest so many are at most so many.                                  *)
LEMMA EntriesWithinLimit ==
    ASSUME RowsTyped, NEW page \in DOMAIN Limit, NEW of
    PROVE  Cardinality(Entries(page, of)) <= Limit[page]
<1> DEFINE mine == {i \in DOMAIN rows : of \in {AllBookings, rows[i].booking}}
           h == [i \in Entries(page, of) |-> Cardinality(NewerIn(mine, i))]
<1>1. mine \in SUBSET DOMAIN rows /\ DOMAIN rows \subseteq Nat
  BY PlacesFinite
<1>2. mine \in SUBSET Nat /\ IsFiniteSet(mine)
  BY <1>1, PlacesFinite
<1>3. /\ \A i \in mine : Cardinality(NewerIn(mine, i)) \in 0..Cardinality(mine) - 1
      /\ \A i, j \in mine : Cardinality(NewerIn(mine, i)) = Cardinality(NewerIn(mine, j)) => i = j
  BY <1>2, NewerCount
<1>4. Limit[page] \in Nat \ {0}
  BY LedgerAssumption
<1>5. Entries(page, of) = {i \in mine : Cardinality(NewerIn(mine, i)) < Limit[page]}
  BY DEF Entries
<1> HIDE DEF mine
<1>6. h \in Injection(Entries(page, of), 0..Limit[page] - 1)
  <2>1. \A i \in Entries(page, of) : Cardinality(NewerIn(mine, i)) \in 0..Limit[page] - 1
    BY <1>3, <1>4, <1>5
  <2> QED
    BY <1>3, <1>5, <2>1 DEF Injection, IsInjective
<1>7. /\ IsFiniteSet(0..Limit[page] - 1)
      /\ Cardinality(0..Limit[page] - 1) = IF 0 > Limit[page] - 1 THEN 0 ELSE Limit[page] - 1 - 0 + 1
  BY <1>4, FS_Interval, SMTT(60)
<1> HIDE DEF h
<1>8. Cardinality(Entries(page, of)) <= Cardinality(0..Limit[page] - 1)
  BY <1>6, <1>7, FS_Injection
<1> QED
  BY <1>4, <1>7, <1>8

(* What a statement answers is a list of rows, each once, within the limit. *)
LEMMA RowsAreListed ==
    ASSUME RowsTyped, NEW page \in DOMAIN Limit, NEW of
    PROVE  /\ Rows(page, of) \in Seq(Lines) /\ Len(Rows(page, of)) <= Limit[page]
           /\ Len(Rows(page, of)) <= Len(rows)
           /\ AreRows(Rows(page, of))
<1> DEFINE S == Listed(page, of)
           n == Cardinality(S)
<1>1. S \in SUBSET Entries(page, of) /\ Entries(page, of) \in SUBSET DOMAIN rows
  BY DEF Listed, Entries
<1>2. /\ IsFiniteSet(Entries(page, of)) /\ IsFiniteSet(S) /\ S \in SUBSET Nat
      /\ IsFiniteSet(DOMAIN rows) /\ Cardinality(DOMAIN rows) = Len(rows) /\ Len(rows) \in Nat
  BY <1>1, PlacesFinite
<1>3. n \in Nat /\ n <= Limit[page] /\ n <= Len(rows)
  <2>1. n \in Nat /\ Cardinality(Entries(page, of)) \in Nat
    BY <1>2, FS_CardinalityType
  <2>2. n <= Cardinality(Entries(page, of))
    BY <1>1, <1>2, FS_Subset
  <2>3. Cardinality(Entries(page, of)) <= Len(rows)
    BY <1>1, <1>2, FS_Subset
  <2>4. Limit[page] \in Nat
    BY LedgerAssumption
  <2> QED
    BY <1>2, <2>1, <2>2, <2>3, <2>4, EntriesWithinLimit
<1>4. /\ \A k \in 1..n : Nth(S, k) \in S
      /\ \A k, l \in 1..n : Nth(S, k) = Nth(S, l) => k = l
  BY <1>2, NthIs
<1>5. Rows(page, of) = [k \in 1..n |-> LedgerRowOf(rows[Nth(S, k)])]
  BY DEF Rows
<1> HIDE DEF S, n
<1>6. \A k \in 1..n : rows[Nth(S, k)] \in LedgerEntry
  BY <1>1, <1>4, PlacesFinite
<1>7. Rows(page, of) \in Seq(Lines) /\ Len(Rows(page, of)) = n
  BY <1>3, <1>5, <1>6 DEF Lines
<1>8. AreRows(Rows(page, of))
  <2> DEFINE pos == [k \in 1..n |-> Nth(S, k)]
  <2>1. pos \in [1..n -> DOMAIN rows] /\ \A k \in 1..n : pos[k] = Nth(S, k)
    BY <1>1, <1>4
  <2>2. DOMAIN Rows(page, of) = 1..n
    BY <1>5
  <2> HIDE DEF pos
  <2>3. \A k, l \in 1..n : pos[k] = pos[l] => k = l
    BY <1>4, <2>1
  <2>4. \A k \in 1..n : Rows(page, of)[k] = LedgerRowOf(rows[pos[k]])
    BY <1>5, <2>1
  <2> QED
    BY <2>1, <2>2, <2>3, <2>4 DEF AreRows
<1> QED
  BY <1>3, <1>7, <1>8

-----------------------------------------------------------------------------
(* What a page adds up                                                      *)

(* The total is read after the rows.                                        *)
TotalFits == paper.at \in {"closes", "open", "locked"} \/ Shown =>
                 Len(paper.items) <= paper.figures.total

(* The volume is of closes that were there when it was read; what is locked *)
(* is read after it and is of other bookings.                               *)
VolumeFits == paper.at \in {"open", "locked"} =>
                  \E S \in SUBSET Closes : paper.figures.volume = AmountOf(S)

SumsFit == Shown =>
    \E S \in SUBSET Closes, T \in SUBSET Opens :
        /\ paper.figures.volume = AmountOf(S) /\ paper.figures.locked = AmountOf(T)
        /\ \A i \in S, j \in T : rows[i].booking # rows[j].booking

(* While no row comes, what was counted is so still.                        *)
QuietFits == paper.quiet =>
    /\ paper.at = "locked" \/ Shown => paper.figures.open = Cardinality(StillOpen)
    /\ Shown => paper.figures.locked = AmountOf(StillOpen)

LedgerInv ==
    /\ RowsFit
    /\ PaperTyped
    /\ AreRows(paper.items)
    /\ TotalFits
    /\ VolumeFits
    /\ SumsFit
    /\ QuietFits

(* A page that has nothing yet, or shows the fallback.                      *)
EmptyPaper == /\ paper \in PaperRecord /\ paper.items = <<>>
              /\ paper.at = "rows" \/ (paper.at = "shown" /\ paper.outage)

LEMMA EmptyPage == RowsFit /\ EmptyPaper => LedgerInv
<1> SUFFICES ASSUME RowsFit, EmptyPaper PROVE LedgerInv
  OBVIOUS
<1> USE DEF EmptyPaper
<1>1. AreRows(<<>>)
  <2> DEFINE pos == [k \in {} |-> 0]
  <2>1. DOMAIN <<>> = {} /\ pos \in [{} -> DOMAIN rows]
    OBVIOUS
  <2> QED
    BY <2>1 DEF AreRows
<1>2. PaperTyped
  <2>1. Limit[paper.page] \in Nat /\ Len(<<>>) = 0
    BY LedgerAssumption DEF PaperRecord
  <2> QED
    BY <2>1 DEF PaperTyped
<1>3. TotalFits /\ VolumeFits /\ SumsFit /\ QuietFits
  BY DEF TotalFits, VolumeFits, SumsFit, QuietFits, Shown
<1> QED
  BY <1>1, <1>2, <1>3 DEF LedgerInv

LEMMA EmptyLedgerIsRecord ==
    /\ EmptyLedger \in [at : Steps5 \cup {"shown"}, page : {"home"}, of : {AllBookings},
                        items : {<<>>}, figures : [DOMAIN Figures -> Nat],
                        quiet : {TRUE}, outage : {TRUE}]
    /\ EmptyLedger.at = "shown"
<1>1. Figures \in [DOMAIN Figures -> Nat]
  BY DEF Figures
<1> QED
  BY <1>1 DEF EmptyLedger

(* Nothing is recorded, and no page was asked for.                          *)
LEMMA InitLedger == LedgerInit => LedgerInv
<1> SUFFICES ASSUME LedgerInit PROVE LedgerInv
  OBVIOUS
<1>1. rows = <<>> /\ escrow = {} /\ DOMAIN rows = {} /\ Len(rows) = 0
  BY DEF LedgerInit
<1>2. Opens = {} /\ Closes = {}
  BY <1>1 DEF Opens, Closes, Confirmed
<1>3. RowsTyped
  <2>1. rows \in Seq(LedgerEntry)
    BY <1>1
  <2> QED
    BY <1>1, <2>1, LedgerAssumption DEF RowsTyped
<1>4. RowsFit
  BY <1>1, <1>2, <1>3 DEF RowsFit, OneOfEach, EscrowIsOpen, AmountsFit
<1>5. paper = EmptyLedger
  BY DEF LedgerInit
<1>6. <<>> \in Seq(Lines) /\ DOMAIN Limit = {"home", "ledger", "booking"}
  BY LedgerAssumption
<1>7. paper \in PaperRecord
  BY <1>5, <1>6, EmptyLedgerIsRecord DEF PaperRecord
<1>8. paper.items = <<>> /\ paper.at = "shown" /\ paper.outage
  BY <1>5 DEF EmptyLedger
<1> QED
  BY <1>4, <1>7, <1>8, EmptyPage DEF EmptyPaper

(* A statement, a visit and the fallback leave the rows as they are.        *)
LEMMA RowsStay ==
    ASSUME UNCHANGED <<rows, escrow>>
    PROVE  /\ Opens' = Opens /\ Closes' = Closes /\ StillOpen' = StillOpen
           /\ ClosedBookings' = ClosedBookings
           /\ RowsTyped' = RowsTyped /\ RowsFit' = RowsFit
           /\ \A S : AmountOf(S)' = AmountOf(S)
           /\ \A items : AreRows(items)' = AreRows(items)
<1>1. Opens' = Opens /\ Closes' = Closes
  BY DEF Opens, Closes, Confirmed
<1>2. ClosedBookings' = ClosedBookings /\ StillOpen' = StillOpen
  BY <1>1 DEF ClosedBookings, StillOpen
<1>3. RowsTyped' = RowsTyped
  BY DEF RowsTyped
<1>4. RowsFit' = RowsFit
  BY <1>1, <1>2, <1>3 DEF RowsFit, OneOfEach, EscrowIsOpen, AmountsFit
<1>5. \A S : AmountOf(S)' = AmountOf(S)
  BY DEF AmountOf
<1>6. \A items : AreRows(items)' = AreRows(items)
  BY DEF AreRows
<1> QED
  BY <1>1, <1>2, <1>3, <1>4, <1>5, <1>6

(* What a row adds does not change what was added up before.                *)
LEMMA RecordInv ==
    ASSUME LedgerInv, NEW b \in LedgerBookings, RecordOpen(b) \/ RecordClose(b)
    PROVE  LedgerInv'
<1>1. /\ RowsFit /\ RowsFit' /\ paper' = [paper EXCEPT !.quiet = FALSE]
  BY RecordStep DEF LedgerInv
<1>2. PICK e \in LedgerEntry : rows' = Append(rows, e)
  BY RecordStep DEF LedgerInv
<1>3. /\ DOMAIN rows \subseteq DOMAIN rows' /\ \A i \in DOMAIN rows : rows'[i] = rows[i]
      /\ Opens \subseteq Opens' /\ Closes \subseteq Closes'
      /\ Opens \in SUBSET DOMAIN rows /\ Closes \in SUBSET DOMAIN rows
  BY <1>1, <1>2, RowsGrow, PlacesFinite DEF RowsFit
<1>4. /\ paper' \in PaperRecord /\ paper'.at = paper.at /\ paper'.page = paper.page
      /\ paper'.items = paper.items /\ paper'.figures = paper.figures
      /\ ~paper'.quiet /\ paper'.outage = paper.outage
  BY <1>1 DEF LedgerInv, PaperTyped, PaperRecord
<1>5. ASSUME NEW S \in SUBSET DOMAIN rows PROVE AmountOf(S)' = AmountOf(S)
  BY <1>3 DEF AmountOf
<1>6. AreRows(paper.items)'
  <2>1. PICK pos \in [DOMAIN paper.items -> DOMAIN rows] :
          /\ \A k, l \in DOMAIN paper.items : pos[k] = pos[l] => k = l
          /\ \A k \in DOMAIN paper.items : paper.items[k] = LedgerRowOf(rows[pos[k]])
    BY DEF LedgerInv, AreRows
  <2>2. pos \in [DOMAIN paper'.items -> DOMAIN rows']
    BY <1>3, <1>4, <2>1
  <2>3. \A k \in DOMAIN paper'.items : paper'.items[k] = LedgerRowOf(rows'[pos[k]])
    BY <1>3, <1>4, <2>1
  <2> QED
    BY <1>4, <2>1, <2>2, <2>3 DEF AreRows
<1>7. PaperTyped' /\ TotalFits' /\ QuietFits'
  BY <1>4 DEF LedgerInv, PaperTyped, TotalFits, QuietFits, Shown
<1>8. VolumeFits'
  BY <1>3, <1>4, <1>5 DEF LedgerInv, VolumeFits
<1>9. SumsFit'
  <2>1. SUFFICES ASSUME Shown
                 PROVE  \E S \in SUBSET Closes', T \in SUBSET Opens' :
                          /\ paper.figures.volume = AmountOf(S)'
                          /\ paper.figures.locked = AmountOf(T)'
                          /\ \A i \in S, j \in T : rows'[i].booking # rows'[j].booking
    BY <1>4 DEF SumsFit, Shown
  <2>2. PICK S \in SUBSET Closes, T \in SUBSET Opens :
          /\ paper.figures.volume = AmountOf(S) /\ paper.figures.locked = AmountOf(T)
          /\ \A i \in S, j \in T : rows[i].booking # rows[j].booking
    BY <2>1 DEF LedgerInv, SumsFit
  <2>3. AmountOf(S)' = AmountOf(S) /\ AmountOf(T)' = AmountOf(T)
    BY <1>3, <1>5, <2>2
  <2>4. \A i \in S, j \in T : rows'[i].booking # rows'[j].booking
    BY <1>3, <2>2
  <2> QED
    BY <1>3, <2>2, <2>3, <2>4
<1> QED
  BY <1>1, <1>4, <1>6, <1>7, <1>8, <1>9 DEF LedgerInv

(* A page is asked for, or gives up.                                        *)
LEMMA FreshPageInv ==
    ASSUME LedgerInv, Fallback \/ \E page \in DOMAIN Limit,
                                     of \in LedgerBookings \cup {AllBookings} : Visit(page, of)
    PROVE  LedgerInv'
<1>1. UNCHANGED <<rows, escrow>>
  BY DEF Fallback, Visit
<1>2. RowsFit'
  BY <1>1, RowsStay DEF LedgerInv
<1>3. <<>> \in Seq(Lines)
  OBVIOUS
<1>4. RowsFit' /\ EmptyPaper' => LedgerInv'
  BY EmptyPage, PTL
<1>5. CASE Fallback
  <2>1. /\ paper' \in PaperRecord /\ paper'.items = <<>>
        /\ paper'.at = "shown" /\ paper'.outage
    BY <1>3, <1>5, EmptyLedgerIsRecord DEF Fallback, LedgerInv, PaperTyped, PaperRecord
  <2> QED
    BY <1>2, <1>4, <2>1 DEF EmptyPaper
<1>6. ASSUME NEW page \in DOMAIN Limit, NEW of \in LedgerBookings \cup {AllBookings},
             Visit(page, of)
      PROVE  LedgerInv'
  <2>1. /\ paper' \in PaperRecord /\ paper'.items = <<>> /\ paper'.at = "rows"
    BY <1>3, <1>6, EmptyLedgerIsRecord, ZenonT(60) DEF Visit, PaperRecord, NextStatement, Steps5
  <2> QED
    BY <1>2, <1>4, <2>1 DEF EmptyPaper
<1> QED
  BY <1>5, <1>6

(* Sums and counts of rows are natural numbers.                             *)
LEMMA SumsAreNatural ==
    ASSUME RowsTyped, NEW S \in SUBSET DOMAIN rows
    PROVE  AmountOf(S) \in Nat /\ CommissionOn(S) \in Nat /\ Cardinality(S) \in Nat
<1>1. IsFiniteSet(S) /\ \A i \in S : rows[i].amount \in Nat /\ rows[i].commission \in Nat
  BY PlacesFinite DEF LedgerEntry
<1>2. /\ [i \in S |-> rows[i].amount] \in [S -> Nat]
      /\ [i \in S |-> rows[i].commission] \in [S -> Nat]
  BY <1>1
<1> QED
  BY <1>1, <1>2, TotalIsNatural, FS_CardinalityType DEF AmountOf, CommissionOn

(* A list of different rows is no longer than the table.                    *)
LEMMA ListWithinRows ==
    ASSUME RowsTyped, NEW items \in Seq(Lines), AreRows(items)
    PROVE  Len(items) <= Len(rows)
<1>1. PICK pos \in [DOMAIN items -> DOMAIN rows] :
        \A k, l \in DOMAIN items : pos[k] = pos[l] => k = l
  BY DEF AreRows
<1>2. pos \in Injection(DOMAIN items, DOMAIN rows)
  BY <1>1 DEF Injection, IsInjective
<1>3. Cardinality(DOMAIN items) <= Cardinality(DOMAIN rows)
  BY <1>2, FS_Injection, PlacesFinite
<1>4. DOMAIN items = 1..Len(items) /\ Len(items) \in Nat
  OBVIOUS
<1>5. Cardinality(1..Len(items)) = IF 1 > Len(items) THEN 0 ELSE Len(items) - 1 + 1
  BY <1>4, FS_Interval
<1>6. Cardinality(DOMAIN rows) = Len(rows) /\ Len(rows) \in Nat
  BY PlacesFinite
<1> QED
  BY <1>3, <1>4, <1>5, <1>6

(* The statements one by one, each of which sees the rows as they are.      *)
LEMMA StatementInv ==
    ASSUME LedgerInv, NEW step \in Steps5, Statement(step)
    PROVE  LedgerInv'
<1>1. UNCHANGED <<rows, escrow>> /\ paper.at = step
  BY DEF Statement
<1>2. RowsFit' /\ RowsTyped /\ RowsFit
  BY <1>1, RowsStay DEF LedgerInv, RowsFit
<1>3. /\ Opens' = Opens /\ Closes' = Closes /\ StillOpen' = StillOpen
      /\ \A S : AmountOf(S)' = AmountOf(S)
      /\ \A items : AreRows(items)' = AreRows(items)
  BY <1>1, RowsStay
<1>4. /\ paper \in PaperRecord /\ paper.figures \in [DOMAIN Figures -> Nat]
      /\ paper.page \in DOMAIN Limit
  BY DEF LedgerInv, PaperTyped, PaperRecord
<1>5. DOMAIN Figures = {"total", "volume", "commission", "settlements", "open", "locked"}
  BY DEF Figures
<1> DEFINE f == paper.figures
<1>6. CASE step = "rows"
  <2> DEFINE list == Rows(paper.page, paper.of)
  <2>1. /\ list \in Seq(Lines) /\ Len(list) <= Limit[paper.page] /\ AreRows(list)
    BY <1>2, <1>4, RowsAreListed
  <2>2. paper' = [paper EXCEPT !.at = "total", !.items = list, !.figures = f]
    BY <1>6 DEF Statement, NextStatement
  <2> HIDE DEF list
  <2>3. /\ paper' \in PaperRecord /\ paper'.at = "total" /\ paper'.items = list
        /\ paper'.page = paper.page
    BY <1>4, <2>1, <2>2 DEF PaperRecord, Steps5
  <2> QED
    BY <1>2, <1>3, <2>1, <2>3
    DEF LedgerInv, PaperTyped, TotalFits, VolumeFits, SumsFit, QuietFits, Shown
<1>7. ASSUME step # "rows",
             NEW g \in [DOMAIN Figures -> Nat],
             paper' = [paper EXCEPT !.at = NextStatement(step), !.items = paper.items, !.figures = g]
      PROVE  /\ paper' \in PaperRecord /\ paper'.at = NextStatement(step)
             /\ paper'.items = paper.items /\ paper'.figures = g
             /\ paper'.page = paper.page
             /\ paper'.quiet = paper.quiet /\ paper'.outage = paper.outage
             /\ PaperTyped' /\ AreRows(paper.items)'
  <2>1. NextStatement(step) \in Steps5 \cup {"shown"}
    BY DEF Steps5, NextStatement
  <2>2. /\ paper' \in PaperRecord /\ paper'.at = NextStatement(step)
        /\ paper'.items = paper.items /\ paper'.figures = g
        /\ paper'.page = paper.page
        /\ paper'.quiet = paper.quiet /\ paper'.outage = paper.outage
    BY <1>4, <1>7, <2>1 DEF PaperRecord
  <2>3. AreRows(paper.items)'
    BY <1>3, <2>2 DEF LedgerInv
  <2> QED
    BY <2>2, <2>3 DEF LedgerInv, PaperTyped
<1>8. CASE step = "total"
  <2> DEFINE g == [f EXCEPT !.total = Len(rows)]
  <2>1. Len(rows) \in Nat
    BY <1>2, PlacesFinite
  <2>2. g \in [DOMAIN Figures -> Nat] /\ g.total = Len(rows)
    BY <1>4, <1>5, <2>1
  <2>3. paper' = [paper EXCEPT !.at = "closes", !.items = paper.items, !.figures = g]
    BY <1>8 DEF Statement, NextStatement
  <2> HIDE DEF g
  <2>4. /\ paper' \in PaperRecord /\ paper'.at = "closes"
        /\ paper'.items = paper.items /\ paper'.figures = g
        /\ PaperTyped' /\ AreRows(paper.items)'
    BY <1>7, <1>8, <2>2, <2>3 DEF NextStatement
  <2>5. Len(paper.items) <= Len(rows)
    BY <1>2, ListWithinRows DEF LedgerInv, PaperTyped, PaperRecord
  <2> QED
    BY <1>2, <2>2, <2>4, <2>5
    DEF LedgerInv, TotalFits, VolumeFits, SumsFit, QuietFits, Shown
<1>9. CASE step = "closes"
  <2> DEFINE n == Cardinality(Closes)
             v == AmountOf(Closes)
             c == CommissionOn(Closes)
             g == [f EXCEPT !.volume = v, !.commission = c, !.settlements = n]
  <2>1. v \in Nat /\ c \in Nat /\ n \in Nat
    BY <1>2, SumsAreNatural, PlacesFinite
  <2>2. paper' = [paper EXCEPT !.at = "open", !.items = paper.items, !.figures = g]
    BY <1>9 DEF Statement, NextStatement
  <2> HIDE DEF n, v, c
  <2>3. g \in [DOMAIN Figures -> Nat] /\ g.volume = v /\ g.total = f.total
    BY <1>4, <1>5, <2>1
  <2> HIDE DEF g
  <2>4. /\ paper' \in PaperRecord /\ paper'.at = "open"
        /\ paper'.items = paper.items /\ paper'.figures = g
        /\ PaperTyped' /\ AreRows(paper.items)'
    BY <1>7, <1>9, <2>2, <2>3 DEF NextStatement
  <2>5. VolumeFits'
    BY <1>3, <2>3, <2>4 DEF VolumeFits, v
  <2>6. TotalFits'
    BY <1>1, <1>9, <2>3, <2>4 DEF LedgerInv, TotalFits
  <2> QED
    BY <1>2, <2>4, <2>5, <2>6 DEF LedgerInv, SumsFit, QuietFits, Shown
<1>10. CASE step = "open"
  <2> DEFINE n == Cardinality(StillOpen)
             g == [f EXCEPT !.open = n]
  <2>1. n \in Nat
    BY <1>2, SumsAreNatural, PlacesFinite
  <2>2. paper' = [paper EXCEPT !.at = "locked", !.items = paper.items, !.figures = g]
    BY <1>10 DEF Statement, NextStatement
  <2> HIDE DEF n
  <2>3. /\ g \in [DOMAIN Figures -> Nat] /\ g.open = n
        /\ g.volume = f.volume /\ g.total = f.total
    BY <1>4, <1>5, <2>1
  <2> HIDE DEF g
  <2>4. /\ paper' \in PaperRecord /\ paper'.at = "locked"
        /\ paper'.items = paper.items /\ paper'.figures = g
        /\ PaperTyped' /\ AreRows(paper.items)'
    BY <1>7, <1>10, <2>2, <2>3 DEF NextStatement
  <2>5. VolumeFits' /\ TotalFits'
    BY <1>1, <1>3, <1>10, <2>3, <2>4 DEF LedgerInv, VolumeFits, TotalFits
  <2>6. QuietFits'
    BY <1>3, <2>3, <2>4 DEF QuietFits, Shown, n
  <2> QED
    BY <1>2, <2>4, <2>5, <2>6 DEF LedgerInv, SumsFit, Shown
<1>11. CASE step = "locked"
  <2> DEFINE v == AmountOf(StillOpen)
             g == [f EXCEPT !.locked = v]
  <2>1. v \in Nat
    BY <1>2, SumsAreNatural, PlacesFinite
  <2>2. paper' = [paper EXCEPT !.at = "shown", !.items = paper.items, !.figures = g]
    BY <1>11 DEF Statement, NextStatement
  <2> HIDE DEF v
  <2>3. /\ g \in [DOMAIN Figures -> Nat] /\ g.locked = v
        /\ g.volume = f.volume /\ g.total = f.total /\ g.open = f.open
    BY <1>4, <1>5, <2>1
  <2> HIDE DEF g
  <2>4. /\ paper' \in PaperRecord /\ paper'.at = "shown" /\ paper'.quiet = paper.quiet
        /\ paper'.items = paper.items /\ paper'.figures = g
        /\ PaperTyped' /\ AreRows(paper.items)'
    BY <1>7, <1>11, <2>2, <2>3 DEF NextStatement
  <2>5. VolumeFits' /\ TotalFits'
    BY <1>1, <1>11, <2>3, <2>4 DEF LedgerInv, VolumeFits, TotalFits
  <2>6. QuietFits'
    BY <1>1, <1>3, <1>11, <2>3, <2>4 DEF LedgerInv, QuietFits, v
  <2>7. SumsFit'
    <3>1. PICK S \in SUBSET Closes : f.volume = AmountOf(S)
      BY <1>1, <1>11 DEF LedgerInv, VolumeFits
    <3>2. StillOpen \in SUBSET Opens /\ \A i \in S, j \in StillOpen : rows[i].booking # rows[j].booking
      BY <3>1 DEF StillOpen, ClosedBookings
    <3> QED
      BY <1>1, <1>3, <2>3, <2>4, <3>1, <3>2 DEF SumsFit, v
  <2> QED
    BY <1>2, <2>4, <2>5, <2>6, <2>7 DEF LedgerInv
<1> QED
  BY <1>6, <1>8, <1>9, <1>10, <1>11 DEF Steps5

(* Whatever is recorded while a page loads.                                 *)
LEMMA LedgerStep == LedgerInv /\ [LedgerNext]_ledgerVars => LedgerInv'
<1> SUFFICES ASSUME LedgerInv, [LedgerNext]_ledgerVars PROVE LedgerInv'
  OBVIOUS
<1>1. CASE UNCHANGED ledgerVars
  <2>1. UNCHANGED <<rows, escrow, paper>>
    BY <1>1 DEF ledgerVars
  <2>2. RowsFit' /\ AreRows(paper.items)'
    BY <2>1, RowsStay DEF LedgerInv
  <2>3. VolumeFits' /\ SumsFit'
    BY <2>1, RowsStay DEF LedgerInv, VolumeFits, SumsFit, Shown
  <2>4. PaperTyped' /\ TotalFits' /\ QuietFits'
    BY <2>1, RowsStay DEF LedgerInv, PaperTyped, TotalFits, QuietFits, Shown
  <2> QED
    BY <2>2, <2>3, <2>4 DEF LedgerInv
<1> QED
  BY <1>1, RecordInv, FreshPageInv, StatementInv DEF LedgerNext

THEOREM LedgerInvariant == LedgerSpec => []LedgerInv
BY InitLedger, LedgerStep, PTL DEF LedgerSpec

-----------------------------------------------------------------------------
(* What it is for                                                           *)

(* The rows, the figures and the lists of GET /v1/ledger keep their types   *)
(* and no page lists more rows than it asked for.                           *)
THEOREM LedgerTypeCorrect == LedgerSpec => []LedgerTypeOK
<1>1. LedgerInv => LedgerTypeOK
  BY DEF LedgerInv, RowsFit, RowsTyped, PaperTyped, PaperRecord, LedgerEntry, LedgerTypeOK
<1> QED
  BY <1>1, LedgerInvariant, PTL

(* Every close goes under the lock of its own booking, and what is still    *)
(* locked is of others.                                                     *)
LEMMA MoneyOnce ==
    ASSUME RowsFit, NEW S \in SUBSET Closes, NEW T \in SUBSET Opens,
           \A i \in S, j \in T : rows[i].booking # rows[j].booking
    PROVE  AmountOf(S) + AmountOf(T) <= AmountOf(Opens)
<1> DEFINE LockOf(i) == CHOOSE j \in Opens : rows[j].booking = rows[i].booking
           f == [i \in S \cup T |-> rows[i].amount]
           g == [i \in Opens |-> rows[i].amount]
           h == [i \in S \cup T |-> IF i \in T THEN i ELSE LockOf(i)]
<1>1. /\ Opens \in SUBSET DOMAIN rows /\ Closes \in SUBSET DOMAIN rows /\ Opens \cap Closes = {}
      /\ \A i \in DOMAIN rows : rows[i] \in LedgerEntry
      /\ IsFiniteSet(S) /\ IsFiniteSet(T) /\ IsFiniteSet(Opens)
  BY PlacesFinite DEF RowsFit
<1>2. \A i \in DOMAIN rows : rows[i].amount \in Nat /\ rows[i].booking \in LedgerBookings
  BY <1>1 DEF LedgerEntry
<1>3. ASSUME NEW i \in S
      PROVE  LockOf(i) \in Opens /\ rows[LockOf(i)].booking = rows[i].booking
  <2>1. \E j \in Opens : rows[j].booking = rows[i].booking
    BY DEF RowsFit, OneOfEach
  <2> QED
    BY <2>1
<1> HIDE DEF LockOf
<1>4. /\ f \in [S \cup T -> Nat] /\ g \in [Opens -> Nat] /\ h \in [S \cup T -> Opens]
  BY <1>1, <1>2, <1>3
<1>5. ASSUME NEW i \in S \cup T PROVE f[i] <= g[h[i]]
  <2>1. CASE i \in T
    BY <1>1, <1>2, <2>1
  <2>2. CASE i \notin T
    <3>1. i \in S /\ h[i] = LockOf(i)
      BY <2>2
    <3>2. rows[i].amount <= Lock[rows[i].booking]
      BY <3>1 DEF RowsFit, AmountsFit
    <3>3. rows[LockOf(i)].amount = Lock[rows[i].booking]
      BY <1>3, <3>1 DEF RowsFit, AmountsFit
    <3> QED
      BY <1>3, <3>1, <3>2, <3>3
  <2> QED
    BY <2>1, <2>2
<1>6. ASSUME NEW i \in S \cup T, NEW j \in S \cup T, h[i] = h[j] PROVE i = j
  <2>1. CASE i \in T /\ j \in T
    BY <1>6, <2>1
  <2>2. CASE i \notin T /\ j \notin T
    BY <1>3, <1>6, <2>2 DEF RowsFit, OneOfEach
  <2>3. CASE i \in T /\ j \notin T
    BY <1>3, <1>6, <2>3
  <2>4. CASE i \notin T /\ j \in T
    BY <1>3, <1>6, <2>4
  <2> QED
    BY <2>1, <2>2, <2>3, <2>4
<1>7. Total(f) <= Total(g)
  <2> HIDE DEF f, g, h
  <2> QED
    BY <1>1, <1>4, <1>5, <1>6, TotalUnder, SMTT(60)
<1>8. /\ S \cap T = {} /\ [i \in S |-> f[i]] = [i \in S |-> rows[i].amount]
      /\ [i \in T |-> f[i]] = [i \in T |-> rows[i].amount]
  BY <1>1
<1>9. Total(f) = AmountOf(S) + AmountOf(T)
  <2>1. Total(f) = Total([i \in S |-> f[i]]) + Total([i \in T |-> f[i]])
    <3>1. IsFiniteSet(S) /\ IsFiniteSet(T) /\ S \cap T = {} /\ f \in [S \cup T -> Nat]
      BY <1>1, <1>4, <1>8
    <3> HIDE DEF f
    <3> QED
      BY ONLY <3>1, TotalOfUnion
  <2> QED
    BY <1>8, <2>1 DEF AmountOf
<1> QED
  BY <1>7, <1>9 DEF AmountOf

(* The rows that are still open are the bookings in escrow, one each.       *)
LEMMA OpenIsEscrow ==
    ASSUME RowsFit
    PROVE  /\ Total([b \in escrow |-> Lock[b]]) = AmountOf(StillOpen)
           /\ Cardinality(StillOpen) = Cardinality(escrow)
<1> DEFINE h == [i \in StillOpen |-> rows[i].booking]
           k == [b \in escrow |-> CHOOSE i \in StillOpen : rows[i].booking = b]
           f == [i \in StillOpen |-> rows[i].amount]
           g == [b \in escrow |-> Lock[b]]
<1>1. /\ StillOpen \in SUBSET Opens /\ IsFiniteSet(StillOpen)
      /\ \A i \in StillOpen : rows[i] \in LedgerEntry
      /\ escrow \subseteq LedgerBookings
  BY PlacesFinite DEF RowsFit, RowsTyped
<1>2. \A i \in StillOpen : /\ rows[i].booking \in escrow
                          /\ rows[i].amount = Lock[rows[i].booking] /\ rows[i].amount \in Nat
  BY <1>1 DEF RowsFit, EscrowIsOpen, AmountsFit, StillOpen, LedgerEntry
<1>3. \A b \in escrow : \E i \in StillOpen : rows[i].booking = b
  BY <1>1 DEF RowsFit, EscrowIsOpen, StillOpen
<1>4. \A i, j \in StillOpen : rows[i].booking = rows[j].booking => i = j
  BY <1>1 DEF RowsFit, OneOfEach
<1>5. \A b \in escrow : k[b] \in StillOpen /\ rows[k[b]].booking = b
  BY <1>3
<1>6. h \in Bijection(StillOpen, escrow)
  BY <1>2, <1>3, <1>4 DEF Bijection, Injection, IsInjective, Surjection
<1>7. IsFiniteSet(escrow) /\ Cardinality(escrow) = Cardinality(StillOpen)
  <2> HIDE DEF h
  <2> QED
    BY <1>1, <1>6, FS_Bijection DEF ExistsBijection
<1>8. /\ f \in [StillOpen -> Nat] /\ g \in [escrow -> Nat]
      /\ h \in [StillOpen -> escrow] /\ k \in [escrow -> StillOpen]
  BY <1>1, <1>2, <1>5, LedgerAssumption
<1>9. /\ \A i \in StillOpen : f[i] <= g[h[i]]
      /\ \A i, j \in StillOpen : h[i] = h[j] => i = j
  BY <1>2, <1>4
<1>10. /\ \A b \in escrow : g[b] <= f[k[b]]
       /\ \A b, c \in escrow : k[b] = k[c] => b = c
  <2>1. ASSUME NEW b \in escrow PROVE g[b] <= f[k[b]]
    BY <1>2, <1>5
  <2>2. ASSUME NEW b \in escrow, NEW c \in escrow, k[b] = k[c] PROVE b = c
    BY <1>5, <2>2
  <2> QED
    BY <2>1, <2>2
<1> HIDE DEF f, g, h, k
<1>11. Total(f) <= Total(g)
  BY <1>7, <1>8, <1>9, TotalUnder, ZenonT(60)
<1>12. Total(g) <= Total(f)
  BY <1>1, <1>8, <1>10, TotalUnder, ZenonT(60)
<1>13. Total(f) \in Nat /\ Total(g) \in Nat
  BY <1>1, <1>7, <1>8, TotalIsNatural
<1> QED
  BY <1>7, <1>11, <1>12, <1>13 DEF f, g, AmountOf

(* Rounding is at most half a unit off.                                     *)
LEMMA HalfAUnit ==
    ASSUME NEW n \in Nat, NEW unit \in Nat \ {0}
    PROVE  /\ RoundTo(n, unit) * unit <= n + unit \div 2
           /\ n <= RoundTo(n, unit) * unit + unit \div 2
<1> DEFINE half == unit \div 2
           q == (n + half) \div unit
<1>1. half \in Nat /\ unit <= 2 * half + 1
  OBVIOUS
<1> HIDE DEF half
<1>2. q \in Nat /\ q * unit <= n + half /\ n + half < q * unit + unit
  BY <1>1
<1> HIDE DEF q
<1>3. q * unit \in Nat
  BY <1>2
<1>4. n <= q * unit + half
  BY <1>1, <1>2, <1>3
<1> QED
  BY <1>2, <1>4 DEF RoundTo, q, half

(* So is a duration shown in hours and minutes.                             *)
LEMMA HalfAMinute ==
    ASSUME NEW s \in Nat
    PROVE  LET d == FormatDuration(s) IN
           /\ (d.h * 60 + d.m) * 60 <= (s - d.s) + 60 \div 2
           /\ s - d.s <= (d.h * 60 + d.m) * 60 + 60 \div 2
<1>1. CASE s < 60
  BY <1>1 DEF FormatDuration
<1>2. CASE ~(s < 60)
  <2> DEFINE r == s % 3600
             m == RoundTo(r, 60)
             h == s \div 3600
  <2>1. FormatDuration(s) = [h |-> h, m |-> m, s |-> 0]
    BY <1>2 DEF FormatDuration
  <2>2. r \in Nat /\ h \in Nat /\ s = h * 3600 + r
    OBVIOUS
  <2> HIDE DEF r, h
  <2>3. m * 60 <= r + 60 \div 2 /\ r <= m * 60 + 60 \div 2
    BY <2>2, HalfAUnit
  <2>4. m \in Nat
    BY <2>2 DEF RoundTo
  <2> HIDE DEF m
  <2> QED
    BY <2>1, <2>2, <2>3, <2>4
<1> QED
  BY <1>1, <1>2

(* The five statements of one answer, however many settlements come between *)
(* them: what is shown as locked and as settled was locked once.            *)
THEOREM NoDollarTwice == LedgerSpec => []MoneyCountedOnce
<1>1. LedgerInv => MoneyCountedOnce
  <2>1. SUFFICES ASSUME LedgerInv, Shown
                 PROVE  paper.figures.locked + paper.figures.volume <= AmountOf(Opens)
    BY DEF MoneyCountedOnce
  <2>2. PICK S \in SUBSET Closes, T \in SUBSET Opens :
          /\ paper.figures.volume = AmountOf(S) /\ paper.figures.locked = AmountOf(T)
          /\ \A i \in S, j \in T : rows[i].booking # rows[j].booking
    BY <2>1 DEF LedgerInv, SumsFit
  <2>3. RowsFit /\ AmountOf(S) + AmountOf(T) <= AmountOf(Opens)
    BY <2>1, <2>2, MoneyOnce DEF LedgerInv
  <2>4. AmountOf(S) \in Nat /\ AmountOf(T) \in Nat
    BY <2>2, <2>3, SumsAreNatural, PlacesFinite DEF RowsFit
  <2> QED
    BY <2>2, <2>3, <2>4
<1> QED
  BY <1>1, LedgerInvariant, PTL

(* A page that no settlement came between shows the escrow of the bookings  *)
(* as it is, and how many there are.                                        *)
THEOREM QuietPageIsExact == LedgerSpec => []QuietIsExact
<1>1. LedgerInv => QuietIsExact
  BY OpenIsEscrow DEF LedgerInv, QuietFits, QuietIsExact
<1> QED
  BY <1>1, LedgerInvariant, PTL

(* A page never says it shows more rows than there are.                     *)
THEOREM TotalIsEnough == LedgerSpec => []TotalCoversRows
<1>1. LedgerInv => TotalCoversRows
  BY DEF LedgerInv, TotalFits, TotalCoversRows
<1> QED
  BY <1>1, LedgerInvariant, PTL

LEMMA ChipSays ==
    ASSUME NEW e \in LedgerEntry, ChipOf(e) # "failed"
    PROVE  e.confirmed /\ (ChipOf(e) = "escrow lock" <=> e.kind = "open")
BY DEF ChipOf, LedgerEntry, Kinds

(* The chips of a page: one confirmed lock and one confirmed close of a     *)
(* booking, whatever else failed.                                           *)
THEOREM ChipsOnce == LedgerSpec => []OneChipEach
<1>1. LedgerInv => OneChipEach
  <2>1. SUFFICES ASSUME LedgerInv, NEW k \in DOMAIN paper.items, NEW l \in DOMAIN paper.items,
                        paper.items[k].booking = paper.items[l].booking,
                        paper.items[k].chip # "failed", paper.items[l].chip # "failed",
                        (paper.items[k].chip = "escrow lock") = (paper.items[l].chip = "escrow lock")
                 PROVE  k = l
    BY DEF OneChipEach
  <2>2. PICK pos \in [DOMAIN paper.items -> DOMAIN rows] :
          /\ \A m, n \in DOMAIN paper.items : pos[m] = pos[n] => m = n
          /\ \A m \in DOMAIN paper.items : paper.items[m] = LedgerRowOf(rows[pos[m]])
    BY <2>1 DEF LedgerInv, AreRows
  <2>3. PICK i \in DOMAIN rows, j \in DOMAIN rows : i = pos[k] /\ j = pos[l]
    BY <2>2
  <2>4. rows[i] \in LedgerEntry /\ rows[j] \in LedgerEntry
    BY <2>1, PlacesFinite DEF LedgerInv, RowsFit
  <2>5. /\ paper.items[k].booking = rows[i].booking /\ paper.items[k].chip = ChipOf(rows[i])
        /\ paper.items[l].booking = rows[j].booking /\ paper.items[l].chip = ChipOf(rows[j])
    <3>1. paper.items[k] = LedgerRowOf(rows[i]) /\ paper.items[l] = LedgerRowOf(rows[j])
      BY <2>2, <2>3
    <3>2. \A e : LedgerRowOf(e).booking = e.booking /\ LedgerRowOf(e).chip = ChipOf(e)
      BY DEF LedgerRowOf
    <3> QED
      BY <3>1, <3>2
  <2>6. /\ rows[i].confirmed /\ rows[j].confirmed /\ rows[i].booking = rows[j].booking
        /\ (rows[i].kind = "open") = (rows[j].kind = "open")
    BY <2>1, <2>4, <2>5, ChipSays
  <2>7. rows[i].kind \in Kinds /\ rows[j].kind \in Kinds
    BY <2>4 DEF LedgerEntry
  <2>8. \/ i \in Opens /\ j \in Opens
        \/ i \in Closes /\ j \in Closes
    BY <2>6, <2>7 DEF Opens, Closes, Confirmed, Kinds
  <2>9. i = j
    BY <2>1, <2>6, <2>8 DEF LedgerInv, RowsFit, OneOfEach
  <2> QED
    BY <2>2, <2>3, <2>9
<1> QED
  BY <1>1, LedgerInvariant, PTL

(* formatUsdc and formatDuration: no line is off by more than half a cent,  *)
(* nor half a minute, in its amount, its usage or its split.                *)
THEOREM LinesRounded == LedgerSpec => []ShownRounded
<1>1. ASSUME RowsFit, NEW n \in DOMAIN rows, NEW r, r = LedgerRowOf(rows[n])
      PROVE  /\ (r.usage.h * 60 + r.usage.m) * 60 <= (r.of.usage - r.usage.s) + 60 \div 2
             /\ r.of.usage - r.usage.s <= (r.usage.h * 60 + r.usage.m) * 60 + 60 \div 2
             /\ r.amount * CentUnits <= r.of.amount + CentUnits \div 2
             /\ r.of.amount <= r.amount * CentUnits + CentUnits \div 2
             /\ r.split # <<>> =>
                  LET net == r.of.amount - r.of.commission IN
                  /\ r.split[1] * CentUnits <= net + CentUnits \div 2
                  /\ net <= r.split[1] * CentUnits + CentUnits \div 2
                  /\ r.split[2] * CentUnits <= r.of.commission + CentUnits \div 2
                  /\ r.of.commission <= r.split[2] * CentUnits + CentUnits \div 2
  <2> DEFINE e == rows[n]
  <2>1. e \in LedgerEntry /\ CentUnits \in Nat \ {0}
    BY <1>1, PlacesFinite, LedgerAssumption DEF RowsFit
  <2>2. e.amount \in Nat /\ e.commission \in Nat /\ e.usage \in Nat /\ e.kind \in Kinds
    BY <2>1 DEF LedgerEntry
  <2>3. /\ r.of = e /\ r.usage = FormatDuration(e.usage)
        /\ r.amount = RoundTo(e.amount, CentUnits)
        /\ r.split # <<>> => /\ e.kind # "open" /\ e.confirmed
                            /\ r.split[1] = RoundTo(e.amount - e.commission, CentUnits)
                            /\ r.split[2] = RoundTo(e.commission, CentUnits)
    BY <1>1 DEF LedgerRowOf, FormatUsdc
  <2>4. r.split # <<>> => e.commission <= e.amount
    BY <1>1, <2>2, <2>3 DEF RowsFit, AmountsFit, Closes, Confirmed, Kinds
  <2> HIDE DEF e
  <2>5. /\ (r.usage.h * 60 + r.usage.m) * 60 <= (r.of.usage - r.usage.s) + 60 \div 2
        /\ r.of.usage - r.usage.s <= (r.usage.h * 60 + r.usage.m) * 60 + 60 \div 2
    BY <2>2, <2>3, HalfAMinute
  <2>6. /\ r.amount * CentUnits <= r.of.amount + CentUnits \div 2
        /\ r.of.amount <= r.amount * CentUnits + CentUnits \div 2
    BY <2>1, <2>2, <2>3, HalfAUnit
  <2>7. ASSUME r.split # <<>>
        PROVE  LET net == r.of.amount - r.of.commission IN
               /\ r.split[1] * CentUnits <= net + CentUnits \div 2
               /\ net <= r.split[1] * CentUnits + CentUnits \div 2
               /\ r.split[2] * CentUnits <= r.of.commission + CentUnits \div 2
               /\ r.of.commission <= r.split[2] * CentUnits + CentUnits \div 2
    <3>1. e.amount - e.commission \in Nat
      BY <2>2, <2>4, <2>7
    <3> QED
      BY <2>1, <2>2, <2>3, <2>7, <3>1, HalfAUnit
  <2> QED
    BY <2>5, <2>6, <2>7
<1>2. LedgerInv => ShownRounded
  <2>1. SUFFICES ASSUME LedgerInv, NEW k \in DOMAIN paper.items
                 PROVE  \E n \in DOMAIN rows : paper.items[k] = LedgerRowOf(rows[n])
    BY <1>1 DEF ShownRounded, LedgerInv
  <2> QED
    BY <2>1 DEF LedgerInv, AreRows
<1> QED
  BY <1>2, LedgerInvariant, PTL

(* What a page of the public ledger shows fits together and with the        *)
(* contract, whatever is recorded while it loads.                           *)
THEOREM PagesAddUp == LedgerSpec => []PageAddsUp
BY NoDollarTwice, QuietPageIsExact, TotalIsEnough, ChipsOnce, LinesRounded, PTL DEF PageAddsUp

(* The confirmed rows come as SettlementRecord promises and settlement_txs, *)
(* by LedgerKeepsRecord of BookingSettlementProofs, gives them.             *)
THEOREM RowsKeepRecord == LedgerSpec => Promise!Spec
<1>1. LedgerInit => Promise!Init
  BY DEF LedgerInit, Promise!Init, ClosedBookings, Closes, Confirmed
<1>2. LedgerInv /\ [LedgerNext]_ledgerVars => [Promise!Next]_(Promise!record)
  <2>1. ASSUME LedgerInv, NEW b \in LedgerBookings, RecordOpen(b) \/ RecordClose(b)
        PROVE  [Promise!Next]_(Promise!record)
    BY <2>1, RecordStep DEF LedgerInv, Promise!Next, Promise!record
  <2>2. ASSUME UNCHANGED <<rows, escrow>> PROVE UNCHANGED Promise!record
    BY <2>2, RowsStay DEF Promise!record
  <2>3. ASSUME LedgerNext
        PROVE  \/ \E b \in LedgerBookings : RecordOpen(b) \/ RecordClose(b)
               \/ UNCHANGED <<rows, escrow>>
    BY <2>3 DEF LedgerNext, Visit, Statement, Fallback
  <2> QED
    BY <2>1, <2>2, <2>3 DEF ledgerVars
<1> QED
  BY <1>1, <1>2, LedgerInvariant, PTL DEF LedgerSpec, Promise!Spec
=============================================================================
