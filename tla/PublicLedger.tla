---------------------------- MODULE PublicLedger ----------------------------
(***************************************************************************)
(* The public record of settlements: the rows the backend adds to          *)
(* settlement_txs, GET /v1/ledger (api/v1/ledger.py), which reads them with *)
(* five statements, each of which sees what is committed when it runs, and *)
(* the pages that show the answer: the home page with its tape, the ledger *)
(* page and the settlement section of a booking.                           *)
(*                                                                         *)
(* Rows are only ever added.  Which ones can come is the business of       *)
(* BookingSettlement: attempts that fail may leave a row at any time, and  *)
(* the confirmed ones keep the promise of SettlementRecord.                *)
(***************************************************************************)
EXTENDS Totals, Sequences

CONSTANTS LedgerBookings,
          Lock,              \* booking => what it locks, in base units of USDC
          Charges,           \* what a booking may be charged: a cost, and the seconds it is for
          CentUnits,         \* base units of USDC in one cent
          Limit,             \* rows a page asks for
          MaxRows            \* bound: rows ever added

ASSUME LedgerAssumption ==
    /\ Lock \in [LedgerBookings -> Nat] /\ Charges \subseteq [cost : Nat, usage : Nat]
    /\ CentUnits \in Nat \ {0}
    /\ Limit \in [{"home", "ledger", "booking"} -> Nat \ {0}] /\ MaxRows \in Nat

VARIABLES
    rows,      \* settlement_txs, oldest first
    escrow,    \* bookings locked, by their confirmed rows, and not closed
    paper      \* the page: how far its request is, and what it shows

ledgerVars == <<rows, escrow, paper>>

AllBookings == "all bookings"
Kinds   == {"open", "settle", "cancel"}
Steps5  == {"rows", "total", "closes", "open", "locked"}
Figures == [total |-> 0, volume |-> 0, commission |-> 0, settlements |-> 0, open |-> 0,
            locked |-> 0]

(* EMPTY_LEDGER, the fallback of safeGet. *)
EmptyLedger == [at |-> "shown", page |-> "home", of |-> AllBookings, items |-> <<>>,
                figures |-> Figures, quiet |-> TRUE, outage |-> TRUE]

LedgerTypeOK ==
    /\ rows \in Seq([booking : LedgerBookings, kind : Kinds, confirmed : BOOLEAN,
                     amount : Nat, commission : Nat, usage : Nat])
    /\ Len(rows) <= MaxRows
    /\ escrow \subseteq LedgerBookings
    /\ paper.at \in Steps5 \cup {"shown"} /\ paper.page \in DOMAIN Limit
    /\ paper.of \in LedgerBookings \cup {AllBookings}
    /\ Len(paper.items) <= Limit[paper.page]
    /\ paper.figures \in [DOMAIN Figures -> Nat]
    /\ {paper.quiet, paper.outage} \subseteq BOOLEAN

LedgerInit == rows = <<>> /\ escrow = {} /\ paper = EmptyLedger

-----------------------------------------------------------------------------
(* The rows that count: the ones confirmed. *)
Confirmed(kinds) == {i \in DOMAIN rows : rows[i].kind \in kinds /\ rows[i].confirmed}
Opens  == Confirmed({"open"})
Closes == Confirmed({"settle", "cancel"})

ClosedBookings == {rows[i].booking : i \in Closes}

Promise == INSTANCE SettlementRecord
    WITH Bookings <- LedgerBookings, locked <- escrow, closed <- ClosedBookings

-----------------------------------------------------------------------------
(* What the settlement service records. *)

Add(b, kind, confirmed, amount, commission, usage) ==
    /\ Len(rows) < MaxRows
    /\ rows' = Append(rows, [booking |-> b, kind |-> kind, confirmed |-> confirmed,
                             amount |-> amount, commission |-> commission, usage |-> usage])
    /\ paper' = [paper EXCEPT !.quiet = FALSE]

RecordOpen(b) ==
    \/ /\ b \notin escrow \cup ClosedBookings
       /\ Add(b, "open", TRUE, Lock[b], 0, 0)
       /\ escrow' = escrow \cup {b}
    \/ Add(b, "open", FALSE, 0, 0, 0) /\ UNCHANGED escrow

(* The cost is within the lock; the commission is 15 % of it, rounded down. *)
RecordClose(b) ==
    \E kind \in {"settle", "cancel"}, c \in Charges :
        \/ /\ b \in escrow /\ c.cost <= Lock[b]
           /\ Add(b, kind, TRUE, c.cost, (c.cost * 15) \div 100, c.usage)
           /\ escrow' = escrow \ {b}
        \/ Add(b, kind, FALSE, 0, 0, c.usage) /\ UNCHANGED escrow

-----------------------------------------------------------------------------
(* GET /v1/ledger. *)

(* The statements in their order, and what each contributes to the answer.  *)
LockedFirst(step) ==                    \* mutant: the locks are summed before the closes
    CASE step = "asked" -> "rows" [] step = "rows" -> "total" [] step = "total" -> "open"
      [] step = "open" -> "locked" [] step = "locked" -> "closes" [] step = "closes" -> "shown"

NextStatement(step) ==
    CASE step = "asked" -> "rows" [] step = "rows" -> "total" [] step = "total" -> "closes"
      [] step = "closes" -> "open" [] step = "open" -> "locked" [] step = "locked" -> "shown"

Visit(page, of) ==
    /\ paper.at = "shown"
    /\ (page = "booking") = (of # AllBookings)
    /\ paper' = [EmptyLedger EXCEPT !.at = NextStatement("asked"), !.page = page, !.of = of,
                                      !.outage = FALSE]
    /\ UNCHANGED <<rows, escrow>>

StillOpen == {i \in Opens : rows[i].booking \notin ClosedBookings}

AmountOf(S)     == Total([i \in S |-> rows[i].amount])
CommissionOn(S) == Total([i \in S |-> rows[i].commission])

(* The row of S with k - 1 newer ones in it. *)
NewerIn(S, i) == {j \in S : j > i}
Nth(S, k)     == CHOOSE i \in S : Cardinality(NewerIn(S, i)) = k - 1

(* The newest, at most so many; a page of one booking filters them. *)
Entries(page, of) ==
    LET mine == {i \in DOMAIN rows : of \in {AllBookings, rows[i].booking}}
    IN {i \in mine : Cardinality(NewerIn(mine, i)) < Limit[page]}

(* KindChip: a failed attempt is labelled as one, whatever it tried. *)
ChipOf(e) == IF ~e.confirmed THEN "failed" ELSE IF e.kind = "open" THEN "escrow lock" ELSE e.kind

RoundTo(n, unit) == (n + unit \div 2) \div unit

(* formatDuration gives hours and minutes, and sixty of those where the     *)
(* rounding asks for it; below a minute it gives the seconds.               *)
FormatDuration(s) ==
    IF s < 60 THEN [h |-> 0, m |-> 0, s |-> s]
    ELSE [h |-> s \div 3600, m |-> RoundTo(s % 3600, 60), s |-> 0]

FormatUsdc(n) == RoundTo(n, CentUnits)

(* A row of the table: an open has no usage, and only a confirmed close that *)
(* cost something has a split.                                               *)
LedgerRowOf(e) ==
    [booking |-> e.booking, chip |-> ChipOf(e), amount |-> FormatUsdc(e.amount),
     usage |-> FormatDuration(e.usage), of |-> e,
     split |-> IF e.kind = "open" \/ ~e.confirmed \/ e.amount = 0 THEN <<>>
               ELSE <<FormatUsdc(e.amount - e.commission), FormatUsdc(e.commission)>>]

(* The tape of the home page keeps what was paid, if there is any. *)
OnTape(e) == e.confirmed /\ e.kind # "open" /\ e.amount # 0

Listed(page, of) == {i \in Entries(page, of) : page = "home" => OnTape(rows[i])}

(* The rows as they are shown, newest first. *)
Rows(page, of) ==
    [k \in 1..Cardinality(Listed(page, of)) |-> LedgerRowOf(rows[Nth(Listed(page, of), k)])]

Statement(step) ==
    LET f == paper.figures IN
    /\ paper.at = step
    /\ paper' = [paper EXCEPT
         !.at = NextStatement(step),
         !.items = IF step = "rows" THEN Rows(paper.page, paper.of) ELSE @,
         !.figures = CASE step = "rows" -> f
              [] step = "total"  -> [f EXCEPT !.total = Len(rows)]
              [] step = "closes" -> [f EXCEPT !.volume = AmountOf(Closes),
                                              !.commission = CommissionOn(Closes),
                                              !.settlements = Cardinality(Closes)]
              [] step = "open"   -> [f EXCEPT !.open = Cardinality(StillOpen)]
              [] step = "locked" -> [f EXCEPT !.locked = AmountOf(StillOpen)]]
    /\ UNCHANGED <<rows, escrow>>

(* The API fails or cannot be reached: the page shows the fallback.  The    *)
(* booking page takes it for any error.                                     *)
Fallback ==
    /\ paper.at \in Steps5
    /\ paper' = [EmptyLedger EXCEPT !.page = paper.page, !.of = paper.of]
    /\ UNCHANGED <<rows, escrow>>

LedgerNext ==
    \/ \E b \in LedgerBookings : RecordOpen(b) \/ RecordClose(b)
    \/ \E page \in DOMAIN Limit, of \in LedgerBookings \cup {AllBookings} : Visit(page, of)
    \/ \E step \in Steps5 : Statement(step)
    \/ Fallback

LedgerSpec == LedgerInit /\ [][LedgerNext]_ledgerVars

-----------------------------------------------------------------------------
Shown == paper.at = "shown" /\ ~paper.outage

(* However many settlements are recorded while the page loads, no dollar is *)
(* shown twice: what it shows as locked and as settled was locked once.     *)
MoneyCountedOnce ==
    Shown => paper.figures.locked + paper.figures.volume <= AmountOf(Opens)

(* If none are, what it shows as locked is what the bookings locked and not  *)
(* closed have locked, and there are as many as it says.                     *)
QuietIsExact ==
    Shown /\ paper.quiet =>
        /\ paper.figures.locked = Total([b \in escrow |-> Lock[b]])
        /\ paper.figures.open = Cardinality(escrow)

(* "showing x of y": never more rows than there are. *)
TotalCoversRows == Shown => Len(paper.items) <= paper.figures.total

(* A booking is shown as locked once and as closed once, however often the   *)
(* backend tried.                                                            *)
OneChipEach ==
    \A i, j \in DOMAIN paper.items :
        LET a == paper.items[i] b == paper.items[j] IN
        a.booking = b.booking /\ a.chip # "failed" /\ b.chip # "failed"
          /\ (a.chip = "escrow lock") = (b.chip = "escrow lock") => i = j

(* What a row shows is at most half a minute and half a cent off, and so is  *)
(* each part of a split.                                                     *)
ShownRounded ==
    \A i \in DOMAIN paper.items :
        LET r == paper.items[i]
            Off(shown, unit, n) == shown * unit <= n + unit \div 2 /\ n <= shown * unit + unit \div 2
        IN /\ Off(r.usage.h * 60 + r.usage.m, 60, r.of.usage - r.usage.s)
           /\ Off(r.amount, CentUnits, r.of.amount)
           /\ r.split # <<>> => /\ Off(r.split[1], CentUnits, r.of.amount - r.of.commission)
                                /\ Off(r.split[2], CentUnits, r.of.commission)

(* What a page of the ledger shows fits together and with the contract,     *)
(* whatever is recorded while it loads.                                     *)
PageAddsUp ==
    MoneyCountedOnce /\ QuietIsExact /\ TotalCoversRows /\ OneChipEach /\ ShownRounded
=============================================================================
