------------------------ MODULE BookingSettlementProofs ------------------------
(***************************************************************************)
(* The safety of BookingSettlement for any number of bookings and          *)
(* requests, any bounds of the contract, any number of restarts and any    *)
(* clock: a lock is owned by the request that activates, a booking is      *)
(* charged once, after its row was closed and for the time up to one of    *)
(* its closes, and the public ledger is true.                              *)
(*                                                                         *)
(* The invariant is SettlementInv, next to the types.  It says of a request*)
(* how far its own call can have come at each of its steps (InOrder), ties *)
(* a transaction in the pool, a row of the ledger and the state of the     *)
(* contract to the one request behind it (PoolIsOurs to ClosedBySome), and *)
(* keeps that a booking whose parties always had wallets is seen active    *)
(* only once its opener has run (SeenHasRun): so nobody activates it again *)
(* over a row that a close is being charged for, and the usage a close has *)
(* read stays one of those its closes account for (UsageDue).              *)
(***************************************************************************)
EXTENDS BookingSettlement, FiniteSetTheorems, TLAPS

Pcs == InFlight \cup {"idle", "done", "refused", "lost"}

ReqRow == [pc : Pcs, booking : Bookings \cup {"none"},
           to : Statuses \cup {"none"}, prev : Statuses \cup {"none"},
           onRail : BOOLEAN, clock : Nat \cup {Never}, usage : Nat, ok : BOOLEAN]

BookingRow == [status : Statuses \cup {"absent"},
               startedAt : Nat \cup {Never}, endedAt : Nat \cup {Never}]

LedgerRows == [req : Requests, booking : Bookings, kind : {"open", "settle", "cancel"},
               status : {"confirmed", "failed"}]

Lock == [status : {"Unset", "Open", "Settled", "Cancelled"},
         openedAt : Nat, opener : Requests \cup {"none"}, billed : Nat]

OneUnmined == \A s, t \in mempool : s = t

(* A request that has begun is about a booking and follows VALID_TRANSITIONS. *)
Known == \A r \in Requests : req[r].pc # "idle" =>
    /\ req[r].booking \in Bookings
    /\ \/ req[r].prev = "pending" /\ req[r].to \in {"active", "cancelled"}
       \/ req[r].prev = "active" /\ req[r].to \in Closed

ClockOK == now \in 0..MaxTime /\ crashes \in 0..MaxCrashes /\ wallets \subseteq Bookings
RowsOK == rows \in [Bookings -> BookingRow]
ReqOK == req \in [Requests -> ReqRow]
ChainOK == chain \in [Bookings -> Lock]
PoolOK == mempool \subseteq Tx /\ OneUnmined
ReceiptsOK == receipts \in [Requests -> {"none", "mined", "reverted"}]
EventsOK == events \in [Bookings -> Seq({"booking_activated", "booking_cancelled"})]
LedgerOK == ledger \subseteq LedgerRows

Typed == /\ ClockOK
         /\ RowsOK
         /\ ReqOK
         /\ ChainOK
         /\ PoolOK
         /\ ReceiptsOK
         /\ EventsOK
         /\ LedgerOK
         /\ Known

(* A set with no two elements has at most one. *)
LEMMA AtMostOne ==
    ASSUME NEW S, \A x, y \in S : x = y
    PROVE  Cardinality(S) <= 1
<1>1. CASE S = {}
  BY <1>1, FS_EmptySet
<1>2. ASSUME NEW x \in S PROVE Cardinality(S) <= 1
  <2>1. S = {x}
    OBVIOUS
  <2> QED
    BY <2>1, FS_Singleton
<1> QED
  BY <1>1, <1>2

LEMMA TypedIsType == Typed => TypeOK
<1> SUFFICES ASSUME Typed PROVE TypeOK
  OBVIOUS
<1>1. Cardinality(mempool) <= 1
  BY AtMostOne DEF Typed, PoolOK, OneUnmined
<1> QED
  BY <1>1 DEF Typed, TypeOK, ClockOK, RowsOK, ReqOK, ChainOK, PoolOK, ReceiptsOK, EventsOK, LedgerOK,
              ReqRow, Pcs, BookingRow, LedgerRows, Lock

LEMMA InitTyped == Init => Typed
<1> SUFFICES ASSUME Init PROVE Typed
  OBVIOUS
<1>1. ClockOK /\ LedgerOK /\ PoolOK /\ EventsOK /\ ReceiptsOK
  BY SettlementAssumption DEF Init, ClockOK, LedgerOK, PoolOK, EventsOK, ReceiptsOK, OneUnmined
<1>2. RowsOK /\ ChainOK
  BY DEF Init, RowsOK, ChainOK, NoRow, BookingRow, Lock
<1>3. ReqOK /\ Known
  BY DEF Init, ReqOK, Known, Idle, ReqRow, Pcs
<1> QED
  BY <1>1, <1>2, <1>3 DEF Typed

(* A request goes on to n, about the same booking. *)
GoesOn(r, n) ==
    /\ n \in ReqRow
    /\ n.booking = req[r].booking /\ n.to = req[r].to /\ n.prev = req[r].prev
    /\ n.pc # "idle"

LEMMA RequestTyped ==
    ASSUME Typed, NEW r \in Requests, req[r].pc # "idle", NEW n, GoesOn(r, n),
           req' = [req EXCEPT ![r] = n]
    PROVE  ReqOK' /\ Known'
<1>1. ReqOK'
  BY DEF Typed, ReqOK, GoesOn
<1>2. req'[r] = n /\ \A s \in Requests : s # r => req'[s] = req[s]
  BY DEF Typed, ReqOK
<1>3. Known'
  BY <1>2 DEF Typed, Known, GoesOn
<1> QED
  BY <1>1, <1>3

LEMMA PcOnly ==
    ASSUME Typed, NEW r \in Requests, req[r].pc # "idle", NEW pc \in Pcs \ {"idle"}, Goto(r, pc)
    PROVE  /\ req' = [req EXCEPT ![r] = [req[r] EXCEPT !.pc = pc]]
           /\ GoesOn(r, [req[r] EXCEPT !.pc = pc])
<1>1. req[r] \in ReqRow
  BY DEF Typed, ReqOK
<1> QED
  BY <1>1 DEF Typed, ReqOK, GoesOn, Goto, ReqRow

-----------------------------------------------------------------------------
(* The transaction of r was accepted by the node, whatever became of it.    *)
Sent(r) == receipts[r] # "none" \/ \E tx \in mempool : tx.req = r

(* The steps at which the ledger has the row of the attempt.                *)
Recorded == {"write", "commit", "written", "publish", "done", "refused"}

(* A request that sent a transaction has come to the call by its way, does  *)
(* not come there again, and has its row on the ledger once it is past it.  *)
SentInOrder(r) == Sent(r) =>
    /\ req[r].pc \in {"sent", "record", "lost"} \cup Recorded
    /\ req[r].pc \in {"write", "commit", "written", "refused"} => req[r].to = "active"
    /\ req[r].to = "active" \/ EndsActive(r)
    /\ req[r].pc \in Recorded => LedgerRow(r) \in ledger

(* What a request knows at its steps: nothing is settled before the row is  *)
(* closed, ok is said of a mined call only, and an activation on the rail   *)
(* goes on only when it is.                                                 *)
CallInOrder(r) ==
    /\ req[r].pc \in {"call", "sent", "record"} => req[r].to = "active" \/ EndsActive(r)
    /\ req[r].pc \in {"idle", "loaded", "write"} /\ req[r].to # "active" => req[r].clock = Never
    /\ req[r].pc = "commit" => req[r].clock # Never
    /\ req[r].ok => receipts[r] = "mined"
    /\ req[r].booking \in AtStart /\ req[r].pc \notin {"idle", "loaded", "lost"} => req[r].onRail
    /\ /\ req[r].to = "active"
       /\ req[r].onRail
       /\ req[r].pc \in {"write", "commit", "written", "publish", "done"}
       => req[r].ok
    /\ EndsActive(r) /\ req[r].onRail /\ req[r].pc \in {"publish", "done"} =>
       LedgerRow(r) \in ledger

HasWritten(r) == req[r].pc \in {"written", "call", "sent", "record", "publish", "done"} \/ Sent(r)

(* Who closes an active booking has closed its row, for good, before it     *)
(* asks for the charge.                                                     *)
CloserWrote(r) ==
    EndsActive(r) /\ req[r].booking \in AtStart /\ HasWritten(r) =>
        rows[req[r].booking].status \in Closed

InOrder == \A r \in Requests : SentInOrder(r) /\ CallInOrder(r) /\ CloserWrote(r)

(* A transaction in the pool says what its request says, and has no receipt. *)
PoolIsOurs == \A tx \in mempool :
    /\ tx.call = CallOf(tx.req)
    /\ tx.booking = req[tx.req].booking
    /\ tx.call # "open" => tx.usage = req[tx.req].usage
    /\ receipts[tx.req] = "none"

(* A request with a row on the ledger is past the record, or was lost.      *)
OnLedger(r) ==
    /\ req[r].pc \in Recorded \cup {"lost"}
    /\ req[r].pc \in {"write", "commit", "written"} => req[r].to = "active"

LedgerIsOurs == \A row \in ledger : row = LedgerRow(row.req) /\ OnLedger(row.req)

(* What was mined is done: the lock names its opener, and a closed lock its *)
(* closer's usage.                                                          *)
MinedDone == \A r \in Requests : receipts[r] = "mined" =>
    LET k == chain[req[r].booking]
    IN IF req[r].to = "active" THEN k.status # "Unset" /\ k.opener = r
       ELSE k.status = ChainStatusAfter(CallOf(r)) /\ k.billed = req[r].usage

(* Of the requests to close a booking one is mined.                         *)
ClosedByOne == \A r, s \in Requests :
    /\ receipts[r] = "mined" /\ receipts[s] = "mined"
    /\ req[r].booking = req[s].booking
    /\ req[r].to # "active" /\ req[s].to # "active"
    => r = s

(* A lock has an opener, a closed one a closer.                             *)
OpenedBySome == \A b \in Bookings : chain[b].status # "Unset" =>
    \E r \in Requests : /\ chain[b].opener = r /\ receipts[r] = "mined"
                        /\ req[r].booking = b /\ req[r].to = "active"

ClosedBySome == \A b \in Bookings : chain[b].status \in {"Settled", "Cancelled"} =>
    \E r \in Requests : /\ receipts[r] = "mined"
                        /\ req[r].booking = b /\ req[r].to # "active"

(* Only a restart loses requests.                                           *)
NoneLost == crashes = 0 => \A r \in Requests : req[r].pc # "lost"

(* A closed row shows the clock of one of its closes.                       *)
RowCloser == \A b \in Bookings : rows[b].status \in Closed =>
    \E q \in Requests : ClosedBy(q, b) /\ rows[b].endedAt = req[q].clock

(* A usage that may be charged for a booking: up to one of its closes.      *)
Billable(b, usage) ==
    \E q \in Requests :
        ClosedBy(q, b) /\ usage = UsageSeconds([rows[b] EXCEPT !.endedAt = req[q].clock])

(* The usage a close has read from the row is such a one.                   *)
HasRefreshed(r) == req[r].pc \in {"call", "sent", "record", "publish", "done"} \/ Sent(r)

UsageDue == \A r \in Requests :
    EndsActive(r) /\ req[r].booking \in AtStart /\ HasRefreshed(r) =>
        Billable(req[r].booking, req[r].usage)

Ran == {"written", "publish", "done", "lost"}

(* The opener of a booking has written it active, or was lost at it; its    *)
(* lock is on the ledger.                                                   *)
HasRun(b) ==
    /\ chain[b].status # "Unset"
    /\ req[chain[b].opener].pc \in Ran
    /\ rows[b].startedAt # Never
    /\ \E row \in ledger : row.booking = b /\ row.kind = "open" /\ row.status = "confirmed"

(* A booking that had its wallets is active, or was seen so, only after its *)
(* opener has run.                                                          *)
ActiveHasRun == \A b \in AtStart : rows[b].status = "active" => HasRun(b)

SeenHasRun == \A r \in Requests :
    req[r].prev = "active" /\ req[r].booking \in AtStart => HasRun(req[r].booking)

SettlementInv ==
    /\ InOrder
    /\ PoolIsOurs
    /\ LedgerIsOurs
    /\ MinedDone
    /\ ClosedByOne
    /\ OpenedBySome
    /\ ClosedBySome
    /\ NoneLost
    /\ RowCloser
    /\ UsageDue
    /\ ActiveHasRun
    /\ SeenHasRun
    /\ AtStart \subseteq wallets

(* The initial states.                                                      *)
LEMMA InitSettlement == Init => SettlementInv
<1> SUFFICES ASSUME Init PROVE SettlementInv
  OBVIOUS
<1>1. \A r \in Requests : req[r] = Idle /\ receipts[r] = "none"
  BY DEF Init
<1>2. \A b \in Bookings : chain[b].status = "Unset" /\ rows[b] = NoRow
  BY DEF Init
<1>3. mempool = {} /\ ledger = {} /\ now = 0
  BY DEF Init
<1>4. InOrder /\ SeenHasRun
  BY <1>1, <1>3 DEF InOrder, SeenHasRun, SentInOrder, CallInOrder, CloserWrote, Sent, EndsActive, Idle
<1>5. PoolIsOurs /\ LedgerIsOurs
  BY <1>3 DEF PoolIsOurs, LedgerIsOurs
<1>6. MinedDone /\ ClosedByOne /\ NoneLost
  BY <1>1 DEF MinedDone, ClosedByOne, NoneLost, Idle
<1>7. OpenedBySome /\ ClosedBySome
  BY <1>2 DEF OpenedBySome, ClosedBySome
<1>8. RowCloser /\ ActiveHasRun
  BY <1>2, SettlementAssumption DEF RowCloser, ActiveHasRun, NoRow, Closed
<1>9. UsageDue
  BY <1>1 DEF UsageDue, EndsActive, Idle
<1> QED
  BY <1>4, <1>5, <1>6, <1>7, <1>8, <1>9 DEF SettlementInv, Init

(* What the closes have read and written stays in account, when no close    *)
(* takes back its clock and a booking that has run keeps its start.         *)
LEMMA AccountsKept ==
    ASSUME Typed, SettlementInv, Typed',
           \A q \in Requests, b \in Bookings : ClosedBy(q, b) =>
               ClosedBy(q, b)' /\ req'[q].clock = req[q].clock,
           \A b \in AtStart : HasRun(b) => rows'[b].startedAt = rows[b].startedAt,
           \A b \in Bookings : rows'[b].status \in Closed =>
               \/ rows[b].status \in Closed /\ rows'[b].endedAt = rows[b].endedAt
               \/ \E q \in Requests : ClosedBy(q, b)' /\ rows'[b].endedAt = req'[q].clock,
           \A s \in Requests :
               EndsActive(s)' /\ req'[s].booking \in AtStart /\ HasRefreshed(s)' =>
                   /\ EndsActive(s) /\ req'[s].booking = req[s].booking
                   /\ Billable(req[s].booking, req'[s].usage)
    PROVE  RowCloser' /\ UsageDue'
<1>1. RowCloser'
  BY DEF SettlementInv, RowCloser
<1>2. ASSUME NEW s \in Requests,
             EndsActive(s)', req'[s].booking \in AtStart, HasRefreshed(s)'
      PROVE  Billable(req[s].booking, req[s].usage)'
  <2>1. PICK b \in AtStart : b = req[s].booking
    BY <1>2
  <2>2. /\ EndsActive(s) /\ req'[s].booking = b /\ b \in Bookings
        /\ Billable(b, req'[s].usage)
    BY <1>2, <2>1, SettlementAssumption
  <2>3. HasRun(b)
    BY <2>1, <2>2 DEF SettlementInv, SeenHasRun, EndsActive
  <2>4. rows'[b].startedAt = rows[b].startedAt
    BY <2>3
  <2>5. PICK q \in Requests :
            /\ ClosedBy(q, b)
            /\ req'[s].usage = UsageSeconds([rows[b] EXCEPT !.endedAt = req[q].clock])
    BY <2>2 DEF Billable
  <2>6. ClosedBy(q, b)' /\ req'[q].clock = req[q].clock
    BY <2>2, <2>5
  <2>7. rows[b] \in BookingRow /\ rows'[b] \in BookingRow
    BY <2>2 DEF Typed, RowsOK
  <2>8. req'[s].usage = UsageSeconds([rows'[b] EXCEPT !.endedAt = req'[q].clock])
    BY <2>4, <2>5, <2>6, <2>7 DEF UsageSeconds, BookingRow
  <2>9. Billable(b, req[s].usage)'
    BY <2>6, <2>8 DEF Billable, UsageSeconds
  <2> QED
    BY <2>2, <2>9 DEF Billable
<1> QED
  BY <1>1, <1>2 DEF UsageDue

(* A request goes on: it shows that it still is in order, and the rest follows. *)
LEMMA RequestGoesOn ==
    ASSUME Typed, SettlementInv, NEW r \in Requests, req[r].pc # "idle",
           NEW n, GoesOn(r, n), req' = [req EXCEPT ![r] = n],
           UNCHANGED <<now, rows, ledger, wallets, chain, mempool, receipts, crashes>>,
           SentInOrder(r)', CallInOrder(r)', CloserWrote(r)',
           OnLedger(r) => OnLedger(r)' /\ n.ok = req[r].ok,
           Sent(r) /\ req[r].to # "active" => n.usage = req[r].usage,
           req[r].pc \in Ran /\ req[r].to = "active" => n.pc \in Ran,
           ClosedBy(r, req[r].booking) => n.clock = req[r].clock /\ n.pc # "commit",
           EndsActive(r) /\ req[r].booking \in AtStart /\ HasRefreshed(r)' =>
               Billable(req[r].booking, n.usage),
           n.pc # "lost", EventsOK'
    PROVE  Typed' /\ SettlementInv'
<1>1. req'[r] = n /\ \A s \in Requests : s # r => req'[s] = req[s]
  BY DEF Typed, ReqOK
<1>2. \A s \in Requests : /\ req'[s].booking = req[s].booking
                          /\ req'[s].to = req[s].to /\ req'[s].prev = req[s].prev
  BY <1>1 DEF GoesOn
<1>3. \A s \in Requests : /\ Sent(s)' = Sent(s) /\ CallOf(s)' = CallOf(s)
                          /\ EndsActive(s)' = EndsActive(s)
  BY <1>2 DEF Sent, CallOf, EndsActive
<1>4. InOrder'
  <2>1. ASSUME NEW s \in Requests, s # r
        PROVE  SentInOrder(s)' /\ CallInOrder(s)' /\ CloserWrote(s)'
    <3>1. req'[s] = req[s] /\ LedgerRow(s)' = LedgerRow(s)
      BY <1>1, <1>3, <2>1 DEF LedgerRow
    <3>2. SentInOrder(s) /\ CallInOrder(s) /\ CloserWrote(s)
      BY DEF SettlementInv, InOrder
    <3> QED
      BY <1>3, <3>1, <3>2 DEF SentInOrder, CallInOrder, CloserWrote, HasWritten
  <2> QED
    BY <2>1 DEF InOrder
<1>5. PoolIsOurs'
  <2>1. ASSUME NEW tx \in mempool
        PROVE  /\ tx.req \in Requests
               /\ tx.call # "open" => tx.usage = req'[tx.req].usage
    <3>1. tx.req \in Requests /\ Sent(tx.req) /\ (tx.call # "open" => req[tx.req].to # "active")
      BY DEF Typed, PoolOK, Tx, Sent, SettlementInv, PoolIsOurs, CallOf
    <3> QED
      BY <1>1, <3>1 DEF SettlementInv, PoolIsOurs
  <2> QED
    BY <1>2, <1>3, <2>1 DEF SettlementInv, PoolIsOurs
<1>6. LedgerIsOurs'
  <2>1. ASSUME NEW row \in ledger
        PROVE  row = LedgerRow(row.req)' /\ OnLedger(row.req)'
    <3>1. row.req \in Requests /\ row = LedgerRow(row.req) /\ OnLedger(row.req)
      BY DEF Typed, LedgerOK, LedgerRows, SettlementInv, LedgerIsOurs
    <3>2. req'[row.req].ok = req[row.req].ok /\ OnLedger(row.req)'
      BY <1>1, <3>1 DEF OnLedger
    <3> QED
      BY <1>2, <1>3, <3>1, <3>2 DEF LedgerRow
  <2> QED
    BY <2>1 DEF LedgerIsOurs
<1>7. MinedDone'
  <2>1. ASSUME NEW s \in Requests, receipts[s] = "mined", req[s].to # "active"
        PROVE  req'[s].usage = req[s].usage
    BY <1>1, <2>1 DEF Sent
  <2> QED
    BY <1>2, <1>3, <2>1 DEF SettlementInv, MinedDone
<1>8. ClosedByOne' /\ OpenedBySome' /\ ClosedBySome'
  BY <1>2 DEF SettlementInv, ClosedByOne, OpenedBySome, ClosedBySome
<1>9. NoneLost'
  BY <1>1 DEF SettlementInv, NoneLost
<1>10. ASSUME NEW b \in Bookings, HasRun(b) PROVE HasRun(b)'
  BY <1>1, <1>10 DEF HasRun, SettlementInv, OpenedBySome
<1>11. ActiveHasRun' /\ SeenHasRun'
  <2>1. AtStart \subseteq Bookings
    BY SettlementAssumption
  <2> QED
    BY <1>2, <1>10, <2>1 DEF SettlementInv, ActiveHasRun, SeenHasRun
<1>12. Typed'
  BY RequestTyped DEF Typed, ClockOK, RowsOK, ChainOK, PoolOK, OneUnmined, ReceiptsOK, LedgerOK
<1>13. RowCloser' /\ UsageDue'
  <2>1. \A q \in Requests, b \in Bookings : ClosedBy(q, b) =>
            ClosedBy(q, b)' /\ req'[q].clock = req[q].clock
    BY <1>1, <1>2 DEF ClosedBy
  <2>2. ASSUME NEW s \in Requests,
               EndsActive(s)', req'[s].booking \in AtStart, HasRefreshed(s)'
        PROVE  Billable(req[s].booking, req'[s].usage)
    <3>1. CASE s = r
      BY <1>1, <1>2, <1>3, <2>2, <3>1
    <3>2. CASE s # r
      <4>1. HasRefreshed(s) /\ req'[s] = req[s]
        BY <1>1, <1>3, <2>2, <3>2 DEF HasRefreshed
      <4> QED
        BY <1>2, <1>3, <2>2, <4>1 DEF SettlementInv, UsageDue
    <3> QED
      BY <3>1, <3>2
  <2> HIDE DEF Billable, HasRefreshed, ClosedBy
  <2> QED
    BY <1>2, <1>3, <1>12, <2>1, <2>2, AccountsKept
<1> QED
  BY <1>4, <1>5, <1>6, <1>7, <1>8, <1>9, <1>11, <1>12, <1>13 DEF SettlementInv

-----------------------------------------------------------------------------
LEMMA PrepareInv == ASSUME Typed, SettlementInv, NEW r \in Requests, Prepare(r)
                    PROVE  Typed' /\ SettlementInv'
<1> DEFINE onRail == req[r].booking \in wallets
           pc == IF req[r].to = "active" /\ onRail THEN "call" ELSE "write"
           n == [req[r] EXCEPT !.onRail = onRail, !.pc = pc]
<1>1. /\ req[r] \in ReqRow /\ req[r].pc = "loaded" /\ req' = [req EXCEPT ![r] = n]
      /\ UNCHANGED <<now, rows, ledger, wallets, chain, mempool, receipts, events, crashes>>
  BY DEF Typed, ReqOK, Prepare, At
<1>2. pc \in {"call", "write"} /\ (pc = "call" <=> req[r].to = "active" /\ onRail)
  OBVIOUS
<1>10. onRail \in BOOLEAN /\ (onRail <=> req[r].booking \in wallets)
  OBVIOUS
<1> HIDE DEF pc, onRail
<1>3. n \in ReqRow
  BY <1>1, <1>2, <1>10 DEF ReqRow, Pcs, InFlight
<1>4. /\ n.onRail = onRail /\ n.pc = pc /\ n.usage = req[r].usage /\ n.ok = req[r].ok
      /\ n.clock = req[r].clock /\ GoesOn(r, n)
  BY <1>1, <1>2, <1>3 DEF ReqRow, GoesOn
<1> HIDE DEF n
<1>5. req'[r] = n
  BY <1>1 DEF Typed, ReqOK
<1>6. /\ ~Sent(r) /\ ~Sent(r)' /\ ~OnLedger(r)
      /\ req[r].ok => receipts[r] = "mined"
      /\ req[r].to # "active" => req[r].clock = Never
  BY <1>1 DEF SettlementInv, InOrder, SentInOrder, CallInOrder, Sent, Recorded, OnLedger
<1>7. SentInOrder(r)'
  BY <1>6 DEF SentInOrder
<1>8. CallInOrder(r)'
  <2>1. req[r].booking \in AtStart => onRail
    BY <1>10 DEF SettlementInv
  <2> QED
    BY <1>1, <1>2, <1>4, <1>5, <1>6, <2>1 DEF CallInOrder, GoesOn
<1>9. CloserWrote(r)'
  BY <1>2, <1>4, <1>5, <1>6 DEF CloserWrote, HasWritten, EndsActive, GoesOn, Closed
<1>11. ~(EndsActive(r) /\ HasRefreshed(r)')
  BY <1>2, <1>4, <1>5, <1>6 DEF HasRefreshed, EndsActive, Closed
<1> QED
  BY <1>1, <1>2, <1>4, <1>6, <1>7, <1>8, <1>9, <1>11, RequestGoesOn DEF Ran, Typed, EventsOK

LEMMA SetStatusInv == ASSUME Typed, SettlementInv, NEW r \in Requests, SetStatus(r)
                      PROVE  Typed' /\ SettlementInv'
<1> DEFINE n == [req[r] EXCEPT !.clock = now, !.pc = "commit"]
<1>1. /\ req[r] \in ReqRow /\ req[r].pc = "write" /\ req' = [req EXCEPT ![r] = n] /\ now \in Nat
      /\ UNCHANGED <<now, rows, ledger, wallets, chain, mempool, receipts, events, crashes>>
  <2>1. req[r] \in ReqRow /\ now \in Nat
    BY SettlementAssumption DEF Typed, ReqOK, ClockOK
  <2>2. req' = [req EXCEPT ![r] = n]
    BY DEF Typed, ReqOK, SetStatus
  <2> QED
    BY <2>1, <2>2 DEF SetStatus, At
<1>2. n \in ReqRow
  BY <1>1 DEF ReqRow, Pcs, InFlight
<1>3. /\ n.onRail = req[r].onRail /\ n.pc = "commit" /\ n.usage = req[r].usage /\ n.ok = req[r].ok
      /\ n.clock = now /\ n.clock # Never /\ GoesOn(r, n)
  BY <1>1, <1>2 DEF ReqRow, GoesOn, Never
<1> HIDE DEF n
<1>4. req'[r] = n
  BY <1>1 DEF Typed, ReqOK
<1>5. Sent(r)' = Sent(r) /\ EndsActive(r)' = EndsActive(r) /\ LedgerRow(r)' = LedgerRow(r)
  BY <1>1, <1>3, <1>4 DEF Sent, EndsActive, GoesOn, LedgerRow, CallOf
<1>6. SentInOrder(r) /\ CallInOrder(r) /\ CloserWrote(r)
  BY DEF SettlementInv, InOrder
<1>7. SentInOrder(r)'
  BY <1>1, <1>3, <1>4, <1>5, <1>6 DEF SentInOrder, GoesOn, Recorded
<1>8. CallInOrder(r)'
  BY <1>1, <1>3, <1>4, <1>5, <1>6 DEF CallInOrder, GoesOn
<1>9. EndsActive(r) => ~Sent(r)
  BY <1>1, <1>6 DEF EndsActive, SentInOrder, Closed
<1>10. CloserWrote(r)'
  BY <1>3, <1>4, <1>5, <1>9 DEF CloserWrote, HasWritten
<1>11. ~(EndsActive(r) /\ HasRefreshed(r)')
  BY <1>3, <1>4, <1>5, <1>9 DEF HasRefreshed
<1>12. OnLedger(r) => OnLedger(r)'
  BY <1>1, <1>3, <1>4 DEF OnLedger, Recorded, GoesOn
<1>13. ~ClosedBy(r, req[r].booking)
  BY <1>1, <1>6 DEF CallInOrder, ClosedBy, Closed
<1> QED
  BY <1>1, <1>3, <1>7, <1>8, <1>10, <1>11, <1>12, <1>13, RequestGoesOn DEF Ran, Typed, EventsOK

(* SendFails, GotReceipt and ReceiptTimesOut: the request learns how its call *)
(* ended, and is about to record it.                                          *)
LEMMA LearnsInv ==
    ASSUME Typed, SettlementInv, NEW r \in Requests, req[r].pc \in {"call", "sent"},
           NEW ok \in BOOLEAN, ok => receipts[r] = "mined",
           req' = [req EXCEPT ![r].pc = "record", ![r].ok = ok],
           UNCHANGED <<now, rows, ledger, wallets, chain, mempool, receipts, events, crashes>>
    PROVE  Typed' /\ SettlementInv'
<1> DEFINE n == [req[r] EXCEPT !.pc = "record", !.ok = ok]
<1>1. req[r] \in ReqRow /\ req' = [req EXCEPT ![r] = n]
  BY DEF Typed, ReqOK
<1>2. n \in ReqRow
  BY <1>1 DEF ReqRow, Pcs, InFlight
<1>3. /\ n.onRail = req[r].onRail /\ n.pc = "record" /\ n.usage = req[r].usage /\ n.ok = ok
      /\ n.clock = req[r].clock /\ GoesOn(r, n)
  BY <1>1, <1>2 DEF ReqRow, GoesOn
<1> HIDE DEF n
<1>4. req'[r] = n
  BY <1>1 DEF Typed, ReqOK
<1>5. Sent(r)' = Sent(r) /\ EndsActive(r)' = EndsActive(r) /\ ~OnLedger(r)
  BY <1>3, <1>4 DEF Sent, EndsActive, GoesOn, OnLedger, Recorded
<1>6. SentInOrder(r) /\ CallInOrder(r) /\ CloserWrote(r)
  BY DEF SettlementInv, InOrder
<1>7. SentInOrder(r)'
  BY <1>3, <1>4, <1>5, <1>6 DEF SentInOrder, GoesOn, Recorded
<1>8. CallInOrder(r)'
  BY <1>3, <1>4, <1>5, <1>6 DEF CallInOrder, GoesOn
<1>9. CloserWrote(r)'
  BY <1>3, <1>4, <1>5, <1>6 DEF CloserWrote, HasWritten, GoesOn
<1>10. HasRefreshed(r)
  BY DEF HasRefreshed
<1>11. EndsActive(r) /\ req[r].booking \in AtStart => Billable(req[r].booking, n.usage)
  BY <1>3, <1>10 DEF SettlementInv, UsageDue
<1> QED
  BY <1>1, <1>3, <1>5, <1>7, <1>8, <1>9, <1>11, RequestGoesOn DEF Ran, Typed, EventsOK

LEMMA RefreshInv == ASSUME Typed, SettlementInv, NEW r \in Requests, Refresh(r)
                    PROVE  Typed' /\ SettlementInv'
<1> DEFINE b == req[r].booking
           settles == EndsActive(r) /\ req[r].onRail
           usage == IF settles THEN UsageSeconds(rows[b]) ELSE 0
           pc == IF settles THEN "call" ELSE "publish"
           n == [req[r] EXCEPT !.usage = usage, !.pc = pc]
<1>1. /\ req[r] \in ReqRow /\ req[r].pc = "written" /\ req' = [req EXCEPT ![r] = n]
      /\ UNCHANGED <<now, rows, ledger, wallets, chain, mempool, receipts, events, crashes>>
  BY DEF Typed, ReqOK, Refresh, At
<1>2. b \in Bookings /\ rows[b] \in BookingRow
  BY <1>1 DEF Typed, Known, RowsOK
<1>3. usage \in Nat /\ (settles => usage = UsageSeconds(rows[b]))
  BY <1>2 DEF UsageSeconds, BookingRow, Never
<1>4. pc \in {"call", "publish"} /\ (pc = "call" <=> settles)
  OBVIOUS
<1> HIDE DEF pc, usage
<1>5. n \in ReqRow
  BY <1>1, <1>3, <1>4 DEF ReqRow, Pcs, InFlight
<1>6. /\ n.onRail = req[r].onRail /\ n.pc = pc /\ n.usage = usage /\ n.ok = req[r].ok
      /\ n.clock = req[r].clock /\ GoesOn(r, n)
  BY <1>1, <1>4, <1>5 DEF ReqRow, GoesOn
<1> HIDE DEF n
<1>7. req'[r] = n
  BY <1>1 DEF Typed, ReqOK
<1>8. Sent(r)' = Sent(r) /\ EndsActive(r)' = EndsActive(r) /\ LedgerRow(r)' = LedgerRow(r)
  BY <1>1, <1>6, <1>7 DEF Sent, EndsActive, GoesOn, LedgerRow, CallOf
<1>9. SentInOrder(r) /\ CallInOrder(r) /\ CloserWrote(r)
  BY DEF SettlementInv, InOrder
<1>10. EndsActive(r) => req[r].to # "active" /\ ~Sent(r)
  BY <1>1, <1>9 DEF EndsActive, SentInOrder, Closed
<1>11. SentInOrder(r)'
  BY <1>1, <1>4, <1>6, <1>7, <1>8, <1>9, <1>10 DEF SentInOrder, GoesOn, Recorded
<1>12. CallInOrder(r)'
  BY <1>1, <1>4, <1>6, <1>7, <1>8, <1>9, <1>10 DEF CallInOrder, GoesOn
<1>13. CloserWrote(r)'
  BY <1>1, <1>6, <1>7, <1>8, <1>9 DEF CloserWrote, HasWritten, GoesOn
<1>14. OnLedger(r) => OnLedger(r)'
  BY <1>1, <1>4, <1>6, <1>7, <1>10 DEF OnLedger, Recorded
<1>15. ASSUME EndsActive(r), b \in AtStart PROVE Billable(b, usage)
  <2>1. rows[b].status \in Closed /\ req[r].onRail
    BY <1>1, <1>9, <1>15 DEF CloserWrote, HasWritten, CallInOrder
  <2>2. PICK q \in Requests : ClosedBy(q, b) /\ rows[b].endedAt = req[q].clock
    BY <1>2, <2>1 DEF SettlementInv, RowCloser
  <2>3. rows[b] = [rows[b] EXCEPT !.endedAt = req[q].clock]
    BY <1>2, <2>2 DEF BookingRow
  <2>4. usage = UsageSeconds([rows[b] EXCEPT !.endedAt = req[q].clock])
    BY <1>3, <1>15, <2>1, <2>3
  <2> QED
    BY <2>2, <2>4 DEF Billable
<1>16. ClosedBy(r, b) => n.pc # "commit"
  BY <1>4, <1>6
<1> QED
  BY <1>1, <1>4, <1>6, <1>10, <1>11, <1>12, <1>13, <1>14, <1>15, <1>16, RequestGoesOn
  DEF Ran, Typed, EventsOK, SentInOrder, SettlementInv, InOrder

LEMMA PublishInv == ASSUME Typed, SettlementInv, NEW r \in Requests, Publish(r)
                    PROVE  Typed' /\ SettlementInv'
<1> DEFINE n == [req[r] EXCEPT !.pc = "done"]
<1>1. /\ req[r] \in ReqRow /\ req[r].pc = "publish" /\ req' = [req EXCEPT ![r] = n]
      /\ UNCHANGED <<now, rows, ledger, wallets, chain, mempool, receipts, crashes>>
  BY DEF Typed, ReqOK, Publish, At, Goto
<1>2. n \in ReqRow
  BY <1>1 DEF ReqRow, Pcs
<1>3. /\ n.onRail = req[r].onRail /\ n.pc = "done" /\ n.usage = req[r].usage /\ n.ok = req[r].ok
      /\ n.clock = req[r].clock /\ GoesOn(r, n)
  BY <1>1, <1>2 DEF ReqRow, GoesOn
<1> HIDE DEF n
<1>4. EventsOK'
  <2>1. EventOf(r) \in Seq({"booking_activated", "booking_cancelled"})
    <3>1. /\ <<>> \in Seq({"booking_activated", "booking_cancelled"})
          /\ <<"booking_activated">> \in Seq({"booking_activated", "booking_cancelled"})
          /\ <<"booking_cancelled">> \in Seq({"booking_activated", "booking_cancelled"})
      OBVIOUS
    <3>2. EventOf(r) \in {<<>>, <<"booking_activated">>, <<"booking_cancelled">>}
      BY DEF EventOf
    <3> HIDE DEF EventOf
    <3> QED
      BY <3>1, <3>2
  <2>2. req[r].booking \in Bookings
    BY <1>1 DEF Typed, Known
  <2>3. events[req[r].booking] \o EventOf(r) \in Seq({"booking_activated", "booking_cancelled"})
    BY <2>1, <2>2 DEF Typed, EventsOK
  <2> QED
    BY <2>2, <2>3 DEF Typed, EventsOK, Publish
<1>5. req'[r] = n
  BY <1>1 DEF Typed, ReqOK
<1>6. Sent(r)' = Sent(r) /\ EndsActive(r)' = EndsActive(r) /\ LedgerRow(r)' = LedgerRow(r)
  BY <1>1, <1>3, <1>5 DEF Sent, EndsActive, GoesOn, LedgerRow, CallOf
<1>7. SentInOrder(r) /\ CallInOrder(r) /\ CloserWrote(r)
  BY DEF SettlementInv, InOrder
<1>8. SentInOrder(r)' /\ (OnLedger(r) => OnLedger(r)')
  BY <1>1, <1>3, <1>5, <1>6, <1>7 DEF SentInOrder, GoesOn, Recorded, OnLedger
<1>9. CallInOrder(r)'
  BY <1>1, <1>3, <1>5, <1>6, <1>7 DEF CallInOrder, GoesOn
<1>10. CloserWrote(r)'
  BY <1>1, <1>3, <1>5, <1>6, <1>7 DEF CloserWrote, HasWritten, GoesOn
<1>11. HasRefreshed(r)
  BY <1>1 DEF HasRefreshed
<1>12. EndsActive(r) /\ req[r].booking \in AtStart => Billable(req[r].booking, n.usage)
  BY <1>3, <1>11 DEF SettlementInv, UsageDue
<1> QED
  BY <1>1, <1>3, <1>4, <1>8, <1>9, <1>10, <1>12, RequestGoesOn DEF Ran

(* A transition that may follow the status starts from pending or active. *)
LEMMA Transitions ==
    ASSUME NEW status, NEW to, to \in ValidTransitions(status)
    PROVE  \/ status = "pending" /\ to \in {"active", "cancelled"}
           \/ status = "active" /\ to \in Closed
BY DEF ValidTransitions, Closed

LEMMA LoadInv ==
    ASSUME Typed, SettlementInv, NEW r \in Requests, NEW b \in Bookings, NEW to \in Statuses,
           Load(r, b, to)
    PROVE  Typed' /\ SettlementInv'
<1> DEFINE prev == rows[b].status
           n == [Idle EXCEPT !.pc = "loaded", !.booking = b, !.to = to, !.prev = prev]
<1>1. /\ req[r].pc = "idle" /\ req' = [req EXCEPT ![r] = n]
      /\ UNCHANGED <<now, rows, ledger, wallets, chain, mempool, receipts, events, crashes>>
  BY DEF Load, At
<1>2. \/ prev = "pending" /\ to \in {"active", "cancelled"}
      \/ prev = "active" /\ to \in Closed
  BY Transitions DEF Load
<1> HIDE DEF prev
<1>3. /\ n \in ReqRow /\ n.pc = "loaded" /\ n.booking = b /\ n.to = to /\ n.prev = prev
      /\ n.ok = FALSE /\ n.clock = Never
  BY <1>2 DEF Idle, ReqRow, Pcs, InFlight, Statuses
<1> HIDE DEF n
<1>4. req'[r] = n /\ \A s \in Requests : s # r => req'[s] = req[s]
  BY <1>1 DEF Typed, ReqOK
<1>5. /\ receipts[r] = "none"
      /\ \A tx \in mempool : tx.req # r
      /\ \A row \in ledger : row.req # r
  BY <1>1 DEF SettlementInv, InOrder, SentInOrder, Sent, Recorded, LedgerIsOurs, OnLedger
<1>6. Typed'
  <2>1. ReqOK' /\ Known'
    BY <1>1, <1>2, <1>3, <1>4 DEF Typed, ReqOK, Known
  <2> QED
    BY <1>1, <2>1 DEF Typed, ClockOK, RowsOK, ChainOK, PoolOK, OneUnmined, ReceiptsOK, EventsOK,
                      LedgerOK
<1>7. InOrder'
  <2>1. ASSUME NEW s \in Requests
        PROVE  SentInOrder(s)' /\ CallInOrder(s)' /\ CloserWrote(s)'
    <3>1. CASE s = r
      <4>1. ~Sent(r)'
        BY <1>1, <1>5 DEF Sent
      <4> QED
        BY <1>1, <1>3, <1>4, <3>1, <4>1 DEF SentInOrder, CallInOrder, CloserWrote, HasWritten
    <3>2. CASE s # r
      <4>1. /\ req'[s] = req[s] /\ Sent(s)' = Sent(s) /\ CallOf(s)' = CallOf(s)
            /\ EndsActive(s)' = EndsActive(s) /\ LedgerRow(s)' = LedgerRow(s)
        BY <1>1, <1>4, <3>2 DEF Sent, CallOf, EndsActive, LedgerRow
      <4> QED
        BY <1>1, <4>1 DEF SettlementInv, InOrder, SentInOrder, CallInOrder, CloserWrote, HasWritten
    <3> QED
      BY <3>1, <3>2
  <2> QED
    BY <2>1 DEF InOrder
<1>8. PoolIsOurs' /\ LedgerIsOurs'
  <2>1. ASSUME NEW s \in Requests, s # r
        PROVE  /\ req'[s] = req[s] /\ CallOf(s)' = CallOf(s)
               /\ LedgerRow(s)' = LedgerRow(s) /\ OnLedger(s)' = OnLedger(s)
    BY <1>4, <2>1 DEF CallOf, LedgerRow, OnLedger
  <2>2. \A tx \in mempool : tx.req \in Requests
    BY DEF Typed, PoolOK, Tx
  <2>3. \A row \in ledger : row.req \in Requests
    BY DEF Typed, LedgerOK, LedgerRows
  <2>4. PoolIsOurs'
    BY <1>1, <1>5, <2>1, <2>2 DEF SettlementInv, PoolIsOurs
  <2>5. LedgerIsOurs'
    BY <1>1, <1>5, <2>1, <2>3 DEF SettlementInv, LedgerIsOurs
  <2> QED
    BY <2>4, <2>5
<1>9. MinedDone'
  <2>1. ASSUME NEW s \in Requests, receipts[s] = "mined"
        PROVE  req'[s] = req[s] /\ CallOf(s)' = CallOf(s)
    BY <1>4, <1>5, <2>1 DEF CallOf
  <2> QED
    BY <1>1, <2>1 DEF SettlementInv, MinedDone
<1>10. ClosedByOne' /\ OpenedBySome' /\ ClosedBySome'
  <2>1. \A s \in Requests : receipts[s] = "mined" => req'[s] = req[s]
    BY <1>4, <1>5
  <2> QED
    BY <1>1, <2>1 DEF SettlementInv, ClosedByOne, OpenedBySome, ClosedBySome
<1>11. NoneLost'
  BY <1>1, <1>3, <1>4 DEF SettlementInv, NoneLost
<1>12. ASSUME NEW c \in Bookings, HasRun(c) PROVE HasRun(c)'
  BY <1>1, <1>4, <1>5, <1>12 DEF HasRun, SettlementInv, OpenedBySome
<1>13. ActiveHasRun' /\ SeenHasRun'
  <2>1. AtStart \subseteq Bookings
    BY SettlementAssumption
  <2>2. prev = "active" /\ b \in AtStart => HasRun(b)
    BY DEF prev, SettlementInv, ActiveHasRun
  <2> QED
    BY <1>1, <1>3, <1>4, <1>12, <2>1, <2>2 DEF SettlementInv, ActiveHasRun, SeenHasRun
<1>14. RowCloser' /\ UsageDue'
  <2>1. req[r].to # "active" => req[r].clock = Never
    BY <1>1 DEF SettlementInv, InOrder, CallInOrder
  <2>2. \A q \in Requests, c \in Bookings : ClosedBy(q, c) =>
            ClosedBy(q, c)' /\ req'[q].clock = req[q].clock
    BY <1>4, <2>1 DEF ClosedBy, Closed
  <2>3. ASSUME NEW s \in Requests,
               EndsActive(s)', req'[s].booking \in AtStart, HasRefreshed(s)'
        PROVE  /\ EndsActive(s) /\ req'[s].booking = req[s].booking
               /\ Billable(req[s].booking, req'[s].usage)
    <3>1. s # r
      BY <1>1, <1>3, <1>4, <1>5, <2>3 DEF HasRefreshed, Sent
    <3>2. req'[s] = req[s] /\ EndsActive(s) /\ HasRefreshed(s)
      BY <1>1, <1>4, <2>3, <3>1 DEF HasRefreshed, Sent, EndsActive
    <3> QED
      BY <2>3, <3>2 DEF SettlementInv, UsageDue
  <2> HIDE DEF Billable, HasRefreshed, ClosedBy
  <2> QED
    BY <1>1, <1>6, <2>2, <2>3, AccountsKept
<1> QED
  BY <1>1, <1>6, <1>7, <1>8, <1>9, <1>10, <1>11, <1>13, <1>14 DEF SettlementInv

(* A request puts its only transaction into the empty pool. *)
LEMMA SendInv == ASSUME Typed, SettlementInv, NEW r \in Requests, Send(r)
                 PROVE  Typed' /\ SettlementInv'
<1> DEFINE b == req[r].booking
           tx == [req |-> r, call |-> CallOf(r), booking |-> b, usage |-> req[r].usage]
           n == [req[r] EXCEPT !.pc = "sent"]
<1>1. /\ req[r].pc = "call" /\ req' = [req EXCEPT ![r] = n]
      /\ mempool = {} /\ mempool' = {tx}
      /\ UNCHANGED <<now, rows, ledger, wallets, chain, receipts, events, crashes>>
  BY DEF Typed, ReqOK, Send, At, Goto, NonceIsFree
<1>2. /\ req[r] \in ReqRow /\ b \in Bookings /\ req[r].to \in {"active", "completed", "cancelled"}
  BY <1>1 DEF Typed, ReqOK, Known, Closed
<1>3. CallOf(r) \in {"open", "settle", "cancel"} /\ (CallOf(r) = "open" <=> req[r].to = "active")
  BY <1>2 DEF CallOf
<1>4. /\ tx \in Tx /\ tx.req = r /\ tx.call = CallOf(r) /\ tx.booking = b
      /\ tx.usage = req[r].usage
  BY <1>2, <1>3 DEF Tx, ReqRow
<1> HIDE DEF tx
<1>5. n \in ReqRow
  BY <1>2 DEF ReqRow, Pcs, InFlight
<1>6. /\ n.onRail = req[r].onRail /\ n.pc = "sent" /\ n.usage = req[r].usage /\ n.ok = req[r].ok
      /\ n.clock = req[r].clock /\ GoesOn(r, n)
  BY <1>1, <1>2, <1>5 DEF ReqRow, GoesOn
<1> HIDE DEF n
<1>7. req'[r] = n /\ \A s \in Requests : s # r => req'[s] = req[s]
  BY <1>1 DEF Typed, ReqOK
<1>8. \A s \in Requests : /\ req'[s].booking = req[s].booking
                          /\ req'[s].to = req[s].to /\ req'[s].prev = req[s].prev
                          /\ req'[s].usage = req[s].usage /\ req'[s].ok = req[s].ok
                          /\ req'[s].clock = req[s].clock
  BY <1>6, <1>7 DEF GoesOn
<1>9. \A s \in Requests : /\ CallOf(s)' = CallOf(s) /\ EndsActive(s)' = EndsActive(s)
                          /\ LedgerRow(s)' = LedgerRow(s)
  BY <1>8 DEF CallOf, EndsActive, LedgerRow
<1>10. receipts[r] = "none" /\ ~OnLedger(r)
  BY <1>1 DEF SettlementInv, InOrder, SentInOrder, Sent, Recorded, OnLedger
<1>11. Typed'
  BY <1>1, <1>4, <1>6, RequestTyped
  DEF Typed, ClockOK, RowsOK, ChainOK, PoolOK, OneUnmined, ReceiptsOK, EventsOK, LedgerOK
<1>12. InOrder'
  <2>1. ASSUME NEW s \in Requests
        PROVE  SentInOrder(s)' /\ CallInOrder(s)' /\ CloserWrote(s)'
    <3>1. SentInOrder(s) /\ CallInOrder(s) /\ CloserWrote(s)
      BY DEF SettlementInv, InOrder
    <3>2. CASE s = r
      <4>1. SentInOrder(r)'
        BY <1>1, <1>6, <1>7, <1>8, <1>9, <3>1, <3>2 DEF SentInOrder, CallInOrder, Recorded
      <4>2. CallInOrder(r)'
        BY <1>1, <1>6, <1>7, <1>8, <1>9, <3>1, <3>2 DEF CallInOrder
      <4>3. CloserWrote(r)'
        BY <1>1, <1>6, <1>7, <1>8, <1>9, <3>1, <3>2 DEF CloserWrote, HasWritten
      <4> QED
        BY <3>2, <4>1, <4>2, <4>3
    <3>3. CASE s # r
      <4>1. Sent(s)' = Sent(s)
        BY <1>1, <1>4, <3>3 DEF Sent
      <4> QED
        BY <1>1, <1>7, <1>9, <3>1, <3>3, <4>1 DEF SentInOrder, CallInOrder, CloserWrote, HasWritten
    <3> QED
      BY <3>2, <3>3
  <2> QED
    BY <2>1 DEF InOrder
<1>13. PoolIsOurs'
  BY <1>1, <1>4, <1>8, <1>9, <1>10 DEF PoolIsOurs
<1>14. LedgerIsOurs'
  <2>1. ASSUME NEW row \in ledger
        PROVE  row = LedgerRow(row.req)' /\ OnLedger(row.req)'
    <3>1. row.req \in Requests /\ row = LedgerRow(row.req) /\ OnLedger(row.req)
      BY DEF Typed, LedgerOK, LedgerRows, SettlementInv, LedgerIsOurs
    <3> QED
      BY <1>7, <1>9, <1>10, <3>1 DEF OnLedger
  <2> QED
    BY <1>1, <2>1 DEF LedgerIsOurs
<1>15. MinedDone' /\ ClosedByOne' /\ OpenedBySome' /\ ClosedBySome'
  BY <1>1, <1>8, <1>9 DEF SettlementInv, MinedDone, ClosedByOne, OpenedBySome, ClosedBySome
<1>16. NoneLost'
  BY <1>1, <1>6, <1>7 DEF SettlementInv, NoneLost
<1>17. ASSUME NEW c \in Bookings, HasRun(c) PROVE HasRun(c)'
  BY <1>1, <1>7, <1>17 DEF HasRun, SettlementInv, OpenedBySome, Ran
<1>18. ActiveHasRun' /\ SeenHasRun'
  <2>1. AtStart \subseteq Bookings
    BY SettlementAssumption
  <2> QED
    BY <1>1, <1>8, <1>17, <2>1 DEF SettlementInv, ActiveHasRun, SeenHasRun
<1>19. RowCloser' /\ UsageDue'
  <2>1. \A q \in Requests, c \in Bookings : ClosedBy(q, c) =>
            ClosedBy(q, c)' /\ req'[q].clock = req[q].clock
    BY <1>6, <1>7, <1>8 DEF ClosedBy
  <2>2. \A s \in Requests : HasRefreshed(s)' => HasRefreshed(s)
    BY <1>1, <1>4, <1>7 DEF HasRefreshed, Sent
  <2>3. \A s \in Requests : EndsActive(s)' /\ req'[s].booking \in AtStart /\ HasRefreshed(s)' =>
            Billable(req[s].booking, req'[s].usage)
    BY <1>8, <1>9, <2>2 DEF SettlementInv, UsageDue
  <2> HIDE DEF Billable, HasRefreshed, ClosedBy
  <2> QED
    BY <1>1, <1>8, <1>9, <1>11, <2>1, <2>3, AccountsKept
<1> QED
  BY <1>1, <1>11, <1>12, <1>13, <1>14, <1>15, <1>16, <1>18, <1>19 DEF SettlementInv

(* An attempt is written to the public ledger: the row of a request that had *)
(* none.                                                                     *)
LEMMA RecordInv == ASSUME Typed, SettlementInv, NEW r \in Requests, Record(r)
                   PROVE  Typed' /\ SettlementInv'
<1> DEFINE pc == AfterRecord(r)
           n == [req[r] EXCEPT !.pc = pc]
           new == LedgerRow(r)
<1>1. /\ req[r].pc = "record" /\ req' = [req EXCEPT ![r] = n]
      /\ ledger' = ledger \cup {new}
      /\ UNCHANGED <<now, rows, wallets, chain, mempool, receipts, events, crashes>>
  BY DEF Typed, ReqOK, Record, At, Goto
<1>2. /\ req[r] \in ReqRow /\ req[r].booking \in Bookings
      /\ req[r].to \in {"active", "completed", "cancelled"}
  BY <1>1 DEF Typed, ReqOK, Known, Closed
<1>3. /\ pc \in {"publish", "write", "refused"}
      /\ pc \in {"write", "refused"} => req[r].to = "active"
      /\ req[r].to = "active" => (pc = "write" <=> req[r].ok) /\ pc # "publish"
  BY <1>2 DEF AfterRecord
<1>4. new \in LedgerRows /\ new.req = r
  BY <1>2 DEF LedgerRow, LedgerRows, CallOf
<1> HIDE DEF pc, new
<1>5. n \in ReqRow
  BY <1>2, <1>3 DEF ReqRow, Pcs, InFlight
<1>6. /\ n.onRail = req[r].onRail /\ n.pc = pc /\ n.usage = req[r].usage /\ n.ok = req[r].ok
      /\ n.clock = req[r].clock /\ GoesOn(r, n)
  BY <1>1, <1>2, <1>3, <1>5 DEF ReqRow, GoesOn
<1> HIDE DEF n
<1>7. req'[r] = n /\ \A s \in Requests : s # r => req'[s] = req[s]
  BY <1>1 DEF Typed, ReqOK
<1>8. \A s \in Requests : /\ req'[s].booking = req[s].booking
                          /\ req'[s].to = req[s].to /\ req'[s].prev = req[s].prev
                          /\ req'[s].usage = req[s].usage /\ req'[s].ok = req[s].ok
                          /\ req'[s].clock = req[s].clock
  BY <1>6, <1>7 DEF GoesOn
<1>9. \A s \in Requests : /\ CallOf(s)' = CallOf(s) /\ EndsActive(s)' = EndsActive(s)
                          /\ LedgerRow(s)' = LedgerRow(s) /\ Sent(s)' = Sent(s)
  BY <1>1, <1>8 DEF CallOf, EndsActive, LedgerRow, Sent
<1>10. Typed'
  BY <1>1, <1>4, <1>6, RequestTyped
  DEF Typed, ClockOK, RowsOK, ChainOK, PoolOK, OneUnmined, ReceiptsOK, EventsOK, LedgerOK
<1>11. InOrder'
  <2>1. ASSUME NEW s \in Requests
        PROVE  SentInOrder(s)' /\ CallInOrder(s)' /\ CloserWrote(s)'
    <3>1. SentInOrder(s) /\ CallInOrder(s) /\ CloserWrote(s)
      BY DEF SettlementInv, InOrder
    <3>2. CASE s = r
      <4>1. new \in ledger' /\ new = LedgerRow(r)
        BY <1>1 DEF new
      <4>2. SentInOrder(r)'
        BY <1>1, <1>3, <1>6, <1>7, <1>8, <1>9, <3>1, <3>2, <4>1 DEF SentInOrder, Recorded
      <4>3. CallInOrder(r)'
        BY <1>1, <1>3, <1>6, <1>7, <1>8, <1>9, <3>1, <3>2, <4>1 DEF CallInOrder
      <4>4. CloserWrote(r)'
        BY <1>1, <1>3, <1>6, <1>7, <1>8, <1>9, <3>1, <3>2 DEF CloserWrote, HasWritten
      <4> QED
        BY <3>2, <4>2, <4>3, <4>4
    <3>3. CASE s # r
      BY <1>1, <1>7, <1>9, <3>1, <3>3 DEF SentInOrder, CallInOrder, CloserWrote, HasWritten
    <3> QED
      BY <3>2, <3>3
  <2> QED
    BY <2>1 DEF InOrder
<1>12. PoolIsOurs'
  <2>1. \A tx \in mempool : tx.req \in Requests
    BY DEF Typed, PoolOK, Tx
  <2> QED
    BY <1>1, <1>8, <1>9, <2>1 DEF SettlementInv, PoolIsOurs
<1>13. LedgerIsOurs'
  <2>1. OnLedger(r)'
    BY <1>3, <1>6, <1>7, <1>8 DEF OnLedger, Recorded
  <2>2. ASSUME NEW row \in ledger
        PROVE  row = LedgerRow(row.req)' /\ OnLedger(row.req)'
    <3>1. row.req \in Requests /\ row = LedgerRow(row.req) /\ OnLedger(row.req)
      BY DEF Typed, LedgerOK, LedgerRows, SettlementInv, LedgerIsOurs
    <3> QED
      BY <1>7, <1>9, <2>1, <3>1 DEF OnLedger
  <2>3. new = LedgerRow(r)'
    BY <1>9 DEF new
  <2> QED
    BY <1>1, <1>4, <2>1, <2>2, <2>3 DEF LedgerIsOurs
<1>14. MinedDone' /\ ClosedByOne' /\ OpenedBySome' /\ ClosedBySome'
  BY <1>1, <1>8, <1>9 DEF SettlementInv, MinedDone, ClosedByOne, OpenedBySome, ClosedBySome
<1>15. NoneLost'
  BY <1>1, <1>3, <1>6, <1>7 DEF SettlementInv, NoneLost
<1>16. ASSUME NEW c \in Bookings, HasRun(c) PROVE HasRun(c)'
  BY <1>1, <1>7, <1>16 DEF HasRun, SettlementInv, OpenedBySome, Ran
<1>17. ActiveHasRun' /\ SeenHasRun'
  <2>1. AtStart \subseteq Bookings
    BY SettlementAssumption
  <2> QED
    BY <1>1, <1>8, <1>16, <2>1 DEF SettlementInv, ActiveHasRun, SeenHasRun
<1>18. RowCloser' /\ UsageDue'
  <2>1. \A q \in Requests, c \in Bookings : ClosedBy(q, c) =>
            ClosedBy(q, c)' /\ req'[q].clock = req[q].clock
    BY <1>3, <1>6, <1>7, <1>8 DEF ClosedBy
  <2>2. \A s \in Requests : HasRefreshed(s)' => HasRefreshed(s)
    BY <1>1, <1>7, <1>9 DEF HasRefreshed
  <2>3. \A s \in Requests : EndsActive(s)' /\ req'[s].booking \in AtStart /\ HasRefreshed(s)' =>
            Billable(req[s].booking, req'[s].usage)
    BY <1>8, <1>9, <2>2 DEF SettlementInv, UsageDue
  <2> HIDE DEF Billable, HasRefreshed, ClosedBy
  <2> QED
    BY <1>1, <1>8, <1>9, <1>10, <2>1, <2>3, AccountsKept
<1> QED
  BY <1>1, <1>10, <1>11, <1>12, <1>13, <1>14, <1>15, <1>17, <1>18 DEF SettlementInv

(* The step the argument about the rows turns on.  A request that commits     *)
(* active on the rail is the opener and has not run before, so nobody has     *)
(* seen the booking active yet; any other commit is a close, and leaves the   *)
(* start of the booking alone.                                                *)
LEMMA CommitInv == ASSUME Typed, SettlementInv, NEW r \in Requests, Commit(r)
                   PROVE  Typed' /\ SettlementInv'
<1>0. PICK b \in Bookings : b = req[r].booking
  BY DEF Typed, Known, Commit, At
<1> DEFINE to == req[r].to
           at == req[r].clock
           row == [status |-> to,
                   startedAt |-> IF to = "active" THEN at ELSE rows[b].startedAt,
                   endedAt |-> IF to \in Closed THEN at ELSE rows[b].endedAt]
           n == [req[r] EXCEPT !.pc = "written"]
<1>1. /\ req[r].pc = "commit" /\ req' = [req EXCEPT ![r] = n]
      /\ rows' = [rows EXCEPT ![b] = row]
      /\ UNCHANGED <<now, ledger, wallets, chain, mempool, receipts, events, crashes>>
  BY <1>0 DEF Typed, ReqOK, Commit, At, Goto
<1>2. /\ req[r] \in ReqRow /\ to \in {"active", "completed", "cancelled"}
      /\ rows[b] \in BookingRow /\ at \in Nat /\ at # Never
  BY <1>1 DEF Typed, ReqOK, ReqRow, Known, Closed, RowsOK, SettlementInv, InOrder, CallInOrder
<1>3. row \in BookingRow /\ row.status = to
  BY <1>2 DEF BookingRow, Statuses
<1>4. /\ to = "active" => row.startedAt = at /\ row.endedAt = rows[b].endedAt
      /\ to # "active" => to \in Closed /\ row.startedAt = rows[b].startedAt /\ row.endedAt = at
  BY <1>2 DEF Closed
<1> HIDE DEF row
<1>5. n \in ReqRow
  BY <1>2 DEF ReqRow, Pcs, InFlight
<1>6. /\ n.onRail = req[r].onRail /\ n.pc = "written" /\ n.usage = req[r].usage
      /\ n.ok = req[r].ok /\ n.clock = at /\ GoesOn(r, n)
  BY <1>1, <1>2, <1>5 DEF ReqRow, GoesOn
<1> HIDE DEF n
<1>7. req'[r] = n /\ \A s \in Requests : s # r => req'[s] = req[s]
  BY <1>1 DEF Typed, ReqOK
<1>8. rows'[b] = row /\ \A c \in Bookings : c # b => rows'[c] = rows[c]
  BY <1>1, <1>2 DEF Typed, RowsOK
<1>9. \A s \in Requests : /\ req'[s].booking = req[s].booking
                          /\ req'[s].to = req[s].to /\ req'[s].prev = req[s].prev
                          /\ req'[s].usage = req[s].usage /\ req'[s].ok = req[s].ok
                          /\ req'[s].clock = req[s].clock
  BY <1>6, <1>7 DEF GoesOn
<1>10. \A s \in Requests : /\ CallOf(s)' = CallOf(s) /\ EndsActive(s)' = EndsActive(s)
                           /\ LedgerRow(s)' = LedgerRow(s) /\ Sent(s)' = Sent(s)
  BY <1>1, <1>9 DEF CallOf, EndsActive, LedgerRow, Sent
<1>11. AtStart \subseteq Bookings
  BY SettlementAssumption
<1>12. ASSUME b \in AtStart, HasRun(b) PROVE to # "active"
  <2>1. SUFFICES ASSUME to = "active" PROVE FALSE
    OBVIOUS
  <2>2. req[r].ok /\ receipts[r] = "mined"
    BY <1>1, <1>0, <1>12, <2>1 DEF SettlementInv, InOrder, CallInOrder
  <2>3. chain[b].opener = r
    BY <1>0, <2>1, <2>2 DEF SettlementInv, MinedDone
  <2> QED
    BY <1>1, <1>12, <2>3 DEF HasRun, Ran
<1>13. ASSUME b \in AtStart, to = "active" PROVE HasRun(b)'
  <2>1. req[r].ok /\ receipts[r] = "mined"
    BY <1>1, <1>0, <1>13 DEF SettlementInv, InOrder, CallInOrder
  <2>2. chain[b].status # "Unset" /\ chain[b].opener = r
    BY <1>0, <1>13, <2>1 DEF SettlementInv, MinedDone
  <2>3. LedgerRow(r) \in ledger /\ LedgerRow(r).booking = b
        /\ LedgerRow(r).kind = "open" /\ LedgerRow(r).status = "confirmed"
    BY <1>0, <1>1, <1>13, <2>1
    DEF SettlementInv, InOrder, SentInOrder, Sent, Recorded, LedgerRow, CallOf
  <2> QED
    BY <1>1, <1>2, <1>4, <1>6, <1>7, <1>8, <1>13, <2>2, <2>3 DEF HasRun, Ran, Never
<1>14. ASSUME NEW c \in AtStart, HasRun(c) PROVE HasRun(c)'
  <2>1. rows'[c].startedAt = rows[c].startedAt
    BY <1>4, <1>8, <1>11, <1>12, <1>14
  <2>2. chain[c].opener \in Requests
    BY <1>11, <1>14 DEF HasRun, SettlementInv, OpenedBySome
  <2> QED
    BY <1>1, <1>6, <1>7, <1>14, <2>1, <2>2 DEF HasRun, Ran
<1>15. Typed'
  <2>1. RowsOK'
    BY <1>1, <1>2, <1>3 DEF Typed, RowsOK
  <2> QED
    BY <1>1, <1>6, <2>1, RequestTyped
    DEF Typed, ClockOK, ChainOK, PoolOK, OneUnmined, ReceiptsOK, EventsOK, LedgerOK
<1>16. RowCloser' /\ UsageDue'
  <2>1. \A q \in Requests, c \in Bookings : ClosedBy(q, c) =>
            ClosedBy(q, c)' /\ req'[q].clock = req[q].clock
    BY <1>1, <1>6, <1>7, <1>9 DEF ClosedBy
  <2>2. \A c \in AtStart : HasRun(c) => rows'[c].startedAt = rows[c].startedAt
    BY <1>2, <1>4, <1>8, <1>11, <1>12
  <2>3. ASSUME NEW c \in Bookings, rows'[c].status \in Closed
        PROVE  \/ rows[c].status \in Closed /\ rows'[c].endedAt = rows[c].endedAt
               \/ \E q \in Requests : ClosedBy(q, c)' /\ rows'[c].endedAt = req'[q].clock
    <3>1. CASE c = b
      <4>1. to \in Closed /\ rows'[b].endedAt = at
        BY <1>3, <1>4, <1>8, <2>3, <3>1 DEF Closed
      <4>2. ClosedBy(r, b)' /\ req'[r].clock = at
        BY <1>0, <1>2, <1>6, <1>7, <1>9, <4>1 DEF ClosedBy
      <4> QED
        BY <3>1, <4>1, <4>2
    <3> QED
      BY <1>8, <2>3, <3>1
  <2>4. ASSUME NEW s \in Requests,
               EndsActive(s)', req'[s].booking \in AtStart, HasRefreshed(s)'
        PROVE  Billable(req[s].booking, req'[s].usage)
    <3>1. CASE s = r
      <4>1. ~Sent(r)
        BY <1>1, <1>10, <2>4, <3>1 DEF SettlementInv, InOrder, SentInOrder, EndsActive, Closed
      <4> QED
        BY <1>6, <1>7, <1>10, <2>4, <3>1, <4>1 DEF HasRefreshed
    <3>2. CASE s # r
      <4>1. HasRefreshed(s)
        BY <1>7, <1>10, <2>4, <3>2 DEF HasRefreshed
      <4> QED
        BY <1>9, <1>10, <2>4, <4>1 DEF SettlementInv, UsageDue
    <3> QED
      BY <3>1, <3>2
  <2> HIDE DEF Billable, HasRefreshed, ClosedBy
  <2> QED
    BY <1>9, <1>10, <1>15, <2>1, <2>2, <2>3, <2>4, AccountsKept
<1>17. ASSUME NEW s \in Requests, EndsActive(s), req[s].booking \in AtStart, HasWritten(s)'
       PROVE  rows'[req[s].booking].status \in Closed
  <2> DEFINE c == req[s].booking
  <2>1. HasRun(c) /\ c \in Bookings
    BY <1>11, <1>17 DEF EndsActive, SettlementInv, SeenHasRun
  <2>2. CASE s # r
    <3>1. HasWritten(s)
      BY <1>7, <1>10, <1>17, <2>2 DEF HasWritten
    <3>2. rows[c].status \in Closed
      BY <1>17, <3>1 DEF SettlementInv, InOrder, CloserWrote
    <3>3. c = b => to # "active"
      BY <1>12, <1>17, <2>1
    <3> QED
      BY <1>3, <1>4, <1>8, <2>1, <3>2, <3>3
  <2>3. CASE s = r
    BY <1>0, <1>3, <1>8, <1>17, <2>3 DEF EndsActive
  <2> QED
    BY <2>2, <2>3
<1>18. InOrder'
  <2>1. ASSUME NEW s \in Requests
        PROVE  SentInOrder(s)' /\ CallInOrder(s)' /\ CloserWrote(s)'
    <3>1. SentInOrder(s) /\ CallInOrder(s) /\ CloserWrote(s)
      BY DEF SettlementInv, InOrder
    <3>2. CloserWrote(s)'
      BY <1>9, <1>10, <1>17 DEF CloserWrote
    <3>3. CASE s = r
      BY <1>1, <1>2, <1>6, <1>7, <1>9, <1>10, <3>1, <3>2, <3>3 DEF SentInOrder, CallInOrder, Recorded
    <3>4. CASE s # r
      BY <1>1, <1>7, <1>10, <3>1, <3>2, <3>4 DEF SentInOrder, CallInOrder
    <3> QED
      BY <3>3, <3>4
  <2> QED
    BY <2>1 DEF InOrder
<1>19. PoolIsOurs'
  <2>1. \A tx \in mempool : tx.req \in Requests
    BY DEF Typed, PoolOK, Tx
  <2> QED
    BY <1>1, <1>9, <1>10, <2>1 DEF SettlementInv, PoolIsOurs
<1>20. LedgerIsOurs'
  <2>1. ASSUME NEW x \in ledger
        PROVE  x = LedgerRow(x.req)' /\ OnLedger(x.req)'
    <3>1. x.req \in Requests /\ x = LedgerRow(x.req) /\ OnLedger(x.req)
      BY DEF Typed, LedgerOK, LedgerRows, SettlementInv, LedgerIsOurs
    <3> QED
      BY <1>1, <1>6, <1>7, <1>9, <1>10, <3>1 DEF OnLedger, Recorded
  <2> QED
    BY <1>1, <2>1 DEF LedgerIsOurs
<1>21. MinedDone' /\ ClosedByOne' /\ OpenedBySome' /\ ClosedBySome'
  BY <1>1, <1>9, <1>10 DEF SettlementInv, MinedDone, ClosedByOne, OpenedBySome, ClosedBySome
<1>22. NoneLost'
  BY <1>1, <1>6, <1>7 DEF SettlementInv, NoneLost
<1>23. ActiveHasRun'
  BY <1>3, <1>8, <1>11, <1>13, <1>14 DEF SettlementInv, ActiveHasRun
<1>24. SeenHasRun'
  BY <1>9, <1>14 DEF SettlementInv, SeenHasRun
<1> QED
  BY <1>1, <1>15, <1>16, <1>18, <1>19, <1>20, <1>21, <1>22, <1>23, <1>24 DEF SettlementInv

-----------------------------------------------------------------------------
(* The contract                                                             *)

(* What a transaction in the pool says of the request that sent it.         *)
LEMMA InPool ==
    ASSUME Typed, SettlementInv, NEW tx \in mempool
    PROVE  /\ tx \in Tx /\ tx.req \in Requests /\ tx.booking \in Bookings
           /\ tx.booking = req[tx.req].booking /\ tx.call = CallOf(tx.req)
           /\ receipts[tx.req] = "none" /\ Sent(tx.req)
           /\ req[tx.req].to \in {"active", "completed", "cancelled"}
           /\ tx.call = "open" <=> req[tx.req].to = "active"
           /\ mempool \ {tx} = {}
<1>1. tx \in Tx /\ tx.req \in Requests /\ mempool \ {tx} = {} /\ tx.booking \in Bookings
  BY DEF Typed, PoolOK, OneUnmined, Tx
<1>2. /\ tx.booking = req[tx.req].booking /\ tx.call = CallOf(tx.req)
      /\ receipts[tx.req] = "none" /\ Sent(tx.req)
  BY DEF SettlementInv, PoolIsOurs, Sent
<1>3. req[tx.req].pc # "idle"
  BY <1>1, <1>2 DEF SettlementInv, InOrder, SentInOrder, Recorded
<1>4. req[tx.req].to \in {"active", "completed", "cancelled"}
  BY <1>1, <1>3 DEF Typed, Known, Closed
<1>5. tx.call = "open" <=> req[tx.req].to = "active"
  BY <1>2, <1>4 DEF CallOf
<1> QED
  BY <1>1, <1>2, <1>4, <1>5

(* Once the pool is empty, what the requests know is still in order if      *)
(* nothing else of theirs has changed and no receipt is taken back.         *)
LEMMA PoolIsEmptied ==
    ASSUME Typed, SettlementInv, mempool' = {}, ReceiptsOK',
           UNCHANGED <<now, rows, ledger, wallets, req, events, crashes>>,
           \A s \in Requests : receipts[s] # "none" => receipts'[s] = receipts[s],
           \A s \in Requests : receipts'[s] # "none" => Sent(s)
    PROVE  /\ InOrder' /\ PoolIsOurs' /\ LedgerIsOurs' /\ NoneLost' /\ RowCloser' /\ UsageDue'
           /\ ChainOK' => Typed'
<1>1. ASSUME NEW s \in Requests
      PROVE  SentInOrder(s)' /\ CallInOrder(s)' /\ CloserWrote(s)'
  <2>1. Sent(s)' => Sent(s)
    BY DEF Sent
  <2>2. EndsActive(s)' = EndsActive(s) /\ LedgerRow(s)' = LedgerRow(s)
    BY DEF EndsActive, LedgerRow, CallOf
  <2>3. SentInOrder(s) /\ CallInOrder(s) /\ CloserWrote(s)
    BY DEF SettlementInv, InOrder
  <2> QED
    BY <2>1, <2>2, <2>3 DEF SentInOrder, CallInOrder, CloserWrote, HasWritten
<1>2. InOrder' /\ PoolIsOurs'
  BY <1>1 DEF InOrder, PoolIsOurs
<1>3. LedgerIsOurs' /\ NoneLost'
  BY DEF SettlementInv, LedgerIsOurs, LedgerRow, OnLedger, CallOf, NoneLost
<1>4. ChainOK' => Typed'
  BY DEF Typed, ClockOK, RowsOK, ReqOK, PoolOK, OneUnmined, EventsOK, LedgerOK, Known
<1>5. RowCloser'
  BY DEF SettlementInv, RowCloser, ClosedBy
<1>6. UsageDue'
  <2>1. \A s \in Requests : HasRefreshed(s)' => HasRefreshed(s)
    BY DEF HasRefreshed, Sent
  <2>2. \A s \in Requests : EndsActive(s)' = EndsActive(s)
    BY DEF EndsActive
  <2>3. \A b, usage : Billable(b, usage)' = Billable(b, usage)
    BY DEF Billable, ClosedBy, UsageSeconds
  <2> QED
    BY <2>1, <2>2, <2>3 DEF SettlementInv, UsageDue
<1> QED
  BY <1>2, <1>3, <1>4, <1>5, <1>6

(* A transaction that reverts or is forgotten. *)
LEMMA NotMinedInv ==
    ASSUME Typed, SettlementInv, NEW tx \in mempool, Revert(tx) \/ Drop(tx)
    PROVE  Typed' /\ SettlementInv'
<1>1. /\ mempool' = {} /\ UNCHANGED <<now, rows, ledger, wallets, req, chain, events, crashes>>
      /\ receipts' = [receipts EXCEPT ![tx.req] = "reverted"] \/ UNCHANGED receipts
  BY InPool DEF Revert, Drop
<1>2. tx.req \in Requests /\ receipts[tx.req] = "none" /\ Sent(tx.req)
  BY InPool
<1>3. /\ ReceiptsOK'
      /\ \A s \in Requests : /\ receipts[s] # "none" => receipts'[s] = receipts[s]
                             /\ receipts'[s] # "none" => Sent(s)
                             /\ receipts'[s] = "mined" <=> receipts[s] = "mined"
  BY <1>1, <1>2 DEF Typed, ReceiptsOK, Sent
<1>4. /\ Typed' /\ InOrder' /\ PoolIsOurs' /\ LedgerIsOurs' /\ NoneLost'
      /\ RowCloser' /\ UsageDue'
  BY <1>1, <1>3, PoolIsEmptied DEF Typed, ChainOK
<1>5. MinedDone' /\ ClosedByOne' /\ OpenedBySome' /\ ClosedBySome'
  <2>1. \A s \in Requests : CallOf(s)' = CallOf(s)
    BY <1>1 DEF CallOf
  <2>2. MinedDone'
    BY <1>1, <1>3, <2>1 DEF SettlementInv, MinedDone
  <2>3. ClosedByOne' /\ OpenedBySome' /\ ClosedBySome'
    BY <1>1, <1>3 DEF SettlementInv, ClosedByOne, OpenedBySome, ClosedBySome
  <2> QED
    BY <2>2, <2>3
<1>6. ActiveHasRun' /\ SeenHasRun' /\ (AtStart \subseteq wallets)'
  BY <1>1 DEF SettlementInv, ActiveHasRun, SeenHasRun, HasRun
<1> QED
  BY <1>4, <1>5, <1>6 DEF SettlementInv

(* A closing that was mined has closed its booking. *)
LEMMA MinedCloseCloses ==
    ASSUME Typed, SettlementInv, NEW s \in Requests, receipts[s] = "mined",
           req[s].to # "active"
    PROVE  /\ ChainStatusAfter(CallOf(s)) \in {"Settled", "Cancelled"}
           /\ chain[req[s].booking].status = ChainStatusAfter(CallOf(s))
<1>1. req[s].pc # "idle"
  BY DEF SettlementInv, InOrder, SentInOrder, Sent, Recorded
<1>2. req[s].to \in Closed
  BY <1>1 DEF Typed, Known, Closed
<1> QED
  BY <1>2 DEF SettlementInv, MinedDone, CallOf, ChainStatusAfter, Closed

(* A transaction is mined: only an unset booking is opened and only an open *)
(* one is closed, so whoever was mined before it is not contradicted.       *)
LEMMA MineInv == ASSUME Typed, SettlementInv, NEW tx \in mempool, Mine(tx)
                 PROVE  Typed' /\ SettlementInv'
<1>0. PICK b \in Bookings, r \in Requests : b = tx.booking /\ r = tx.req
  BY InPool
<1>1. /\ b = req[r].booking /\ tx.call = CallOf(r) /\ receipts[r] = "none" /\ Sent(r)
      /\ req[r].to \in {"active", "completed", "cancelled"}
      /\ tx.call = "open" <=> req[r].to = "active"
      /\ tx \in Tx
  BY <1>0, InPool
<1>2. /\ mempool' = {} /\ receipts' = [receipts EXCEPT ![r] = "mined"]
      /\ UNCHANGED <<now, rows, ledger, wallets, req, events, crashes>>
  BY <1>0, InPool DEF Mine
<1>3. /\ receipts'[r] = "mined" /\ ReceiptsOK'
      /\ \A s \in Requests : s # r => receipts'[s] = receipts[s]
  BY <1>2 DEF Typed, ReceiptsOK
<1>4. chain[b] \in Lock /\ now \in Nat /\ tx.usage \in Nat
  BY <1>1 DEF Typed, ChainOK, ClockOK, Tx
<1>5. /\ InOrder' /\ PoolIsOurs' /\ LedgerIsOurs' /\ NoneLost'
      /\ RowCloser' /\ UsageDue'
      /\ ChainOK' => Typed'
  <2>1. \A s \in Requests : /\ receipts[s] # "none" => receipts'[s] = receipts[s]
                            /\ receipts'[s] # "none" => Sent(s)
    BY <1>1, <1>3 DEF Sent
  <2> QED
    BY <1>2, <1>3, <2>1, PoolIsEmptied
<1>6. \A s \in Requests : CallOf(s)' = CallOf(s)
  BY <1>2 DEF CallOf
<1>7. AtStart \subseteq Bookings
  BY SettlementAssumption
<1>8. CASE tx.call = "open"
  <2> DEFINE new == [status |-> "Open", openedAt |-> now, opener |-> r, billed |-> 0]
  <2>1. chain[b].status = "Unset" /\ chain' = [chain EXCEPT ![b] = new]
    BY <1>0, <1>8 DEF Mine, ChainAccepts, EstimatedOk
  <2>2. new \in Lock /\ new.status = "Open" /\ new.opener = r
    BY <1>4 DEF Lock
  <2> HIDE DEF new
  <2>3. chain'[b] = new /\ \A c \in Bookings : c # b => chain'[c] = chain[c]
    BY <2>1 DEF Typed, ChainOK
  <2>4. ChainOK'
    BY <2>1, <2>2 DEF Typed, ChainOK
  <2>5. \A s \in Requests : receipts[s] = "mined" => req[s].booking # b /\ req[s].booking \in Bookings
    <3>1. \A s \in Requests : receipts[s] = "mined" => req[s].booking # b
      BY <2>1, MinedCloseCloses DEF SettlementInv, MinedDone
    <3> QED
      BY <3>1 DEF SettlementInv, InOrder, SentInOrder, Sent, Recorded, Typed, Known
  <2>6. MinedDone'
    <3>1. ASSUME NEW s \in Requests, receipts'[s] = "mined", s # r
          PROVE  receipts[s] = "mined" /\ chain'[req[s].booking] = chain[req[s].booking]
      BY <1>3, <2>3, <2>5, <3>1
    <3> QED
      BY <1>1, <1>2, <1>6, <1>8, <2>2, <2>3, <3>1 DEF SettlementInv, MinedDone
  <2>7. ClosedByOne'
    BY <1>1, <1>2, <1>3, <1>8 DEF SettlementInv, ClosedByOne
  <2>8. OpenedBySome' /\ ClosedBySome'
    BY <1>1, <1>2, <1>3, <1>8, <2>2, <2>3 DEF SettlementInv, OpenedBySome, ClosedBySome
  <2>9. \A c \in Bookings : HasRun(c) => HasRun(c)'
    BY <1>2, <2>1, <2>3 DEF HasRun
  <2>10. ActiveHasRun' /\ SeenHasRun' /\ (AtStart \subseteq wallets)'
    BY <1>2, <1>7, <2>9 DEF SettlementInv, ActiveHasRun, SeenHasRun
  <2> QED
    BY <1>5, <2>4, <2>6, <2>7, <2>8, <2>10 DEF SettlementInv
<1>9. CASE tx.call # "open"
  <2> DEFINE new == [chain[b] EXCEPT !.status = ChainStatusAfter(tx.call), !.billed = tx.usage]
  <2>1. chain[b].status = "Open" /\ chain' = [chain EXCEPT ![b] = new]
    BY <1>0, <1>9 DEF Mine, ChainAccepts, EstimatedOk, Typed, ChainOK
  <2>2. ChainStatusAfter(tx.call) \in {"Settled", "Cancelled"}
    BY <1>1, <1>9 DEF CallOf, ChainStatusAfter
  <2>3. /\ new \in Lock /\ new.status = ChainStatusAfter(tx.call)
        /\ new.opener = chain[b].opener /\ new.billed = tx.usage
    BY <1>4, <2>2 DEF Lock
  <2> HIDE DEF new
  <2>4. chain'[b] = new /\ \A c \in Bookings : c # b => chain'[c] = chain[c]
    BY <2>1 DEF Typed, ChainOK
  <2>5. ChainOK'
    BY <2>1, <2>3 DEF Typed, ChainOK
  <2>6. \A s \in Requests : receipts[s] = "mined" /\ req[s].to # "active" => req[s].booking # b
    BY <2>1, MinedCloseCloses
  <2>7. \A s \in Requests : receipts[s] = "mined" => req[s].booking \in Bookings
    BY DEF SettlementInv, InOrder, SentInOrder, Sent, Recorded, Typed, Known
  <2>8. tx.usage = req[r].usage
    BY <1>0, <1>9 DEF SettlementInv, PoolIsOurs
  <2>9. MinedDone'
    <3>1. ASSUME NEW s \in Requests, receipts'[s] = "mined", s # r, req[s].to = "active"
          PROVE  chain'[req[s].booking].status # "Unset" /\ chain'[req[s].booking].opener = s
      BY <1>3, <2>1, <2>2, <2>3, <2>4, <2>7, <3>1 DEF SettlementInv, MinedDone
    <3>2. ASSUME NEW s \in Requests, receipts'[s] = "mined", s # r, req[s].to # "active"
          PROVE  receipts[s] = "mined" /\ chain'[req[s].booking] = chain[req[s].booking]
      BY <1>3, <2>4, <2>6, <2>7, <3>2
    <3> QED
      BY <1>1, <1>2, <1>6, <1>9, <2>3, <2>4, <2>8, <3>1, <3>2 DEF SettlementInv, MinedDone
  <2>10. ClosedByOne'
    BY <1>1, <1>2, <1>3, <2>6 DEF SettlementInv, ClosedByOne
  <2>11. OpenedBySome' /\ ClosedBySome'
    <3>1. \A s \in Requests : receipts[s] = "mined" => receipts'[s] = "mined"
      BY <1>3
    <3>2. \A c \in Bookings : chain'[c].status # "Unset" =>
              chain[c].status # "Unset" /\ chain'[c].opener = chain[c].opener
      BY <2>1, <2>3, <2>4
    <3>3. OpenedBySome'
      BY <1>2, <3>1, <3>2 DEF SettlementInv, OpenedBySome
    <3>4. ClosedBySome'
      BY <1>1, <1>2, <1>3, <1>9, <2>4, <3>1 DEF SettlementInv, ClosedBySome
    <3> QED
      BY <3>3, <3>4
  <2>12. \A c \in Bookings : HasRun(c) => HasRun(c)'
    BY <1>2, <2>2, <2>3, <2>4 DEF HasRun
  <2>13. ActiveHasRun' /\ SeenHasRun' /\ (AtStart \subseteq wallets)'
    BY <1>2, <1>7, <2>12 DEF SettlementInv, ActiveHasRun, SeenHasRun
  <2> QED
    BY <1>5, <2>5, <2>9, <2>10, <2>11, <2>13 DEF SettlementInv
<1> QED
  BY <1>8, <1>9

-----------------------------------------------------------------------------
(* The rest: a restart, a new booking, a wallet, the clock                  *)

LEMMA CrashInv == ASSUME Typed, SettlementInv, Crash PROVE Typed' /\ SettlementInv'
<1>1. /\ crashes' = crashes + 1 /\ crashes < MaxCrashes
      /\ UNCHANGED <<now, rows, ledger, wallets, chain, mempool, receipts, events>>
  BY DEF Crash
<1>2. ASSUME NEW s \in Requests
      PROVE  \/ req'[s] = req[s] /\ req[s].pc \notin InFlight
             \/ /\ req[s].pc \in InFlight /\ req'[s] = [req[s] EXCEPT !.pc = "lost"]
  BY DEF Crash
<1>3. ASSUME NEW s \in Requests
      PROVE  /\ req'[s] \in ReqRow
             /\ req'[s].booking = req[s].booking /\ req'[s].to = req[s].to
             /\ req'[s].prev = req[s].prev /\ req'[s].onRail = req[s].onRail
             /\ req'[s].usage = req[s].usage /\ req'[s].ok = req[s].ok
             /\ req'[s].clock = req[s].clock
             /\ \/ req'[s].pc = req[s].pc /\ req[s].pc \notin InFlight
                \/ req'[s].pc = "lost" /\ req[s].pc \in InFlight
  <2>1. req[s] \in ReqRow
    BY DEF Typed, ReqOK
  <2> QED
    BY <1>2, <2>1 DEF ReqRow, Pcs
<1>4. \A s \in Requests : /\ CallOf(s)' = CallOf(s) /\ EndsActive(s)' = EndsActive(s)
                          /\ LedgerRow(s)' = LedgerRow(s) /\ Sent(s)' = Sent(s)
  BY <1>1, <1>3 DEF CallOf, EndsActive, LedgerRow, Sent
<1>5. Typed'
  <2>1. ReqOK'
    BY <1>3 DEF ReqOK, Crash
  <2>2. Known'
    BY <1>3 DEF Typed, Known, InFlight
  <2>3. ClockOK'
    BY <1>1, SettlementAssumption DEF Typed, ClockOK
  <2> QED
    BY <1>1, <2>1, <2>2, <2>3
    DEF Typed, RowsOK, ChainOK, PoolOK, OneUnmined, ReceiptsOK, EventsOK, LedgerOK
<1>6. InOrder'
  <2>1. ASSUME NEW s \in Requests
        PROVE  SentInOrder(s)' /\ CallInOrder(s)' /\ CloserWrote(s)'
    <3>1. SentInOrder(s) /\ CallInOrder(s) /\ CloserWrote(s)
      BY DEF SettlementInv, InOrder
    <3>2. SentInOrder(s)'
      BY <1>1, <1>3, <1>4, <3>1 DEF SentInOrder, InFlight, Recorded
    <3>3. CallInOrder(s)'
      BY <1>1, <1>3, <1>4, <3>1 DEF CallInOrder
    <3>4. CloserWrote(s)'
      BY <1>1, <1>3, <1>4, <3>1 DEF CloserWrote, HasWritten
    <3> QED
      BY <3>2, <3>3, <3>4
  <2> QED
    BY <2>1 DEF InOrder
<1>7. PoolIsOurs'
  <2>1. \A tx \in mempool : tx.req \in Requests
    BY DEF Typed, PoolOK, Tx
  <2> QED
    BY <1>1, <1>3, <1>4, <2>1 DEF SettlementInv, PoolIsOurs
<1>8. LedgerIsOurs'
  <2>1. ASSUME NEW x \in ledger
        PROVE  x = LedgerRow(x.req)' /\ OnLedger(x.req)'
    <3>1. x.req \in Requests /\ x = LedgerRow(x.req) /\ OnLedger(x.req)
      BY DEF Typed, LedgerOK, LedgerRows, SettlementInv, LedgerIsOurs
    <3> QED
      BY <1>3, <1>4, <3>1 DEF OnLedger
  <2> QED
    BY <1>1, <2>1 DEF LedgerIsOurs
<1>9. MinedDone' /\ ClosedByOne' /\ OpenedBySome' /\ ClosedBySome'
  <2>1. MinedDone'
    BY <1>1, <1>3, <1>4 DEF SettlementInv, MinedDone
  <2>2. ClosedByOne' /\ OpenedBySome' /\ ClosedBySome'
    BY <1>1, <1>3 DEF SettlementInv, ClosedByOne, OpenedBySome, ClosedBySome
  <2> QED
    BY <2>1, <2>2
<1>10. NoneLost'
  <2>1. crashes' # 0
    BY <1>1 DEF Typed, ClockOK
  <2> QED
    BY <2>1 DEF NoneLost
<1>11. ASSUME NEW c \in Bookings, HasRun(c) PROVE HasRun(c)'
  <2>1. chain[c].opener \in Requests
    BY <1>11 DEF HasRun, SettlementInv, OpenedBySome
  <2> QED
    BY <1>1, <1>3, <1>11, <2>1 DEF HasRun, Ran
<1>12. ActiveHasRun' /\ SeenHasRun'
  <2>1. AtStart \subseteq Bookings
    BY SettlementAssumption
  <2> QED
    BY <1>1, <1>3, <1>11, <2>1 DEF SettlementInv, ActiveHasRun, SeenHasRun
<1>13. RowCloser' /\ UsageDue'
  <2>1. \A q \in Requests, c \in Bookings : ClosedBy(q, c) =>
            ClosedBy(q, c)' /\ req'[q].clock = req[q].clock
    BY <1>3 DEF ClosedBy
  <2>2. \A s \in Requests : HasRefreshed(s)' => HasRefreshed(s)
    BY <1>3, <1>4 DEF HasRefreshed
  <2>3. \A s \in Requests : EndsActive(s)' /\ req'[s].booking \in AtStart /\ HasRefreshed(s)' =>
            Billable(req[s].booking, req'[s].usage)
    BY <1>3, <1>4, <2>2 DEF SettlementInv, UsageDue
  <2> HIDE DEF Billable, HasRefreshed, ClosedBy
  <2> QED
    BY <1>1, <1>3, <1>4, <1>5, <2>1, <2>3, AccountsKept
<1> QED
  BY <1>1, <1>5, <1>6, <1>7, <1>8, <1>9, <1>10, <1>12, <1>13 DEF SettlementInv

(* What the requests, the chain and the ledger do not see: rows that go on, *)
(* wallets that are added, the clock.                                       *)
LEMMA OutsideInv ==
    ASSUME Typed, SettlementInv, RowsOK', ClockOK', now <= now', wallets \subseteq wallets',
           UNCHANGED <<ledger, req, chain, mempool, receipts, events, crashes>>,
           \A b \in Bookings : \/ rows'[b] = rows[b]
                               \/ /\ rows[b].status = "absent"
                                  /\ rows'[b] = [rows[b] EXCEPT !.status = "pending"]
    PROVE  Typed' /\ SettlementInv'
<1>1. Typed'
  BY DEF Typed, ReqOK, ChainOK, PoolOK, OneUnmined, ReceiptsOK, EventsOK, LedgerOK, Known
<1>2. AtStart \subseteq Bookings
  BY SettlementAssumption
<1>3. ASSUME NEW b \in Bookings
      PROVE  /\ rows'[b].startedAt = rows[b].startedAt /\ rows'[b].endedAt = rows[b].endedAt
             /\ rows[b].status \in Closed => rows'[b].status = rows[b].status
             /\ rows'[b].status \in Closed \cup {"active"} => rows'[b].status = rows[b].status
  <2>1. rows[b] \in BookingRow
    BY DEF Typed, RowsOK
  <2> QED
    BY <2>1 DEF BookingRow, Closed
<1>4. ASSUME NEW s \in Requests
      PROVE  SentInOrder(s)' /\ CallInOrder(s)' /\ CloserWrote(s)'
  <2>1. /\ CallOf(s)' = CallOf(s) /\ EndsActive(s)' = EndsActive(s)
        /\ LedgerRow(s)' = LedgerRow(s) /\ Sent(s)' = Sent(s)
    BY DEF CallOf, EndsActive, LedgerRow, Sent
  <2>2. SentInOrder(s) /\ CallInOrder(s) /\ CloserWrote(s)
    BY DEF SettlementInv, InOrder
  <2> QED
    BY <1>2, <1>3, <2>1, <2>2 DEF SentInOrder, CallInOrder, CloserWrote, HasWritten
<1>5. InOrder'
  BY <1>4 DEF InOrder
<1>6. PoolIsOurs' /\ LedgerIsOurs'
  BY ZenonT(60) DEF SettlementInv, PoolIsOurs, LedgerIsOurs, LedgerRow, OnLedger, CallOf
<1>7. \A s \in Requests : CallOf(s)' = CallOf(s)
  BY DEF CallOf
<1>8. MinedDone' /\ ClosedByOne' /\ OpenedBySome' /\ ClosedBySome' /\ NoneLost'
  BY <1>7 DEF SettlementInv, MinedDone, ClosedByOne, OpenedBySome, ClosedBySome, NoneLost
<1>9. RowCloser' /\ UsageDue'
  <2>1. \A q \in Requests, c \in Bookings : ClosedBy(q, c) =>
            ClosedBy(q, c)' /\ req'[q].clock = req[q].clock
    BY DEF ClosedBy
  <2>2. \A s \in Requests : HasRefreshed(s)' = HasRefreshed(s) /\ EndsActive(s)' = EndsActive(s)
    BY DEF HasRefreshed, Sent, EndsActive
  <2>3. \A s \in Requests : EndsActive(s)' /\ req'[s].booking \in AtStart /\ HasRefreshed(s)' =>
            EndsActive(s) /\ Billable(req[s].booking, req'[s].usage)
    BY <2>2 DEF SettlementInv, UsageDue
  <2> HIDE DEF Billable, HasRefreshed, ClosedBy
  <2> QED
    BY <1>1, <1>2, <1>3, <2>1, <2>3, AccountsKept
<1>10. ActiveHasRun' /\ SeenHasRun'
  BY <1>2, <1>3 DEF SettlementInv, ActiveHasRun, SeenHasRun, HasRun, Typed, Known
<1> QED
  BY <1>1, <1>5, <1>6, <1>8, <1>9, <1>10 DEF SettlementInv

LEMMA StepInv == ASSUME Typed, SettlementInv, [Next]_vars PROVE Typed' /\ SettlementInv'
<1>1. ASSUME NEW b \in Bookings, CreateBooking(b) PROVE Typed' /\ SettlementInv'
  <2>1. RowsOK' /\ ClockOK'
    BY <1>1 DEF CreateBooking, Typed, RowsOK, ClockOK, BookingRow, Statuses
  <2>2. \A c \in Bookings : \/ rows'[c] = rows[c]
                            \/ /\ rows[c].status = "absent"
                               /\ rows'[c] = [rows[c] EXCEPT !.status = "pending"]
    BY <1>1 DEF CreateBooking, Typed, RowsOK
  <2>3. now <= now'
    BY <1>1 DEF CreateBooking, Typed, ClockOK
  <2> QED
    BY <1>1, <2>1, <2>2, <2>3, OutsideInv DEF CreateBooking
<1>2. ASSUME NEW b \in Bookings, SetWallets(b) PROVE Typed' /\ SettlementInv'
  <2>1. RowsOK' /\ ClockOK' /\ now <= now'
    BY <1>2 DEF SetWallets, Typed, RowsOK, ClockOK
  <2> QED
    BY <1>2, <2>1, OutsideInv DEF SetWallets
<1>3. CASE Tick
  <2>1. RowsOK' /\ ClockOK' /\ now <= now'
    BY <1>3, SettlementAssumption DEF Tick, Typed, RowsOK, ClockOK
  <2> QED
    BY <1>3, <2>1, OutsideInv DEF Tick
<1>4. CASE Crash
  BY <1>4, CrashInv
<1>5. ASSUME NEW r \in Requests, NEW b \in Bookings, NEW to \in Statuses, Load(r, b, to)
      PROVE  Typed' /\ SettlementInv'
  BY <1>5, LoadInv
<1>6. ASSUME NEW r \in Requests, RequestStep(r) PROVE Typed' /\ SettlementInv'
  <2>1. \/ Prepare(r) \/ Send(r) \/ Record(r) \/ SetStatus(r)
        \/ Commit(r) \/ Refresh(r) \/ Publish(r)
        => Typed' /\ SettlementInv'
    BY PrepareInv, SendInv, RecordInv, SetStatusInv, CommitInv, RefreshInv, PublishInv
  <2>2. CASE SendFails(r)
    BY <2>2, LearnsInv DEF SendFails, At
  <2>3. CASE GotReceipt(r)
    <3> DEFINE ok == receipts[r] = "mined"
    <3>1. ok \in BOOLEAN /\ (ok => receipts[r] = "mined")
      OBVIOUS
    <3>2. req' = [req EXCEPT ![r].pc = "record", ![r].ok = ok]
      BY <2>3 DEF GotReceipt
    <3> HIDE DEF ok
    <3> QED
      BY <2>3, <3>1, <3>2, LearnsInv DEF GotReceipt, At
  <2>4. CASE ReceiptTimesOut(r)
    BY <2>4, LearnsInv DEF ReceiptTimesOut, At
  <2> QED
    BY <1>6, <2>1, <2>2, <2>3, <2>4 DEF RequestStep
<1>7. ASSUME NEW tx \in mempool, Mine(tx) \/ Revert(tx) \/ Drop(tx)
      PROVE  Typed' /\ SettlementInv'
  BY <1>7, MineInv, NotMinedInv
<1>8. CASE UNCHANGED vars
  <2>1. RowsOK' /\ ClockOK' /\ now <= now'
    BY <1>8 DEF vars, Typed, RowsOK, ClockOK
  <2> QED
    BY <1>8, <2>1, OutsideInv DEF vars
<1> QED
  BY <1>1, <1>2, <1>3, <1>4, <1>5, <1>6, <1>7, <1>8 DEF Next

(* The invariant holds through every step of the requests, the chain, the   *)
(* restarts, the wallets and the clock.                                     *)
THEOREM SettlementInvariant == Spec => [](Typed /\ SettlementInv)
<1>1. Init => Typed /\ SettlementInv
  BY InitTyped, InitSettlement
<1>2. Typed /\ SettlementInv /\ [Next]_vars => (Typed /\ SettlementInv)'
  BY StepInv
<1> QED
  BY <1>1, <1>2, PTL DEF Spec

-----------------------------------------------------------------------------
(* What it is for                                                           *)

(* The rows, requests, pool and ledger keep their types; the settler never  *)
(* has two transactions unmined (_send takes its nonce without counting     *)
(* them).                                                                   *)
THEOREM SettlementTypeCorrect == Spec => []TypeOK
BY SettlementInvariant, TypedIsType, PTL

(* transition_booking tells the worker to start a booking on the rail only  *)
(* when its own openBooking placed the lock, however many requests race.    *)
THEOREM LockBeforeActivation == Spec => []ActivationOwnsLock
<1>1. Typed /\ SettlementInv => ActivationOwnsLock
  <2>1. SUFFICES ASSUME Typed, SettlementInv, NEW r \in Requests,
                        req[r].to = "active", req[r].onRail,
                        req[r].pc \in {"write", "commit", "written", "publish", "done"}
                 PROVE  /\ chain[req[r].booking].status # "Unset"
                        /\ chain[req[r].booking].opener = r
    BY DEF ActivationOwnsLock
  <2>2. receipts[r] = "mined"
    BY <2>1 DEF SettlementInv, InOrder, CallInOrder
  <2> QED
    BY <2>1, <2>2 DEF SettlementInv, MinedDone
<1> QED
  BY <1>1, SettlementInvariant, PTL

LEMMA ConfirmedMined ==
    ASSUME Typed, SettlementInv, NEW row \in ledger, row.status = "confirmed"
    PROVE  /\ row.req \in Requests /\ receipts[row.req] = "mined"
           /\ row.booking = req[row.req].booking /\ row.booking \in Bookings
           /\ row.kind = CallOf(row.req) /\ row = LedgerRow(row.req)
           /\ req[row.req].to \in {"active", "completed", "cancelled"}
           /\ row.kind = "open" <=> req[row.req].to = "active"
<1>1. row.req \in Requests /\ row = LedgerRow(row.req) /\ OnLedger(row.req) /\ row.booking \in Bookings
  BY DEF Typed, LedgerOK, LedgerRows, SettlementInv, LedgerIsOurs
<1>2. /\ row.booking = req[row.req].booking /\ row.kind = CallOf(row.req)
      /\ req[row.req].ok
  BY <1>1 DEF LedgerRow
<1>3. req[row.req].to \in {"active", "completed", "cancelled"}
  BY <1>1 DEF OnLedger, Recorded, Typed, Known, Closed
<1>4. row.kind = "open" <=> req[row.req].to = "active"
  BY <1>2, <1>3 DEF CallOf
<1>5. receipts[row.req] = "mined"
  BY <1>1, <1>2 DEF SettlementInv, InOrder, CallInOrder
<1> QED
  BY <1>1, <1>2, <1>3, <1>4, <1>5

(* A row of settlement_txs that says confirmed is of a call the contract    *)
(* has carried out, and stays true.                                         *)
THEOREM LedgerConfirmsTruth == Spec => []ConfirmedIsTrue
<1>1. Typed /\ SettlementInv => ConfirmedIsTrue
  BY ConfirmedMined DEF ConfirmedIsTrue, SettlementInv, MinedDone
<1> QED
  BY <1>1, SettlementInvariant, PTL

(* No booking has two confirmed openings or two confirmed charges on the    *)
(* ledger, whoever closes it and whatever receipts are lost.                *)
THEOREM ChargedAtMostOnce == Spec => []ChargedOnce
<1>1. Typed /\ SettlementInv => ChargedOnce
  <2>1. SUFFICES ASSUME Typed, SettlementInv, NEW b \in Bookings
                 PROVE  /\ Cardinality(Confirmed(b, {"open"})) <= 1
                        /\ Cardinality(Confirmed(b, {"settle", "cancel"})) <= 1
    BY DEF ChargedOnce
  <2>2. ASSUME NEW x \in Confirmed(b, {"open"}), NEW y \in Confirmed(b, {"open"})
        PROVE  x = y
    <3>1. x.req = y.req
      BY <2>1, <2>2, ConfirmedMined DEF Confirmed, SettlementInv, MinedDone
    <3>2. x = LedgerRow(x.req) /\ y = LedgerRow(y.req)
      BY <2>1, <2>2, ConfirmedMined DEF Confirmed
    <3> QED
      BY <3>1, <3>2
  <2>3. ASSUME NEW x \in Confirmed(b, {"settle", "cancel"}),
               NEW y \in Confirmed(b, {"settle", "cancel"})
        PROVE  x = y
    <3>1. x.req = y.req
      BY <2>1, <2>3, ConfirmedMined DEF Confirmed, SettlementInv, ClosedByOne
    <3>2. x = LedgerRow(x.req) /\ y = LedgerRow(y.req)
      BY <2>1, <2>3, ConfirmedMined DEF Confirmed
    <3> QED
      BY <3>1, <3>2
  <2> HIDE DEF Confirmed
  <2> QED
    BY <2>2, <2>3, AtMostOne
<1> QED
  BY <1>1, SettlementInvariant, PTL

-----------------------------------------------------------------------------
(* The promise to the readers of the ledger                                 *)

LocksOnRecord == StillOpen \cap AtStart
ClosedOnRecord == {b \in AtStart : Confirmed(b, {"settle", "cancel"}) # {}}

(* A request about to record a confirmed call has no row yet.               *)
LEMMA NothingConfirmedTwice ==
    ASSUME Typed, SettlementInv, NEW r \in Requests, Record(r), req[r].ok,
           NEW b \in Bookings, req[r].booking = b
    PROVE  /\ req[r].to = "active" => Confirmed(b, {"open"}) = {}
           /\ req[r].to # "active" => Confirmed(b, {"settle", "cancel"}) = {}
<1>1. req[r].pc = "record" /\ receipts[r] = "mined"
  BY DEF Record, At, SettlementInv, InOrder, CallInOrder
<1>2. \A row \in ledger : row.req # r
  BY <1>1 DEF SettlementInv, LedgerIsOurs, OnLedger, Recorded
<1>3. ASSUME NEW row \in ledger, row.status = "confirmed", row.booking = b,
             (row.kind = "open") = (req[r].to = "active")
      PROVE  FALSE
  <2>1. /\ row.req \in Requests /\ receipts[row.req] = "mined"
        /\ req[row.req].booking = b
        /\ (req[row.req].to = "active") = (req[r].to = "active")
    BY <1>3, ConfirmedMined
  <2>2. CASE req[r].to = "active"
    BY <1>1, <1>2, <2>1, <2>2 DEF SettlementInv, MinedDone
  <2>3. CASE req[r].to # "active"
    BY <1>1, <1>2, <2>1, <2>3 DEF SettlementInv, ClosedByOne
  <2> QED
    BY <2>2, <2>3
<1> QED
  BY <1>3 DEF Confirmed

(* Adding a row changes what is confirmed of its booking only.              *)
LEMMA ConfirmedAfter ==
    ASSUME NEW r \in Requests, ledger' = ledger \cup {LedgerRow(r)}, NEW b, NEW kinds
    PROVE  Confirmed(b, kinds)' = IF /\ b = req[r].booking
                                     /\ CallOf(r) \in kinds /\ req[r].ok
                                  THEN Confirmed(b, kinds) \cup {LedgerRow(r)}
                                  ELSE Confirmed(b, kinds)
<1>1. /\ LedgerRow(r).booking = req[r].booking /\ LedgerRow(r).kind = CallOf(r)
      /\ LedgerRow(r).status = "confirmed" <=> req[r].ok
  BY DEF LedgerRow
<1> HIDE DEF LedgerRow
<1> QED
  BY <1>1 DEF Confirmed

(* An activation is recorded before anybody can have seen the booking       *)
(* active, and so before its close.                                         *)
LEMMA RecordLocks ==
    ASSUME Typed, SettlementInv, NEW r \in Requests, Record(r), req[r].ok,
           req[r].to = "active", NEW b \in AtStart, req[r].booking = b
    PROVE  b \notin LocksOnRecord \cup ClosedOnRecord
<1>1. b \in Bookings
  BY SettlementAssumption
<1>2. Confirmed(b, {"open"}) = {}
  BY <1>1, NothingConfirmedTwice
<1>3. req[r].pc = "record" /\ receipts[r] = "mined"
  BY DEF Record, At, SettlementInv, InOrder, CallInOrder
<1>4. chain[b].opener = r
  BY <1>3 DEF SettlementInv, MinedDone
<1>5. ASSUME NEW row \in Confirmed(b, {"settle", "cancel"}) PROVE FALSE
  <2>1. /\ row.req \in Requests /\ receipts[row.req] = "mined"
        /\ req[row.req].booking = b /\ req[row.req].to # "active"
    BY <1>5, ConfirmedMined DEF Confirmed
  <2>2. req[row.req].prev = "active"
    BY <2>1 DEF SettlementInv, InOrder, SentInOrder, Sent, EndsActive
  <2>3. HasRun(b)
    BY <2>1, <2>2 DEF SettlementInv, SeenHasRun
  <2> QED
    BY <1>3, <1>4, <2>3 DEF HasRun, Ran
<1> QED
  BY <1>2, <1>5 DEF LocksOnRecord, StillOpen, ClosedOnRecord

(* A close is recorded of a booking that was seen active, so its lock is on *)
(* record.                                                                  *)
LEMMA RecordCloses ==
    ASSUME Typed, SettlementInv, NEW r \in Requests, Record(r), req[r].ok,
           req[r].to # "active", NEW b \in AtStart, req[r].booking = b
    PROVE  b \in LocksOnRecord
<1>1. b \in Bookings
  BY SettlementAssumption
<1>2. Confirmed(b, {"settle", "cancel"}) = {}
  BY <1>1, NothingConfirmedTwice
<1>3. req[r].prev = "active"
  BY DEF Record, At, SettlementInv, InOrder, CallInOrder, EndsActive
<1>4. HasRun(b)
  BY <1>3 DEF SettlementInv, SeenHasRun
<1>5. Confirmed(b, {"open"}) # {}
  BY <1>4 DEF HasRun, Confirmed
<1> QED
  BY <1>1, <1>2, <1>5 DEF LocksOnRecord, StillOpen

(* Every step of the backend, the chain and the restarts is a lock, a close *)
(* or nothing at all to a reader of the confirmed rows.                     *)
LEMMA RecordedStep ==
    ASSUME Typed, SettlementInv, [Next]_vars
    PROVE  \/ UNCHANGED <<LocksOnRecord, ClosedOnRecord>>
           \/ \E b \in AtStart :
                /\ b \notin LocksOnRecord \cup ClosedOnRecord
                /\ LocksOnRecord' = LocksOnRecord \cup {b} /\ UNCHANGED ClosedOnRecord
           \/ \E b \in AtStart :
                /\ b \in LocksOnRecord
                /\ LocksOnRecord' = LocksOnRecord \ {b}
                /\ ClosedOnRecord' = ClosedOnRecord \cup {b}
<1>1. ASSUME UNCHANGED ledger PROVE UNCHANGED <<LocksOnRecord, ClosedOnRecord>>
  BY <1>1 DEF LocksOnRecord, ClosedOnRecord, StillOpen, Confirmed
<1>2. ASSUME NEW r \in Requests, Record(r)
      PROVE  \/ UNCHANGED <<LocksOnRecord, ClosedOnRecord>>
             \/ \E b \in AtStart :
                  /\ b \notin LocksOnRecord \cup ClosedOnRecord
                  /\ LocksOnRecord' = LocksOnRecord \cup {b} /\ UNCHANGED ClosedOnRecord
             \/ \E b \in AtStart :
                  /\ b \in LocksOnRecord
                  /\ LocksOnRecord' = LocksOnRecord \ {b}
                  /\ ClosedOnRecord' = ClosedOnRecord \cup {b}
  <2> DEFINE kept(c) == \A kinds : Confirmed(c, kinds)' = Confirmed(c, kinds)
  <2>1. ledger' = ledger \cup {LedgerRow(r)} /\ AtStart \subseteq Bookings
    BY <1>2, SettlementAssumption DEF Record
  <2>2. \A c : c # req[r].booking \/ ~req[r].ok => kept(c)
    BY <2>1, ConfirmedAfter
  <2>3. ASSUME req[r].booking \notin AtStart \/ ~req[r].ok
        PROVE  UNCHANGED <<LocksOnRecord, ClosedOnRecord>>
    <3>1. \A c \in AtStart : kept(c)
      BY <2>2, <2>3
    <3> QED
      BY <2>1, <3>1 DEF LocksOnRecord, ClosedOnRecord, StillOpen
  <2>4. ASSUME NEW b \in AtStart, req[r].booking = b, req[r].ok, req[r].to = "active"
        PROVE  /\ b \notin LocksOnRecord \cup ClosedOnRecord
               /\ LocksOnRecord' = LocksOnRecord \cup {b} /\ UNCHANGED ClosedOnRecord
    <3>1. b \notin LocksOnRecord \cup ClosedOnRecord
      BY <1>2, <2>4, RecordLocks
    <3>2. CallOf(r) = "open"
      BY <2>4 DEF CallOf
    <3>3. /\ Confirmed(b, {"open"})' # {}
          /\ Confirmed(b, {"settle", "cancel"})' = Confirmed(b, {"settle", "cancel"})
      BY <2>1, <2>4, <3>2, ConfirmedAfter
    <3>4. Confirmed(b, {"settle", "cancel"}) = {}
      BY <2>4, <3>1 DEF ClosedOnRecord
    <3>5. \A c \in AtStart : c # b => kept(c)
      BY <2>2, <2>4
    <3> QED
      BY <2>1, <2>4, <3>1, <3>3, <3>4, <3>5 DEF LocksOnRecord, ClosedOnRecord, StillOpen
  <2>5. ASSUME NEW b \in AtStart, req[r].booking = b, req[r].ok, req[r].to # "active"
        PROVE  /\ b \in LocksOnRecord
               /\ LocksOnRecord' = LocksOnRecord \ {b}
               /\ ClosedOnRecord' = ClosedOnRecord \cup {b}
    <3>1. b \in LocksOnRecord
      BY <1>2, <2>5, RecordCloses
    <3>2. CallOf(r) \in {"settle", "cancel"}
      BY <1>2, <2>5 DEF CallOf, Record, At, Typed, Known, Closed
    <3>3. Confirmed(b, {"settle", "cancel"})' # {}
      BY <2>1, <2>5, <3>2, ConfirmedAfter
    <3>4. \A c \in AtStart : c # b => kept(c)
      BY <2>2, <2>5
    <3> QED
      BY <2>1, <2>5, <3>1, <3>3, <3>4 DEF LocksOnRecord, ClosedOnRecord, StillOpen
  <2> QED
    BY <2>3, <2>4, <2>5
<1>3. \/ UNCHANGED ledger
      \/ \E r \in Requests : Record(r)
  BY DEF Next, vars, CreateBooking, SetWallets, Load, RequestStep, Prepare, Send, SendFails,
         GotReceipt, ReceiptTimesOut, SetStatus, Commit, Refresh, Publish, Mine, Revert, Drop, Tick, Crash
<1> QED
  BY <1>1, <1>2, <1>3

(* settle_on_activate and settle_on_close, each after its own chain call,   *)
(* with rows committed apart from the status: of a booking whose parties    *)
(* had their wallets the ledger confirms a lock, then one close.            *)
THEOREM LedgerKeepsRecord == Spec => KeepsRecord
<1>1. Init => Promise!Init
  <2>1. Init => \A b, kinds : Confirmed(b, kinds) = {}
    BY DEF Init, Confirmed
  <2> QED
    BY <2>1 DEF Promise!Init, StillOpen
<1>2. Typed /\ SettlementInv /\ [Next]_vars => [Promise!Next]_(Promise!record)
  BY RecordedStep
  DEF Promise!Next, Promise!ConfirmLock, Promise!ConfirmClose, Promise!record, LocksOnRecord, ClosedOnRecord
<1> QED
  BY <1>1, <1>2, SettlementInvariant, PTL DEF Spec, KeepsRecord, Promise!Spec

(* GET /v1/ledger shows the locks the contract holds once nothing is under  *)
(* way, without late receipts and restarts.                                 *)
THEOREM LedgerAgreesWhenQuiet == Spec => []LedgerAgrees
<1>1. Typed /\ SettlementInv => LedgerAgrees
  <2>1. SUFFICES ASSUME Typed, SettlementInv, NEW b \in Bookings,
                        Quiet(b), crashes = 0, ~CameLate(b)
                 PROVE  b \in StillOpen <=> chain[b].status = "Open"
    BY DEF LedgerAgrees
  <2>2. ASSUME NEW r \in Requests, receipts[r] = "mined", req[r].booking = b
        PROVE  LedgerRow(r) \in ledger /\ LedgerRow(r).status = "confirmed"
    <3>1. req[r].pc # "lost" /\ req[r].pc \notin InFlight /\ Sent(r)
      BY <2>1, <2>2 DEF SettlementInv, NoneLost, Quiet, Sent
    <3>2. req[r].ok
      BY <2>1, <2>2, <3>1 DEF CameLate, InFlight
    <3>3. req[r].pc \in Recorded
      BY <2>1, <3>1 DEF SettlementInv, InOrder, SentInOrder, InFlight, Recorded
    <3> QED
      BY <2>1, <3>1, <3>2, <3>3 DEF SettlementInv, InOrder, SentInOrder, LedgerRow
  <2>3. ASSUME NEW r \in Requests, receipts[r] = "mined", req[r].booking = b
        PROVE  /\ req[r].to = "active" => Confirmed(b, {"open"}) # {}
               /\ req[r].to # "active" => Confirmed(b, {"settle", "cancel"}) # {}
    <3>1. LedgerRow(r) \in ledger /\ LedgerRow(r).status = "confirmed"
      BY <2>2, <2>3
    <3>2. LedgerRow(r).req = r
      BY DEF LedgerRow
    <3>3. LedgerRow(r).booking = b /\ LedgerRow(r).kind \in {"open", "settle", "cancel"}
      BY <2>1, <2>3, <3>1 DEF Typed, LedgerOK, LedgerRows, LedgerRow
    <3>4. LedgerRow(r).kind = "open" <=> req[r].to = "active"
      BY <2>1, <3>1, <3>2, ConfirmedMined
    <3> HIDE DEF LedgerRow
    <3> QED
      BY <3>1, <3>3, <3>4 DEF Confirmed
  <2>4. chain[b].status \in {"Unset", "Open", "Settled", "Cancelled"}
    BY <2>1 DEF Typed, ChainOK, Lock
  <2>5. ASSUME chain[b].status = "Open" PROVE b \in StillOpen
    <3>1. Confirmed(b, {"open"}) # {}
      BY <2>1, <2>3, <2>5 DEF SettlementInv, OpenedBySome
    <3>2. Confirmed(b, {"settle", "cancel"}) = {}
      BY <2>1, <2>5, ConfirmedMined, MinedCloseCloses DEF Confirmed
    <3> QED
      BY <3>1, <3>2 DEF StillOpen
  <2>6. ASSUME b \in StillOpen PROVE chain[b].status = "Open"
    <3>1. chain[b].status # "Unset"
      BY <2>1, <2>6, ConfirmedMined DEF StillOpen, Confirmed, SettlementInv, MinedDone
    <3>2. chain[b].status \notin {"Settled", "Cancelled"}
      BY <2>1, <2>3, <2>6 DEF StillOpen, SettlementInv, ClosedBySome
    <3> QED
      BY <2>4, <3>1, <3>2
  <2> QED
    BY <2>5, <2>6
<1> QED
  BY <1>1, SettlementInvariant, PTL

(* Whoever closed the lock of a booking had closed its row before. *)
LEMMA CloserOf ==
    ASSUME Typed, SettlementInv, NEW b \in AtStart, chain[b].status \in {"Settled", "Cancelled"}
    PROVE  rows[b].status \in Closed /\ Billable(b, chain[b].billed)
<1>1. PICK r \in Requests : receipts[r] = "mined" /\ req[r].booking = b /\ req[r].to # "active"
  BY SettlementAssumption DEF SettlementInv, ClosedBySome
<1>2. Sent(r) /\ EndsActive(r)
  BY <1>1 DEF Sent, SettlementInv, InOrder, SentInOrder
<1>3. rows[b].status \in Closed
  BY <1>1, <1>2 DEF SettlementInv, InOrder, CloserWrote, HasWritten
<1>4. Billable(b, req[r].usage)
  BY <1>1, <1>2 DEF SettlementInv, UsageDue, HasRefreshed
<1>5. chain[b].billed = req[r].usage
  BY <1>1 DEF SettlementInv, MinedDone
<1> QED
  BY <1>3, <1>4, <1>5

(* The contract closes only what the row has closed: a booking charged for  *)
(* is never active again, also when receipts are late or the backend        *)
(* restarts between the commit and the call.                                *)
THEOREM ChargedOnlyWhenClosed == Spec => []ChargedStaysClosed
<1>1. Typed /\ SettlementInv => ChargedStaysClosed
  BY CloserOf DEF ChargedStaysClosed
<1> QED
  BY <1>1, SettlementInvariant, PTL

(* settle_on_close charges the time from started_at to the clock of one of  *)
(* the closes, though another may overwrite ended_at meanwhile; and a close *)
(* that was answered has closed the lock or left its failure on the ledger. *)
THEOREM EveryCloseAccounted == Spec => []ClosesAreAccounted
<1>1. ASSUME Typed, SettlementInv,
             NEW b \in AtStart, chain[b].status \in {"Settled", "Cancelled"}
      PROVE  \E q \in Requests :
                /\ ClosedBy(q, b)
                /\ chain[b].billed = UsageSeconds([rows[b] EXCEPT !.endedAt = req[q].clock])
  BY <1>1, CloserOf DEF Billable
<1>2. ASSUME Typed, SettlementInv,
             NEW r \in Requests, EndsActive(r), req[r].onRail, req[r].pc = "done"
      PROVE  \/ chain[req[r].booking].status = ChainStatusAfter(CallOf(r))
             \/ \E row \in ledger : row.req = r /\ row.status = "failed"
  <2>1. LedgerRow(r) \in ledger /\ (req[r].ok => receipts[r] = "mined")
    BY <1>2 DEF SettlementInv, InOrder, CallInOrder
  <2>2. CASE req[r].ok
    BY <1>2, <2>1, <2>2 DEF SettlementInv, MinedDone, EndsActive, Closed
  <2>3. CASE ~req[r].ok
    <3>1. LedgerRow(r).req = r /\ LedgerRow(r).status = "failed"
      BY <2>3 DEF LedgerRow
    <3> QED
      BY <2>1, <3>1
  <2> QED
    BY <2>2, <2>3
<1>3. Typed /\ SettlementInv => ClosesAreAccounted
  BY <1>1, <1>2 DEF ClosesAreAccounted
<1> QED
  BY <1>3, SettlementInvariant, PTL
=============================================================================
