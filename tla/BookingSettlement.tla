--------------------------- MODULE BookingSettlement ---------------------------
(***************************************************************************)
(* The booking lifecycle of the backend against the escrow contract:       *)
(* backend/src/claw_api/api/v1/bookings.py (create and transition),        *)
(* chain/service.py and chain/escrow_client.py.                            *)
(*                                                                         *)
(* A transition request is a coroutine; one action is the code between two *)
(* of its awaits, so requests interleave at every database round trip and  *)
(* at the chain call, which runs in a thread and may take a minute.  No    *)
(* row is locked or versioned: the row a request read may be stale when it *)
(* writes.  The chain is an external actor: a transaction is sent, mined   *)
(* later, and its receipt may come after the request stopped waiting.      *)
(*                                                                         *)
(* Of the contract only what the backend sees is kept: the status of each  *)
(* booking and the usage it was charged for (ClawEscrow has the money).    *)
(***************************************************************************)
EXTENDS Integers, Sequences, FiniteSets

CONSTANTS
    Bookings,           \* ids of bookings
    Requests,           \* transition requests: each is served once
    MaxBookingSecs,     \* chain_max_booking_hours * 3600
    SettleGraceSecs,    \* SETTLE_GRACE_SECS of the contract
    AtStart,            \* bookings whose parties both have a wallet at first
    ReceiptTimeouts,    \* whether a receipt may come too late, or never
    MaxCrashes,         \* bound: restarts of the backend
    MaxTime             \* bound: the last instant explored

ASSUME SettlementAssumption ==
    /\ MaxBookingSecs \in Nat
    /\ SettleGraceSecs \in Nat
    /\ AtStart \subseteq Bookings
    /\ ReceiptTimeouts \in BOOLEAN
    /\ MaxCrashes \in Nat
    /\ MaxTime \in Nat

VARIABLES
    now,        \* the clock of the backend and of the blocks
    rows,       \* table bookings: status, started_at, ended_at
    ledger,     \* table settlement_txs
    wallets,    \* bookings whose consumer and supplier both have a wallet
    req,        \* the coroutine of each request
    chain,      \* contract: status, opening time and opener of each booking
    mempool,    \* the settler's transactions sent and not yet mined
    receipts,   \* request => receipt of its transaction
    events,     \* booking => events published on its worker's channel
    crashes

vars == <<now, rows, ledger, wallets, req, chain, mempool, receipts, events, crashes>>

Never == -1

Statuses == {"pending", "active", "completed", "cancelled"}
Closed == {"completed", "cancelled"}

NoRow == [status |-> "absent", startedAt |-> Never, endedAt |-> Never]

ValidTransitions(status) ==
    CASE status = "pending" -> {"active", "cancelled"}
      [] status = "active" -> {"completed", "cancelled"}
      [] OTHER -> {}

Idle == [pc |-> "idle", booking |-> "none", to |-> "none", prev |-> "none",
         onRail |-> FALSE, clock |-> Never, usage |-> 0, ok |-> FALSE]

InFlight == {"loaded", "call", "sent", "record", "write", "commit", "written", "publish"}

Init ==
    /\ now = 0
    /\ rows = [b \in Bookings |-> NoRow]
    /\ ledger = {}
    /\ wallets = AtStart
    /\ req = [r \in Requests |-> Idle]
    /\ chain = [b \in Bookings |-> [status |-> "Unset", openedAt |-> 0,
                                    opener |-> "none", billed |-> 0]]
    /\ mempool = {}
    /\ receipts = [r \in Requests |-> "none"]
    /\ events = [b \in Bookings |-> <<>>]
    /\ crashes = 0

-----------------------------------------------------------------------------
(* Outside the transitions *)

(* POST /bookings, once the offering and the worker are found. *)
CreateBooking(b) ==
    /\ rows[b].status = "absent"
    /\ rows' = [rows EXCEPT ![b].status = "pending"]
    /\ UNCHANGED <<now, ledger, wallets, req, chain, mempool, receipts, events, crashes>>

(* PUT /me/wallet and PATCH /suppliers/me: a wallet may be set, never unset. *)
SetWallets(b) ==
    /\ b \notin wallets
    /\ wallets' = wallets \cup {b}
    /\ UNCHANGED <<now, rows, ledger, req, chain, mempool, receipts, events, crashes>>

Tick ==
    /\ now < MaxTime
    /\ now' = now + 1
    /\ UNCHANGED <<rows, ledger, wallets, req, chain, mempool, receipts, events, crashes>>

-----------------------------------------------------------------------------
(* A transition request *)

At(r, pc) == req[r].pc = pc
Goto(r, pc) == req' = [req EXCEPT ![r].pc = pc]

(* _load_party, and the check against VALID_TRANSITIONS: the only time the  *)
(* status is looked at.                                                     *)
Load(r, b, to) ==
    /\ At(r, "idle")
    /\ to \in ValidTransitions(rows[b].status)
    /\ req' = [req EXCEPT ![r] = [Idle EXCEPT !.pc = "loaded", !.booking = b, !.to = to,
                                              !.prev = rows[b].status]]
    /\ UNCHANGED <<now, rows, ledger, wallets, chain, mempool, receipts, events, crashes>>

PrepareSettlesFirst(r) ==            \* mutant: closes are settled before the commit
    LET onRail == req[r].booking \in wallets
    IN /\ At(r, "loaded")
       /\ req' = [req EXCEPT ![r].onRail = onRail,
                             ![r].pc = IF onRail THEN "call" ELSE "write"]
       /\ UNCHANGED <<now, rows, ledger, wallets, chain, mempool, receipts, events, crashes>>

(* The parties are read, _applicable is decided by their wallets; an        *)
(* activation on the rail calls openBooking before it touches the row.      *)
Prepare(r) ==
    LET onRail == req[r].booking \in wallets
    IN /\ At(r, "loaded")
       /\ req' = [req EXCEPT ![r].onRail = onRail,
                             ![r].pc = IF req[r].to = "active" /\ onRail
                                       THEN "call" ELSE "write"]
       /\ UNCHANGED <<now, rows, ledger, wallets, chain, mempool, receipts, events, crashes>>

(* The contract function a request calls. *)
CallOf(r) ==
    CASE req[r].to = "active" -> "open"
      [] req[r].to = "completed" -> "settle"
      [] req[r].to = "cancelled" -> "cancel"

(* EscrowClient._send: the gas estimate of build_transaction refuses a call *)
(* that would revert; get_transaction_count does not count transactions     *)
(* that are not mined, so a second one has the nonce of the first and is    *)
(* refused by the node; and the node may be out of reach.                   *)
AnyCloseAccepted(call, b, usage) ==     \* mutant: a closed booking closes again
    IF call = "open" THEN chain[b].status = "Unset" ELSE chain[b].status # "Unset"

EstimatedOk(call, b, usage) ==
    LET k == chain[b]
        elapsed == now - k.openedAt + SettleGraceSecs
    IN IF call = "open" THEN k.status = "Unset"
       ELSE /\ k.status = "Open"
            /\ usage <= MaxBookingSecs
            /\ usage <= elapsed

NonceAlwaysFree == TRUE             \* mutant: as if unmined transactions counted

NonceIsFree == mempool = {}

Send(r) ==
    LET b == req[r].booking
    IN /\ At(r, "call")
       /\ EstimatedOk(CallOf(r), b, req[r].usage)
       /\ NonceIsFree
       /\ mempool' = mempool \cup {[req |-> r, call |-> CallOf(r), booking |-> b,
                                    usage |-> req[r].usage]}
       /\ Goto(r, "sent")
       /\ UNCHANGED <<now, rows, ledger, wallets, chain, receipts, events, crashes>>

SendFails(r) ==
    /\ At(r, "call")
    /\ req' = [req EXCEPT ![r].pc = "record", ![r].ok = FALSE]
    /\ UNCHANGED <<now, rows, ledger, wallets, chain, mempool, receipts, events, crashes>>

(* wait_for_transaction_receipt, and the check of the receipt's status. *)
TrustUnmined(r) ==                  \* mutant: does not look at the receipt
    /\ At(r, "sent")
    /\ req' = [req EXCEPT ![r].pc = "record", ![r].ok = TRUE]
    /\ UNCHANGED <<now, rows, ledger, wallets, chain, mempool, receipts, events, crashes>>

GotReceipt(r) ==
    /\ At(r, "sent")
    /\ receipts[r] # "none"
    /\ req' = [req EXCEPT ![r].pc = "record", ![r].ok = receipts[r] = "mined"]
    /\ UNCHANGED <<now, rows, ledger, wallets, chain, mempool, receipts, events, crashes>>

WaitsForReceipt(r) == FALSE /\ UNCHANGED vars     \* mutant: no timeout on the wait

ReceiptTimesOut(r) ==
    /\ ReceiptTimeouts
    /\ At(r, "sent")
    /\ receipts[r] = "none"
    /\ req' = [req EXCEPT ![r].pc = "record", ![r].ok = FALSE]
    /\ UNCHANGED <<now, rows, ledger, wallets, chain, mempool, receipts, events, crashes>>

(* One row per attempt, committed on its own; the row says failed unless    *)
(* the call returned.                                                       *)
NeverFlipped(r) ==                  \* mutant: the status stays failed
    [req |-> r, booking |-> req[r].booking, kind |-> CallOf(r), status |-> "failed"]

LedgerRow(r) ==
    [req |-> r, booking |-> req[r].booking, kind |-> CallOf(r),
     status |-> IF req[r].ok THEN "confirmed" ELSE "failed"]

ActivateAnyway(r) ==                \* mutant: a failed lock does not abort
    IF req[r].to = "active" THEN "write" ELSE "publish"

(* A failed openBooking aborts the activation with 402; a failed settlement *)
(* of a booking already closed is only recorded.                            *)
AfterRecord(r) ==
    CASE req[r].to # "active" -> "publish"
      [] req[r].to = "active" /\ req[r].ok -> "write"
      [] OTHER -> "refused"

Record(r) ==
    /\ At(r, "record")
    /\ ledger' = ledger \cup {LedgerRow(r)}
    /\ Goto(r, AfterRecord(r))
    /\ UNCHANGED <<now, rows, wallets, chain, mempool, receipts, events, crashes>>

(* The status is set and the clock is read in memory; nobody sees it yet.   *)
SetStatus(r) ==
    /\ At(r, "write")
    /\ req' = [req EXCEPT ![r].clock = now, ![r].pc = "commit"]
    /\ UNCHANGED <<now, rows, ledger, wallets, chain, mempool, receipts, events, crashes>>

(* db.commit: the row is overwritten, whatever it has become since Load and *)
(* with the clock read before.                                              *)
Commit(r) ==
    LET to == req[r].to
    IN /\ At(r, "commit")
       /\ rows' = [rows EXCEPT ![req[r].booking] =
            [status |-> to,
             startedAt |-> IF to = "active" THEN req[r].clock ELSE @.startedAt,
             endedAt |-> IF to \in Closed THEN req[r].clock ELSE @.endedAt]]
       /\ Goto(r, "written")
       /\ UNCHANGED <<now, ledger, wallets, chain, mempool, receipts, events, crashes>>

UsageSoFar(row) ==                  \* mutant: takes the clock, not ended_at
    IF row.startedAt = Never THEN 0 ELSE now - row.startedAt

(* _usage_seconds *)
UsageSeconds(row) ==
    IF Never \in {row.startedAt, row.endedAt} \/ row.endedAt < row.startedAt
    THEN 0
    ELSE row.endedAt - row.startedAt

(* Whether this request closes a booking it saw active. *)
EndsActive(r) == req[r].prev = "active" /\ req[r].to \in Closed

(* db.refresh reads the row again; a close of an active booking on the rail *)
(* is settled for the usage the row shows now.                              *)
Refresh(r) ==
    LET settles == EndsActive(r) /\ req[r].onRail
    IN /\ At(r, "written")
       /\ req' = [req EXCEPT
            ![r].usage = IF settles THEN UsageSeconds(rows[req[r].booking]) ELSE 0,
            ![r].pc = IF settles THEN "call" ELSE "publish"]
       /\ UNCHANGED <<now, rows, ledger, wallets, chain, mempool, receipts, events, crashes>>

(* The event to the worker, and the response. *)
TellOfClosesOnly(r) ==              \* mutant: activations are not told
    IF EndsActive(r) THEN <<"booking_cancelled">> ELSE <<>>

EventOf(r) ==
    CASE req[r].to = "active" -> <<"booking_activated">>
      [] EndsActive(r) -> <<"booking_cancelled">>
      [] OTHER -> <<>>

Publish(r) ==
    /\ At(r, "publish")
    /\ events' = [events EXCEPT ![req[r].booking] = @ \o EventOf(r)]
    /\ Goto(r, "done")
    /\ UNCHANGED <<now, rows, ledger, wallets, chain, mempool, receipts, crashes>>

-----------------------------------------------------------------------------
(* The contract, as the settler's transactions reach it *)

(* The guards of openBooking and _settle when the transaction is mined. *)
ChainAccepts(tx) == EstimatedOk(tx.call, tx.booking, tx.usage)

ChainStatusAfter(call) ==
    CASE call = "open" -> "Open"
      [] call = "settle" -> "Settled"
      [] call = "cancel" -> "Cancelled"

Mine(tx) ==
    LET b == tx.booking
    IN /\ ChainAccepts(tx)
       /\ chain' = [chain EXCEPT ![b] =
            IF tx.call = "open"
            THEN [status |-> "Open", openedAt |-> now, opener |-> tx.req, billed |-> 0]
            ELSE [@ EXCEPT !.status = ChainStatusAfter(tx.call), !.billed = tx.usage]]
       /\ receipts' = [receipts EXCEPT ![tx.req] = "mined"]
       /\ mempool' = mempool \ {tx}
       /\ UNCHANGED <<now, rows, ledger, wallets, req, events, crashes>>

(* An opening may also revert for what is not modelled here: too little     *)
(* free escrow, or a paused contract.                                       *)
Revert(tx) ==
    /\ tx.call = "open" \/ ~ChainAccepts(tx)
    /\ receipts' = [receipts EXCEPT ![tx.req] = "reverted"]
    /\ mempool' = mempool \ {tx}
    /\ UNCHANGED <<now, rows, ledger, wallets, req, chain, events, crashes>>

(* The node forgets a transaction, evicted or replaced in its pool.         *)
Drop(tx) ==
    /\ ReceiptTimeouts
    /\ mempool' = mempool \ {tx}
    /\ UNCHANGED <<now, rows, ledger, wallets, req, chain, receipts, events, crashes>>

-----------------------------------------------------------------------------
(* The backend restarts: every request in flight is gone, what was          *)
(* committed or sent stays.                                                 *)
Crash ==
    /\ crashes < MaxCrashes
    /\ \E r \in Requests : req[r].pc \in InFlight
    /\ req' = [r \in Requests |-> IF req[r].pc \in InFlight
                                  THEN [req[r] EXCEPT !.pc = "lost"] ELSE req[r]]
    /\ crashes' = crashes + 1
    /\ UNCHANGED <<now, rows, ledger, wallets, chain, mempool, receipts, events>>

RequestStep(r) ==
    \/ Prepare(r)
    \/ Send(r) \/ SendFails(r) \/ GotReceipt(r) \/ ReceiptTimesOut(r)
    \/ Record(r)
    \/ SetStatus(r) \/ Commit(r)
    \/ Refresh(r)
    \/ Publish(r)

Next ==
    \/ \E b \in Bookings : CreateBooking(b) \/ SetWallets(b)
    \/ \E r \in Requests, b \in Bookings, to \in Statuses : Load(r, b, to)
    \/ \E r \in Requests : RequestStep(r)
    \/ \E tx \in mempool : Mine(tx) \/ Revert(tx) \/ Drop(tx)
    \/ Tick
    \/ Crash

Spec == Init /\ [][Next]_vars

(* The event loop runs every coroutine that can run, and web3 gives up on a *)
(* receipt; nothing is assumed of the chain.                                *)
FairSpec == Spec /\ \A r \in Requests : WF_vars(RequestStep(r))

-----------------------------------------------------------------------------
(* The public ledger: bookings it shows as holding a lock, by the confirmed *)
(* rows of GET /v1/ledger.                                                  *)
Confirmed(b, kinds) ==
    {row \in ledger : row.booking = b /\ row.kind \in kinds /\ row.status = "confirmed"}

StillOpen == {b \in Bookings : Confirmed(b, {"open"}) # {}
                                 /\ Confirmed(b, {"settle", "cancel"}) = {}}

(* The same of the bookings whose parties had their wallets from the start, *)
(* as a reader of the confirmed rows may rely on it.                        *)
Promise == INSTANCE SettlementRecord
    WITH Bookings <- AtStart, locked <- StillOpen \cap AtStart,
         closed <- {b \in AtStart : Confirmed(b, {"settle", "cancel"}) # {}}

(* Nothing is under way for a booking. *)
Quiet(b) ==
    /\ \A r \in Requests : req[r].booking = b => req[r].pc \notin InFlight
    /\ \A tx \in mempool : tx.booking # b

-----------------------------------------------------------------------------
(* Correctness *)

Tx == [req : Requests, call : {"open", "settle", "cancel"}, booking : Bookings, usage : Nat]

(* Every variable has its type; the settler never has two unmined           *)
(* transactions, which would carry the same nonce.                          *)
TypeOK ==
    /\ now \in 0..MaxTime
    /\ rows \in [Bookings -> [status : Statuses \cup {"absent"},
                              startedAt : Nat \cup {Never}, endedAt : Nat \cup {Never}]]
    /\ ledger \subseteq [req : Requests, booking : Bookings,
                         kind : {"open", "settle", "cancel"},
                         status : {"confirmed", "failed"}]
    /\ wallets \subseteq Bookings
    /\ req \in [Requests -> [pc : InFlight \cup {"idle", "done", "refused", "lost"},
                             booking : Bookings \cup {"none"},
                             to : Statuses \cup {"none"}, prev : Statuses \cup {"none"},
                             onRail : BOOLEAN, clock : Nat \cup {Never},
                             usage : Nat, ok : BOOLEAN]]
    /\ chain \in [Bookings -> [status : {"Unset", "Open", "Settled", "Cancelled"},
                               openedAt : Nat, opener : Requests \cup {"none"}, billed : Nat]]
    /\ mempool \subseteq Tx
    /\ Cardinality(mempool) <= 1
    /\ receipts \in [Requests -> {"none", "mined", "reverted"}]
    /\ events \in [Bookings -> Seq({"booking_activated", "booking_cancelled"})]
    /\ crashes \in 0..MaxCrashes

(* The machine never spins up without a lock: a request that activates a    *)
(* booking on the rail, or has told the worker so, is the one whose own     *)
(* openBooking placed the lock, also when several activate at once.         *)
ActivationOwnsLock ==
    \A r \in Requests :
        /\ req[r].to = "active"
        /\ req[r].onRail
        /\ req[r].pc \in {"write", "commit", "written", "publish", "done"}
        => chain[req[r].booking].status # "Unset" /\ chain[req[r].booking].opener = r

(* The public ledger confirms only what the chain has done, for ever.       *)
ConfirmedIsTrue ==
    \A row \in ledger : row.status = "confirmed" =>
        LET k == chain[row.booking]
        IN IF row.kind = "open" THEN k.status # "Unset" /\ k.opener = row.req
           ELSE k.status = ChainStatusAfter(row.kind)

(* A booking is opened at most once and charged at most once, however many  *)
(* requests race to close it and whatever is lost on the way.               *)
ChargedOnce ==
    \A b \in Bookings :
        /\ Cardinality(Confirmed(b, {"open"})) <= 1
        /\ Cardinality(Confirmed(b, {"settle", "cancel"})) <= 1

(* The confirmed rows of such a booking come in order, a lock and then one  *)
(* close, whatever races, is lost or comes too late; PublicLedger relies on *)
(* this promise and on nothing else.                                        *)
KeepsRecord == Promise!Spec

(* A request gave up on a receipt, and its transaction was mined after all. *)
CameLate(b) ==
    \E r \in Requests : /\ req[r].booking = b /\ receipts[r] = "mined"
                        /\ ~req[r].ok /\ req[r].pc \notin {"sent", "lost"}

(* Once nothing is under way, the locks the ledger shows are the locks the  *)
(* contract holds, for a booking that had no late receipt and as long as    *)
(* the backend was not restarted.                                           *)
LedgerAgrees ==
    \A b \in Bookings : Quiet(b) /\ crashes = 0 /\ ~CameLate(b) =>
        (b \in StillOpen <=> chain[b].status = "Open")

(* The chain only closes what Postgres has closed: the charge comes after   *)
(* the off-chain transition, and a booking once charged never runs again,   *)
(* as long as its parties had their wallets from the start (AtStart); also  *)
(* when receipts come too late and the backend restarts.                    *)
ChargedStaysClosed ==
    \A b \in AtStart :
        chain[b].status \in {"Settled", "Cancelled"} => rows[b].status \in Closed

(* Request q closed b, by the clock it had read.                            *)
ClosedBy(q, b) ==
    /\ req[q].booking = b
    /\ req[q].to \in Closed
    /\ req[q].clock # Never /\ req[q].pc # "commit"

(* Closes that race settle their accounts: what a booking is charged for is *)
(* the time from its start to one of its closes, whichever of them wrote    *)
(* ended_at last before the charge was asked for (again with the wallets    *)
(* from the start); and a close answered to somebody who saw the booking    *)
(* active has closed its lock, or shows on the ledger that it failed to.    *)
ClosesAreAccounted ==
    /\ \A b \in AtStart : chain[b].status \in {"Settled", "Cancelled"} =>
        \E q \in Requests :
            /\ ClosedBy(q, b)
            /\ chain[b].billed = UsageSeconds([rows[b] EXCEPT !.endedAt = req[q].clock])
    /\ \A r \in Requests : EndsActive(r) /\ req[r].onRail /\ req[r].pc = "done" =>
        \/ chain[req[r].booking].status = ChainStatusAfter(CallOf(r))
        \/ \E row \in ledger : row.req = r /\ row.status = "failed"

(* Every request ends, whatever the chain does with its transaction: it is  *)
(* answered, refused, or lost in a restart.                                 *)
RequestsEnd ==
    \A r \in Requests : req[r].pc \in InFlight ~> req[r].pc \notin InFlight

(* A lock that was obtained is used: the request that obtained it makes the *)
(* booking active and tells the worker, unless the backend restarts.        *)
ActivationIsTold ==
    \A r \in Requests, b \in Bookings :
        req[r].pc = "write" /\ req[r].to = "active" /\ req[r].booking = b ~>
            \/ req[r].pc = "lost"
            \/ \E i \in DOMAIN events[b] : events[b][i] = "booking_activated"

-----------------------------------------------------------------------------
(* What the documentation says, and concurrent requests or faults refute    *)

(* docs/onchain-settlement.md:113-115: a completed or cancelled booking     *)
(* cannot transition again.                                                 *)
TerminalIsFinal ==
    [][\A b \in Bookings : rows[b].status \in Closed =>
                               rows'[b].status = rows[b].status]_vars

(* chain/service.py:10-12: when a booking closes its lock is settled, or    *)
(* the failure to do so is on the public ledger, never hidden.              *)
CloseNeverSilent ==
    \A b \in Bookings :
        Quiet(b) /\ rows[b].status \in Closed /\ chain[b].status = "Open" =>
            \E row \in ledger : /\ row.booking = b
                                /\ row.kind \in {"settle", "cancel"}
                                /\ row.status = "failed"

(* chain/service.py:14: every attempt, confirmed or failed, is written to   *)
(* settlement_txs; in particular one that placed a lock.                    *)
EveryAttemptRecorded ==
    \A b \in Bookings : Quiet(b) /\ chain[b].status # "Unset" =>
        \E row \in ledger : row.booking = b /\ row.kind = "open"

=============================================================================
