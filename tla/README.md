# Claw compute: a TLA+ verification project

Claw is a marketplace on which Mac owners (suppliers) rent out their machines by
the hour. A consumer books an offering; the backend (FastAPI, Postgres) activates
the booking; the supplier's machine runs a worker daemon (Rust) that starts a
sandboxed agent for the booking and relays chat messages to it. Bookings may be
paid in USDC: an escrow contract (`contracts/src/ClawEscrow.sol`) holds the
consumer's prepaid money, locks the maximal cost of a booking when it is
activated and charges the actual usage when it closes.

The project models the system from the contract to the browser: the contract, the
backend's booking lifecycle against it, the channel to the worker, the worker's
handling of events and its model server, and the web front end, where several tabs
work on state they share: sign-in, the storefront and its forms, the supplier's
console, the chat, the public ledger, the landing page's meter. It states what they
promise, checks it on small instances with TLC, and proves nearly all of the safety
properties for all sizes with TLAPS. Two disagreements between the
code and what it says of itself, and three bugs, came up on the way (see *Findings*).

## The system

| Component | State | Operations | Talks to |
|---|---|---|---|
| Escrow contract (`contracts/src/ClawEscrow.sol`) | `escrow`, `lockedOf`, `claimable`, `_bookings`, commission, treasury, pause, roles | deposit, withdrawUnused, claim, openBooking, settleBooking, cancelBooking, admin setters | USDC token |
| Booking transitions (`api/v1/bookings.py`) | table `bookings` | create, transition (pending → active/cancelled, active → completed/cancelled) | chain settlement, realtime channels |
| Chain settlement (`chain/service.py`) | table `settlement_txs` | settle_on_activate, settle_on_close | escrow client |
| Escrow client (`chain/escrow_client.py`) | none; the node's transaction pool | `_send`: estimate, nonce, submit, wait | contract |
| Public ledger (`api/v1/ledger.py`, `components/ledger`, home and ledger pages) | none; reads `settlement_txs` | five statements per answer; tape, table, statistics, fallback | chain settlement |
| Wallets and suppliers (`api/v1/suppliers.py`, `auth.py`, their pages) | tables `users`, `suppliers` | become supplier, set wallet, set payout address | chain settlement reads the addresses |
| Offerings (`api/v1/offerings.py`, `browse`, `offerings`, supplier's pages) | table `offerings`; the open forms | create, update, delete, list, show; fallback to seeds | bookings refer to them |
| Realtime channels (`realtime.py`) | in-memory queues of 64 events per connection | register, unregister, publish (drops when full) | worker control plane |
| Worker control plane (`api/v1/workers.py`) | table `workers`, provisioning token hashes | issue token, register, heartbeat, WebSocket | realtime channels, worker daemon |
| Chat messages (`api/v1/messages.py`) | table `messages` | send, list, worker's reply | realtime channels |
| Magic links and sessions (`auth/`, `lib/session.ts`, `app/auth`, dashboard layout) | table `magic_link_tokens`; a cookie per browser | issue, verify, set and clear the cookie, check it on every page | all pages |
| Chat page (`components/dashboard/ChatThread.tsx`) | a thread per tab | show at once, send, replace or take out | chat messages |
| Worker daemon (`worker/src`) | SQLite booking rows, in-memory port table, model process | dispatch of events, relay of messages, reconnect | sandboxes, model host, backend |
| Sandboxes, model host (`worker/src/sandbox`, `inference`) | containers, one mlx-lm child process | start, stop, ensure_loaded | |
| Landing page (`landing/assets/meter.js`) | the loop of an animation | start, stop, frame | browser |

What makes the system hard:

* The backend is a set of coroutines over a database without row locks. A
  transition reads the booking, awaits several queries and possibly a chain call
  of up to a minute, and then writes. Every check may be stale when it is used.
* The chain is remote: a transaction may be refused when it is estimated, refused
  for its nonce, reverted, mined after the backend stopped waiting, or never.
* Steps on the chain and in Postgres cannot be one transaction. The code puts the
  lock before the activation and the charge after the close; a restart between
  the two leaves what was done.
* Events to a worker are sent at most once, in the order the requests reach the
  publishing line, and are dropped when nobody listens or the queue is full.
* The worker keeps part of its state in memory, and its steps (start a
  container, remember its port, write a row) are separate.
* The web pages are rendered from several requests at several moments, and one person
  has several tabs with one cookie: what a tab sends back may be older than what another
  tab, another supplier or the worker has done since.
* A model server is a process that takes its time to die, holds its port meanwhile, and
  is wanted by two tasks.
* The contract pools a consumer's money over many bookings, rounds the lock up
  and the cost down, and lets any party be consumer, supplier and treasury.

For each component, what makes it correct:

* contract: it can always pay what it owes; pooling never lets one booking use
  another's money; no booking is charged beyond its terms; terms never change;
  money can always leave;
* transitions and settlement: no machine without a lock; at most one charge, for
  the time from the start to a close; a terminal status is final; every attempt and every
  failure is on the ledger; the ledger confirms only what happened;
* realtime, control plane and worker: a sandbox runs exactly for the active
  bookings once the system is quiet; messages reach the sandbox of their booking;
  a token registers one worker;
* magic links and sessions: a session comes from a link that was mailed, opened and not
  yet spent; nobody is signed out but by himself or by time; no chain of redirects goes round;
* storefront: saving a form changes what was typed and leaves the rest to others; what is
  booked can still be named;
* console, chat, ledger, meter: what a page shows is so, whatever happens while it loads;
* model host: one server at a time, and the one the host believes in.

## Modules

| Module | What it is |
|---|---|
| `Totals` | the sum of a function, by cardinality, without recursion |
| `ClawEscrow` | the contract, one action per external function |
| `SegregatedCustody` | abstract specification: an ideal custodian with one pot of money per booking |
| `MCClawEscrow` | instances of the contract |
| `ClawEscrowProofs` | theorems about the contract, and about `Totals` |
| `BookingSettlement` | the booking lifecycle of the backend against the chain; implements `SettlementRecord` |
| `MCBookingSettlement` | instances of it |
| `BookingSettlementProofs` | theorems about it |
| `SettlementRecord` | abstract specification: what the confirmed rows of `settlement_txs` promise to their reader |
| `LossyChannel` | abstract specification: an at-most-once, ordered channel |
| `WorkerChannel` | publish, the WebSocket endpoint and the worker's client; implements `LossyChannel` |
| `MCWorkerChannel` | instances of it |
| `WorkerChannelProofs` | theorems about it, the refinement of `LossyChannel` among them |
| `WorkerAgent` | the worker's handling of events: sandboxes, SQLite rows, port table |
| `MCWorkerAgent` | instances of it |
| `BookingDelivery` | the backend's racing transitions and messages, a `LossyChannel` and a `WorkerAgent` composed |
| `MCBookingDelivery` | instances of it |
| `WebSession` | magic links, the session cookie, the dashboard's check of it, over several tabs |
| `Storefront` | offerings: rows, forms, public pages, the bookings that refer to them |
| `SupplierConsole` | becoming a supplier, provisioning tokens and registration, wallets |
| `ChatThread` | the chat page of a booking in several tabs |
| `PublicLedger` | `/v1/ledger` read while it is written, and the pages that show it; relies on `SettlementRecord` |
| `LandingMeter` | the animation of the landing page |
| `ModelHost` | the worker's model server, its lock and its two callers |
| `MCComponents` | instances of these seven, side by side |
| `MCStorefront` | an instance of `Storefront` alone |
| `WorkerDaemonProofs` | theorems about the worker by itself, about `BookingDelivery` and about `ModelHost` |
| `WebSessionProofs`, `ChatThreadProofs`, `PublicLedgerProofs` | theorems about the three |
| `WebPagesProofs` | theorems about `SupplierConsole`, `Storefront` and `LandingMeter` |

A definition marked `mutant` in a comment is a broken variant of the
definition after it. No specification uses it; it documents, for one property,
a plausible mistake in the code that the property would reveal. Where a property is
the conjunction of several parts, there is a broken variant for most parts.

### ClawEscrow

Transactions are atomic, so each external function is one action and each
`revert` a missing guard: a reverting call is a call that is not enabled.
`nonReentrant` and the checks-effects-interactions order of the code justify this
atomicity; the token is taken to be USDC-like (no callbacks, no fee on transfer).

| Code | Model |
|---|---|
| `quote`, `_ceilDiv`, lock in `openBooking` | `Quote`, `CeilDiv`, `LockFor` |
| `deposit`, `withdrawUnused`, `claim` | `Deposit`, `WithdrawUnused`, `Claim` |
| `openBooking` | `OpenBooking` |
| `_settle` through `settleBooking`, `cancelBooking` | `Settle` with `MaySettle`, `MaxAllowed`, `CostOf`, `CommissionOf`, `CreditSplit` |
| `setCommissionBps`, `setTreasury`, `pause`, `unpause` | `SetCommissionBps`, `SetTreasury`, `Pause`, `Unpause` |
| OpenZeppelin AccessControl, SafeERC20 | `GrantSettler`, `RevokeSettler`; `usdc` and `held` |
| `block.timestamp` | `now`, advanced by `Tick` |

`CENT`, 3600 and 10 000 are the constants `Cent`, `SecondsPerHour` and `BpsBase`,
so that small instances can meet every rounding case; the theorems hold for
every value, the real ones included. Amounts are unbounded naturals: a product of the
contract has at most 96 + 14 + 32 bits and no balance can exceed the supply
of the token, so `uint256` never wraps. `uint96`, `uint32` and `uint64` fields
are only ever stored, never computed in.

`SegregatedCustody` says what the bookkeeping is for. It knows no locks: a payer
has free money, each running booking has a pot of its own, and a step moves money
between them, to those it is owed to, and out. `ClawEscrow` implements it with the
mapping `free = escrow - lockedOf`, `pot[b] = lockedAmount` of an open booking,
`owed = claimable` (`ImplementsCustody`).

### BookingSettlement

One request is one call of `transition_booking`; its `pc` names the await it is
at. An action is the code between two awaits, so any other request, the chain or
a restart may come in between.

| `pc` | Code | Leaves by |
|---|---|---|
| `idle` | the request is not there yet | `Load`: `_load_party`, check against `VALID_TRANSITIONS` |
| `loaded` | offering, consumer and supplier are read | `Prepare`: `_applicable`; an activation on the rail goes to the chain, the rest to the write |
| `call` | `_send` up to `send_raw_transaction` | `Send`, `SendFails` |
| `sent` | `wait_for_transaction_receipt` | `GotReceipt`, `ReceiptTimesOut` |
| `record` | the row for `settlement_txs` | `Record`: commits it; a failed activation ends with 402 |
| `write` | the call is over, or there was none | `SetStatus`: status and timestamps are set in the session's copy; the clock is read |
| `commit` | `db.commit` | `Commit`: the row is written, whatever it has become, with the clock read before |
| `written` | committed | `Refresh`: reads the row back; a close on the rail of a booking the request *saw* active goes to the chain |
| `publish` | event to the worker | `Publish` |

The session of a request does not expire its objects on commit (`db.py`), so
`onRail` is decided once, by the wallets read at `Prepare`; only the booking is
refreshed. The UPDATE sets the columns the request assigned and no others. Since clock and commit are
apart, two closes may write `ended_at` in the opposite order of their clocks, and a
charge is computed from what `Refresh` finds, which may be the other's.

The chain side keeps the status, opening time, opener and billed usage of each booking
(the money is `ClawEscrow`'s). `Mine` applies the guards of the contract at the
time of mining, `Revert` also covers the reasons not modelled here (too little
escrow, pause), `Drop` is a transaction the node forgets. The gas estimate
refuses a call that would revert now. The nonce is the number of mined
transactions, so while a transaction is in the pool a second one is refused.
`SendFails` is always possible: the node may be out of reach.

What others may rely on is `SettlementRecord`: of a booking, first a confirmed lock, then at most
one confirmed close, and neither ever again. `BookingSettlement` implements it (`KeepsRecord`) for the bookings whose
parties had wallets from the start, with `locked` and `closed` read off its confirmed rows.

A wallet can be set, never unset. Database errors, the identity of
the caller and the amounts on the ledger are left out.

### WorkerChannel

Events carry their number in the order of publication; what is in them does not
matter here. Every connection the worker makes is a member of `Conns`, used once,
with its server side, its link and the network's buffer.

| Code | Model |
|---|---|
| `publish` in `realtime.py`: `put_nowait`, `QueueFull` passed over | `Publish`, `Offered` |
| `register`, `unregister` | `Register`, `Unregister` |
| `worker_ws`: `queue.get`, `send_json`, the ping after 20 s, the `finally` clause | `Take`, `Send`, `SendVanishes`, `SendRaises` |
| `run_ws`: `connect_async`, `stream.next` and the handler, the end of the stream | `Connect`, `Receive`, `Notice` |
| the network, restarts of the two processes | `Break`, `WorkerRestart`, `BackendRestart` |

Between `ws.accept` and `register` the worker believes it is connected and is
not subscribed; an event published there is lost. A send on a dead link may
succeed once more (`SendVanishes`) or raise; the worker, which reconnects sooner, can
have two subscriptions meanwhile. Refused tokens (4401), frames that do not
unseal or parse, and the length of the backoff are left out.

`WorkerChannel` implements `LossyChannel` (`ImplementsChannel`): what may still
arrive is what the network of the connection being read holds, followed by the
event in hand and the queue of its server side while the link is up.

### WorkerAgent

`dispatch` handles one event at a time; `task` is the event in hand and the step
it is at. Each step has one effect.

| Code in `booking/mod.rs` | Model |
|---|---|
| `BookingActivated`: `backend.start`, insert into `sandbox_ports`, `upsert_booking` | `StartSandbox` or `StartFails`, `RememberPort`, `SaveRow` |
| `BookingCancelled`: `list_active_bookings`, `backend.stop`, `upsert_booking`, remove from `sandbox_ports` | `FindRow`, `StopSandbox` / `StopRefused` / `StopErrs`, `MarkRow`, `ForgetPort` |
| a `?` on a database call | `SqlFails` |
| `relay_message` | `Route`, `Chat` |
| the daemon dies and is started again (`main.rs`) | `Restart`: rows and containers stay, the port table is empty |

The sandbox name is made from the booking id, so a second start for the same
booking is refused (`StartSandbox` needs that none runs). The runtime may refuse a stop
(which the code logs and reports as done), fail after it has stopped, or fail after it has
started (`StartHalfDone`). Sandboxes do not exit on their own, and
a model that cannot be loaded does not keep a sandbox from starting, as in the code.
`Dispatch` accepts any event for any booking at any time, so what holds does not
depend on the backend.

`harm` is a history variable: for every booking the kinds of failures that touched it. It
lets one run have every failure and still state what holds for a booking that
was spared, whatever befell the others.

### BookingDelivery

The table of the backend (`market`), a coroutine for each request (`asked`), a `LossyChannel`,
and a `WorkerAgent` that dispatches what arrives. A request is a transition, or a message to
a booking.

| Code | Model |
|---|---|
| `_load_party` and the check of `VALID_TRANSITIONS`; the check of `send_message` | `Check` with `Allowed` |
| the lock is refused with 402, or the backend restarts | `GiveUp` |
| `status` is set and committed | `Commit`: over whatever the status has become |
| a cancel of a booking that was seen pending publishes nothing | `TellNobody` |
| the sealed event and `publish` | `Tell`: accepted, or dropped |
| `run_ws` and `dispatch` | `Deliver`, `WorkerStep` |

Between the three steps of a request anything may happen: others commit, publish, and
are handled. So a status may be written over that is not the one that was checked (an activation over
a close, a cancel over an activation), and events may come in another order than the commits. What the chain
makes of such races is `BookingSettlement`'s: here any activation may be refused and none has to be, so
the properties hold with the rail and without it.

Four variables are history: `lost` (bookings an event of which was dropped or lost on the way),
`overwritten` (a commit replaced a status its request had not seen), `overtaken` (closed before the
activation was told) and `told` (the last start or stop that was published). The properties use them to say
what becomes of a booking in each case, not to leave it out: whatever is overwritten or overtaken, the
worker ends up where the last event it was told of leaves it.

### WebSession

A tab's request carries the cookie its browser had when it left; the answer sets or clears
the cookie the browser has when it arrives. A session token is named by the link it was
issued for.

| Code | Model |
|---|---|
| login form, `requestMagicLink`, `issue_magic_link` | `SubmitEmail`, `IssueMagicLink` (the row is committed before the mail is tried: `lost`) |
| `auth/verify/route.ts`, `consume_magic_link` | `OpenLink`, `ReadLink` with `Candidates`, `ReadUser`, `CommitUse`, `SetToken`; `VerifyFails` |
| the second chance of a spent link | `CheckSession` |
| `dashboard/layout.tsx`, `dashboard/page.tsx` | `Enter`, `Answer`, `Loaded`: three queries at the same time; `BounceOn` only a 401 of the layout's |
| `auth/expired`, `auth/logout`, `error.tsx` | `Expired`, `Logout`, `TryAgain` |
| expiry of links, tokens and cookies | `LinkExpires`, `TokenExpires`, `CookieExpires` |

Between `ReadLink` and `CommitUse` another verification may come: the code takes no lock.
The stored hash of a link and the signature of a token are external: a link matches only
itself.

### Storefront

| Code | Model |
|---|---|
| `OfferingForm.tsx`, `offerings/actions.ts` | `OpenEdit`, `OpenNew`, `Submit` with `InitialOf`, `Spelled` and `Body`, `Refused`, `Saved` |
| `create_offering`, `update_offering`, `delete_offering` | `CreateOffering`, `ReadForUpdate` / `CommitUpdate` (only fields that differ from what was read are written), `Archive` / `ReadForDelete` / `CommitDelete` |
| `create_booking`, and the offering loaded by `transition_booking` | `ReadForBooking`, `InsertBooking`, `ActivateBooking`, `CloseBooking` |
| `browse`, `offerings/[id]`, `safe-api.ts`, `seed.ts` | `Browse`, `FollowCard` with `DetailOf` |

Of an offering's fields the model has the price, the tags and the status: what settlement reads,
what pages filter by, what decides what is listed. Title and description are read by nothing and are left out; the
tags are a set, so their order and repetitions are left out too. `api` says whether the API is up,
answers 5xx or cannot be reached, which the pages treat differently.

The form has the tags as one text, joined with a comma and a blank, and the server action splits the text at commas,
trims the pieces and drops the empty ones. `Spelled` is the two together: what becomes of a set of tags that
nobody touched. A tag the form could have saved (`Words`: not empty, no comma, no blank at its ends) comes through
as it is; one that was sent to the API otherwise comes out as its words (`WordsOf`). A field that is typed
as it stood counts as untouched. A form keeps the row as its PATCH has
read it (`read`), because the session writes only the columns that differ from it.

### SupplierConsole

`OpenConsole` and `GoTo` are the layout and the menu; `SubmitSupplier`, `ReadSupplier`,
`InsertSupplier`, `SupplierIndex` are `becomeSupplier` and `become_supplier`; `SubmitName` and
`IssueProvisioningToken` the form that shows a token; `Register`, `MatchToken`,
`RegisterWorker` are `claw-worker register` and `register_worker`; `ReadMe`,
`ReadMySupplier`, `SubmitWallet`, `SaveWallet` the wallet page. A token is named by the row it was
issued for, and a machine is whoever typed a token that some tab has shown. Every save of an address
gets a number, so that a page can show an older or a newer one. `late` is a history
variable: the token had been spent when the machine asked.

### ChatThread

`OnSubmit` appends a message before it is sent; `CheckActive` and `StoreMessage` are `send_message`
before and after its commit; `PutInPlace` and `TakeOut` are what the answer does to the thread;
`PostAssistantMessage` is the worker's; `OpenBooking`, `BookingDetailRead`, `BookingsPage` are the
pages, which read booking and messages at the same time. Server actions of a tab run
one after the other (`outbox`), as Next.js runs them.

### PublicLedger

| Code | Model |
|---|---|
| the rows `settle_on_activate` and `settle_on_close` add (`chain/service.py`), as a reader sees them | `RecordOpen`, `RecordClose`, `Add` |
| the five statements of `public_ledger` (`api/v1/ledger.py`) | `Visit`, `Statement`, `NextStatement`; `Entries`, `Closes`, `StillOpen`, `AmountOf`, `CommissionOn` |
| `safeGet` with `EMPTY_LEDGER` | `Fallback` |
| `KindChip`, the tape, the table, `formatUsdc`, `formatDuration` | `ChipOf`, `OnTape`, `LedgerRowOf`, `FormatUsdc` (to a cent), `FormatDuration` (to a minute) |

Each of the five statements sees what is committed by then, and settlements are recorded
between them. A row of a failed attempt can be added at any time, because requests race and a failed call
records itself after whatever happened meanwhile; a confirmed row only as `SettlementRecord` allows, with the amounts
the contract allows (`RowsKeepRecord`: the model adds no others). The newest rows and the lines of the page are
found by place: `NewerIn` counts the newer rows, `Nth` is the row with so many newer ones.
Sums are `Total`s over sets of rows.

### LandingMeter

`Start` and `Stop` with every frame callback they request or cancel, `Observe` (the
IntersectionObserver, which may have several crossings to report), `ChangeVisibility`,
`Tick` (one frame), `NextBooking`, and the sums `Ledger` and `Paint` of the three bookings of the
code, with their amounts.

### ModelHost

`ensure_loaded` under its lock: `TakeLock` (the model is current, or none is and one is
launched), `TakeAndKill` (the old one is taken out of the state and killed), `Replace`
(after it has ended: spawn). `WarmUp` and `Activated` are the callers. A server that is signalled
ends some time later (`Obeys`), or any of them fails by itself (`Fails`).

### MCComponents

These seven components share no state, so their product would multiply states without adding
a behaviour. A run of `MCComponents` has one of them (`scene`) at work while the others stay as
they began.

## Runs

| Run | Instance | Checks |
|---|---|---|
| `escrow` | 1 consumer with 3 units, 2 other accounts, any of the three may be consumer, supplier or treasury; 2 bookings of 0, 1 or 2 seconds, usage to 3 s, grace 1 s, commission 0, one half, or over the cap; 1 step of the clock | `EscrowInv`, `OpenBookingsPayable`, `NothingTrapped`, `NoOverbilling`, `TermsAreFinal`, `SplitBySnapshot`, `ImplementsCustody` |
| `settlement` | 2 bookings, one without wallets at first, 3 requests, late and lost transactions, 1 restart, clock to 1, window 1 | `TypeOK`, `ActivationOwnsLock`, `ConfirmedIsTrue`, `ChargedOnce`, `LedgerAgrees`, `ChargedStaysClosed`, `ClosesAreAccounted`, `KeepsRecord` |
| `settlement_progress` | 1 booking, 2 requests, late and lost transactions, 1 restart, clock to 1, window 0, fairness | `RequestsEnd`, `ActivationIsTold` |
| `channel` | 2 connections, 4 events, queue 2, network 1, 1 restart of the backend, any of the worker, fairness | `TypeOK`, `ImplementsChannel`, `DeadSubscribersLeave`, `AcceptedIsHandled` |
| `agent` | 2 bookings, any events, starts, stops and SQLite may fail, 2 restarts | `TypeOK`, `RecordsAgree`, `PortsAreServed`, `RelayedWhileActive`, `CancelStops` |
| `delivery` | 2 bookings, 4 requests (transitions and messages), stale commits, loss, overtaking, all failures, 1 restart of the worker | `WorkerFollowsMarket`, `SettledRunsOnlyActive` |
| `components` | two tabs, two of everything that can be in each other's way, one fault (see below) | `SessionsComeFromLinks`, `SignedInStaysIn`, `NoDeadLinks`, `UntouchedFieldsStay`, `RegistersOnce`, `ConsoleIsTrue`, `ThreadAgrees`, `MeterIsSound`, `PageAddsUp`, `OneServer`, `AnsweredByItsModel`, `EverythingEnds` |
| `existing_bookings_keep_price` | 1 offering, 1 supplier, 1 booking | one documented claim, violated |
| `worker_reconciles` | 1 booking, 3 requests, loss, fairness | one documented claim, violated |
| `terminal_is_final`, `close_never_silent`, `every_attempt_recorded` | 1 booking, 3 requests, the fault named | one documented claim each, violated |

Some of these are conjunctions, each part of which stands by itself in its module:

| Property | Its parts |
|---|---|
| `EscrowInv` | `TypeOK`, `TermsRecorded`, `LocksMatch`, `LocksCovered`, `Solvency` |
| `SessionsComeFromLinks` | `SignedInByOwnLink`: the cookie is of a link opened in this browser; `LinkIsSpent`: a link spent when opened signs nobody in |
| `SignedInStaysIn` | `SecondOpenWelcome`: who opens a used link while signed in is let through; `SessionKept`: no failure of the backend signs anybody out |
| `NoDeadLinks` | `BookedOfferExists`: a booking's offering is never gone; `CardsLead`: nor is a card's, but for a deletion or an outage |
| `ConsoleIsTrue` | `WelcomeOnlyStrangers`: a supplier is not asked to become one; `SavedIsShown`: "wallet saved" stands below the saved or a later address |
| `ThreadAgrees` | `ThreadIsTrue`: what a quiet thread shows was stored, in that order; `AcceptedIsShown`: what was accepted is shown |
| `PageAddsUp` | `MoneyCountedOnce`, `QuietIsExact`, `TotalCoversRows`, `OneChipEach`, `ShownRounded` |
| `MeterIsSound` | `OneLoop`, `RunsWhenSeen`, `AmountsAddUp`, `HeaderMatches` |
| `OneServer` | `NoStray`: alive is only the entry or what the holder of the lock waits for; `EntryIsNotKilled` |
| `EverythingEnds` | `VisitsEnd`, `SendsSettle`, `MeterGoesOn`, `LoadsEnd` |

`ClosesAreAccounted` has two parts, one for the amount charged and one for the request that charges.
`SettledRunsOnlyActive` says of a booking at rest that was spared by losses and failures: what the worker has of it comes from
the last event it was told of; and the booking is active then, unless its status was overwritten or
its close overtook its activation. `UntouchedFieldsStay` (a saved form leaves a field nobody touched to whoever changes it meanwhile, and
loses no tag the form can spell), `RegistersOnce` (a spent token registers nobody) and `AnsweredByItsModel` (a load that
ends well leaves its own model current) are single statements.

The bounds are enough because the cases are about few actors. In the contract, the
danger is one booking against another of the same consumer (two bookings), the three
roles falling on the same or different accounts (three accounts), and rounding: with
4 units to the cent and 3 seconds to the hour, one second locks 2 units and
costs 1, two seconds lock 3 and cost 2, and a commission of one half of a cost of
1 rounds to 0. In the backend, a booking has at most two successful transitions in
sequence, so three requests allow every pair to race with a third before or
after it; a second booking matters for the nonce and for the wallets. With a clock
of 1, an activation and two racing closes can have different clocks and commit in either
order; in `settlement_progress`, with a window of 0, a booking outruns its window. The parts of the backend that
promise something only without faults say so: `LedgerAgrees` asks for no restart and no
receipt that came too late (`CameLate`), `ChargedStaysClosed` and the amount in `ClosesAreAccounted` for wallets set from the start
(`AtStart`). *Limits* tells what happens otherwise.

In the channel, two connections are an old subscription and the one being read; a
third would be to the second what the second is to the first. Four events overflow a queue
of two (the code's 64 is the constant `QueueSize`) with one in hand and one on the wire. In
the agent the steps of one booking touch no other, so two bookings are enough to
see one handler between another's records; two restarts allow one during what the
first one left. In the composition four requests are an activation, a racing transition, a close and a
message of one booking, or two transitions each of two bookings that compete for the channel; with three
requests every stale commit can already happen.

In `components`, two tabs of one browser and two links to one address are the second tab that acts
on an older state, and the two accounts of one address; a person clicks two to four times, which is
enough for one tab to load, the other to change what was loaded, and the first to send
it back. One offering and two forms contain every conflict over a row, as offerings do not touch
each other: four clicks open and submit both. Its tags are any of "mlx" and "mlx,", which the form respells as "mlx"; there is one price, so
the fields in conflict are the tags and the status. With one supplier every PATCH finds its row; another's
would be answered as in an outage. Two tokens and two machines contain a machine that types the wrong or a spent
token. Three rows and pages of two exceed a page; the charges 59 s and 3599 s, 0 and
3 cents are the edges of rounding. The meter's three bookings are the code's own, its phases in
units. The host has both its callers, three loads, and each kind of fault.

Symmetry is used for bookings, accounts and requests in runs of safety
properties only. Deadlock is checked for the contract and the agent. It is off for
`BookingSettlement`, `WorkerChannel`, `BookingDelivery` and `MCComponents`: each request and connection is
used once, and events, messages, clicks and the clock are bounded, so those instances do come
to an end.

### Fairness

`settlement_progress` assumes weak fairness of each request
(`WF_vars(RequestStep(r))`). The event loop of the backend runs every coroutine
that is ready, the chain call runs in a thread of its own, and
`wait_for_transaction_receipt` gives up after 60 seconds, so a step is always
possible. Nothing is assumed of the chain, of new requests, or of a second start
after a crash.

`channel` assumes weak fairness of the server side of each connection
(`ServerStep`: the event loop, and the ping every 20 seconds, so that a dead link is
written to again and again) and of the worker's reading (`ClientStep`). It
includes that a handler ends, which holds as long as the container runtime
answers: the code sets no time limit on it. That a dead link cannot swallow sends for
ever is the bound on events here; TCP gives up as well. Nothing is assumed of
publications, connections, breaks or restarts.

`worker_reconciles` assumes weak fairness of publishing, delivery and handlers, so
that its counterexample does not come from a system that merely stops.

`components` assumes, for the scene at work: weak fairness of the server's steps for each tab (Next.js and the API
answer, or an error does), of the sends of each tab (server actions run in turn
and end), of frames and of time while the meter runs, of a signalled process ending
(SIGKILL cannot be refused). The two callers of the model host get strong fairness
of `Load`: the lock is tokio's `Mutex`, which is handed over in the order of the waiting, so a caller
cannot find it taken for ever. Nothing is assumed of persons, of observers, or of the worker.

## Proofs

`ClawEscrowProofs` proves, for any set of accounts, bookings, units, inputs and
any starting balances (the assumptions `AddressAssumption`, `UnitAssumption`, `InputAssumption` of
`ClawEscrow`: finite sets of accounts and bookings, natural amounts, a commission cap of
at most the base):

| Theorem | Property |
|---|---|
| `EscrowInvariant` | `EscrowInv` |
| `TypeCorrect` | `TypeOK` |
| `AlwaysSolvent` | `Solvency` |
| `LocksAlwaysMatch`, `LocksAlwaysCovered` | `LocksMatch`, `LocksCovered` |
| `AlwaysPayable` | `OpenBookingsPayable` |
| `MoneyCanLeave` | `NothingTrapped`, said with the guards instead of ENABLED |
| `NeverOverbilled` | `NoOverbilling` |
| `SplitIsSnapshot` | `SplitBySnapshot` |
| `TermsStayFinal` | `TermsAreFinal` |
| `CustodyImplemented` | `ImplementsCustody` |

The argument rests on one inductive invariant,

    EscrowInv == TypeOK /\ TermsRecorded /\ LocksMatch /\ LocksCovered /\ Solvency

No part is inductive alone. That a settlement leaves `lockedOf` a natural number
(`TypeOK`) needs that the lock is part of `lockedOf` (`LocksMatch`); that it leaves
`escrow` a natural number needs that the cost is within the lock and the lock within the escrow
(`LocksCovered`); and after the release the remaining locks are still covered because the cost
was within the lock. `TermsRecorded` ties a booking's lock to its rate and
window. `OpenBookingsPayable` then follows from `QuoteWithinLock`: the floor of a
quotient is at most its ceiling and both grow with the usage, so a usage inside the
window never costs more than the lock, and the `min` in `_settle` never has an
effect. Sums are handled by the lemmas about `Total` at the
head of the module: `TotalChange` says that changing one value of a function changes its total
by the difference.

`NothingTrapped` is about ENABLED, which the provers cannot expand. `MoneyCanLeave` proves the
substance of it: in every reachable state every check of `claim`, of `withdrawUnused` and of
`_settle` passes for all the earnings, all the free escrow and every open booking with an honest usage
(`WaysOut`). Three lemmas (`ClaimNeedsNoMore`, `WithdrawNeedsNoMore`, `CloseNeedsNoMore`) say that nothing but these
checks stands before the step: where they hold, the new balances make a step of
the contract. That the transfer itself never fails needs `Solvency`, and that each debt is a term of the total.

`NeverOverbilled`, `SplitIsSnapshot` and `TermsStayFinal` are action properties
proved from the same invariant, action by action. `CustodyImplemented` maps each
action of the contract to one of the custodian or to a stutter.

### The backend

`BookingSettlementProofs`, for any bookings, requests, bounds of the contract, clock and number of
restarts, with receipts that come late or never and transactions the node forgets:

| Theorem | Property |
|---|---|
| `SettlementTypeCorrect` | `TypeOK` |
| `LockBeforeActivation` | `ActivationOwnsLock` |
| `LedgerConfirmsTruth` | `ConfirmedIsTrue` |
| `ChargedAtMostOnce` | `ChargedOnce` |
| `LedgerAgreesWhenQuiet` | `LedgerAgrees` |
| `ChargedOnlyWhenClosed` | `ChargedStaysClosed` |
| `EveryCloseAccounted` | `ClosesAreAccounted` |
| `LedgerKeepsRecord` | `KeepsRecord` |

The invariant is `Typed /\ SettlementInv`. The requests share everything and nothing is locked, so
the invariant has to say, of every step a request can be at, what its own call can
have done (`InOrder`): success is said of a mined call only, an activation goes on only when its
call succeeded, a close has written its row before it asks for the charge. It ties what is in the pool, on the ledger and in the
contract to the one request behind it (`PoolIsOurs`, `LedgerIsOurs`, `MinedDone`, `OpenedBySome`,
`ClosedBySome`, `ClosedByOne`), from which the four properties of lock and ledger follow.

`ChargedStaysClosed` is the harder one, since requests may overwrite each other's status
(finding 1). What saves it is a fact about the past: a booking whose parties always had wallets
is activated only by the request that opened its lock, so whoever *saw* it active read the
row after that request had written (`SeenHasRun`, `ActiveHasRun`), and only who saw it active
charges. No activation is left then that could come after the charge. The proof showed that
this does not depend on receipts being in time, which an earlier form of `ChargedStaysClosed` had required: it
is now stated, checked and proved without that condition.

`EveryCloseAccounted` is about what is charged when closes race. A close keeps the clock it read, so every
`ended_at` of a row is the clock of one of its closes (`ClosedBy`), whichever committed last; the usage is computed from such a row and
goes unchanged through the pool to the contract; and `started_at` does not move any more once a close is
asked for, since no other activation is left (as above). What cannot be proved, because it is false, is that
the row still shows the time that was charged (see *Limits*).

`LedgerKeepsRecord` is the refinement of `SettlementRecord`. One request records one row of its own
call, so a step of the backend adds at most one confirmed row. That a confirmed lock comes first
needs more than the contract's guard, which is about the chain and not about the ledger: a close is asked for
only by who saw the booking active, and by then the opener had *recorded* its lock (`HasRun`, which the
proof had to strengthen by this). A second lock or close is excluded because the chain has done only one.

### From the backend to the sandbox

| Theorem | Property | The invariant and why it is needed |
|---|---|---|
| `WorkerChannelProofs`: `ChannelTypeCorrect`, `ChannelImplemented` | `TypeOK`, `ImplementsChannel` | `ChannelInv` adds `Unused` to the types: a connection that is not served has an empty queue, and none that is not accepted has anything on the wire. So taking up a connection brings no old event, and every step of server, network or client appends to `Live`, takes its head, cuts its end, or leaves it alone |
| `WorkerDaemonProofs`: `AgentTypeCorrect`, `RecordsAlwaysAgree`, `PortsAlwaysServed`, `RelaysOnlyActive`, `CancellationStops` | `TypeOK`, `RecordsAgree`, `PortsAreServed`, `RelayedWhileActive`, `CancelStops` | `AgentInv` says what the step of the handler in hand tells of the records: which of them it has changed and which it is about to (`Unhurt`, `InHand`, `PortKnown`) |
| `WorkerDaemonProofs`: `WorkerAlwaysFollows`, `SettledAgrees` | `WorkerFollowsMarket`, `SettledRunsOnlyActive` | `DeliveryInv`, over requests that check and commit apart: every event on its way and every step of the handler has a committed request of its kind behind it (`EventsCommitted`, `WorkCommitted`); a status that no stale request wrote over is the one of the last commit (`StatusStands`); the last event on its way to the worker is the last that was told, and when none is, the handler or the worker's records are where that event leaves them (`LastTold`); and a booking closed without a stale request or an overtaking close has no activation left to tell, and if its activation is the last that was told, a close that is yet to be (`CloseIsTold`) |

The parts fit together by three theorems. `ChannelImplemented` says that the queues, sockets
and reconnects of `WorkerChannel` are a `LossyChannel`; `ChannelInSystem` that `BookingDelivery` uses
its path only as a `LossyChannel` lets it; and `WorkerInSystem` that what the worker does in the
composition is a behaviour of `WorkerAgent`, so that all that is proved of the agent alone, for
any events in any order, holds there.

### The other components

Each for any number of tabs, links, tokens, machines, offerings, messages, models and faults:

| Theorem | Property | The invariant and why it is needed |
|---|---|---|
| `WebSessionProofs`: `SessionTypeCorrect`, `LinksMakeSessions` | `SessionTypeOK`, `SessionsComeFromLinks` | `SessionInv` follows a tab from the opening of a link to the cookie: while it verifies, its link was opened in its browser, and one that was spent when it was opened is spent still, so nothing is found for it. That no link is ever un-spent needs `OwnLinks`: what two forms have under way are two links, neither of which exists yet |
| `WebSessionProofs`: `SessionsAreKept` | `SignedInStaysIn` | `KeptInv`: every token a browser or a loading page has is of an address with an account; so a 401 can only mean that the token has expired, and a tab that is about to clear the cookie carries an expired one |
| `WebPagesProofs`: `TokensRegisterOnce` | `RegistersOnce` | `RegInv`: the row of a token typed too late is active (`LateStaysLate`), and no operation takes a row back from active; active rows are not among those `verify_token` is tried on |
| `WebPagesProofs`: `ConsoleTypeCorrect`, `ConsoleTellsTheTruth` | `ConsoleTypeOK`, `ConsoleIsTrue` | `ConsoleInv` adds a description of a page in each state it can wait in (`GoodPage`): who was told he is a supplier is one, and what a page says is saved is at most what is in the table. That an address's number stays in its bounds needs that every save under way was clicked for (`ClickedFor`) |
| `WebPagesProofs`: `StoreTypeCorrect`, `LinksAreAlive`, `EditsTouchOnlyTheirs` | `StoreTypeOK`, `NoDeadLinks`, `UntouchedFieldsStay` | `StoreInv`: of a field nobody touched a form sends what it was loaded with, its tags as they come out of the text (`FormGood`); a set of words comes out as it went in (`SpelledIs`), which is where the assumption on `WordsOf` is used; a booking names an offering (`BookingGood`); a visitor misses only what is gone (`CardsLead`) |
| `WebPagesProofs`: `MeterTypeCorrect`, `MeterIsAlwaysSound` | `MeterTypeOK`, `MeterIsSound` | `MeterInv`: the frame `stop()` would cancel is the only one pending, the observer's last word is what is the case, and time does not pass a booking before it was painted. The sums are proved of the code's own figures, booking by booking |
| `ChatThreadProofs`: `ChatTypeCorrect`, `ThreadsAlwaysAgree` | `ChatTypeOK`, `ThreadAgrees` | `ChatInv`: a thread is what the backend has, in its order, followed by what is under way, in the order it was typed (`ThreadGood`); so an answer, which is always for the first of these, leaves it of the same shape, unless somebody else's message came between, which this tab does not have. It needs that two tabs never have the same message under way (`Apart`) and that none under way is stored (`BoxGood`) |
| `WorkerDaemonProofs`: `HostTypeCorrect`, `OneServerAlways`, `AnsweredByOwnModel` | `HostTypeOK`, `OneServer`, `AnsweredByItsModel` | `HostInv` adds `OnlyTheLast`: whatever is alive is the last server spawned, and while the lock is held across a kill the state names none; so the port is free when the next is spawned |

| `PublicLedgerProofs`: `LedgerTypeCorrect`, `PagesAddUp`, `RowsKeepRecord` | `LedgerTypeOK`, `PageAddsUp`, `SettlementRecord`'s specification | `LedgerInv`, see below |

`PagesAddUp` is proved from its parts: `NoDollarTwice`, `QuietPageIsExact`, `TotalIsEnough`, `ChipsOnce`
and `LinesRounded`. `LedgerInv` says of the rows that a booking has one confirmed lock, at most one confirmed close, and not
the second without the first (`OneOfEach`), that `escrow` is what these rows leave open (`EscrowIsOpen`), and that a close
fits its lock (`AmountsFit`). Of a page on its way it says where each figure came from: the volume is that of
some closes there are (`VolumeFits`), the locked amount that of some locks there are, of
*other* bookings than these (`SumsFit`); since the closes were read first, no booking is in both, and since rows are only added,
the closes and locks stay. So the page's two sums go, unit by unit, under the sum of all locks: `TotalUnder` says that
one total is at most another if its terms go into larger terms, each into its own. The mutant that reads the locks first
breaks exactly this. `AreRows` says that each line shows a row of its own, from which `OneChipEach` follows; that the lines are in
order of place needs that `Nth` exists for every place (`NthIs`), which is shown by counting.

`PublicLedger` and `BookingSettlement` fit together as channel and delivery do: `LedgerKeepsRecord` says that the backend
writes its rows as `SettlementRecord` allows, and `RowsKeepRecord` that the ledger model is
about such rows.

All theorems assume what the modules assume of their constants and nothing else: the bounds are
natural numbers, "none" is no connection and no link, there is a price, the words a form can save are
tags and come through it unchanged, the phases of the meter are in order. No theorem assumes fairness.

Three attempts at a proof failed for a reason. `LinksAreAlive` did not hold of a first form of
`CreateOffering`, in which a new offering could take the identifier of a deleted one that a visitor's
list still shows; identifiers are random UUIDs, and the guard now says so. The instance, with
one offering, was too small to show it. And `TakeOut` of `ChatThread` is written with the place of the
message instead of a filter, since it occurs once at most: what a filter computes is defined by recursion.
The attempt to let `PublicLedger` rest on what `BookingSettlement` promises showed that the ledger model was too narrow: it had
let an attempt fail only where it might have succeeded, whereas racing requests record a failed lock of a booking that is
locked or closed. Failed rows now come at any time, and the page's promises hold with them.

### Only model-checked

* Liveness (`RequestsEnd`, `ActivationIsTold`, `DeadSubscribersLeave`, `AcceptedIsHandled`,
  `EverythingEnds`) is out of the prover's reach.
* `NothingTrapped` as it stands is about ENABLED; its guards are proved (`MoneyCanLeave`).

The types of the seven components of `MCComponents` are the other way round: theorems only, no run checks them.

## Findings

1. `terminal_is_final`: a cancel and an activation of one pending booking both pass the
   check of `VALID_TRANSITIONS`; the slower activation makes a cancelled booking
   active. The documentation says a terminal booking cannot transition again.
2. `close_never_silent`: in the other order, the cancel that had read `pending` closes
   the active booking without settling it. The lock stays in the contract, the
   ledger shows no attempt, the worker is not told, and no later transition is
   accepted. The module comment says failures are never hidden.
3. `every_attempt_recorded`: a row of `settlement_txs` is written after the call
   returns; a restart in between leaves a lock without a row.
4. `worker_reconciles`: a comment justifies dropping an event by a reconciliation on
   reconnect. There is none on either side: the sandbox of a closed booking runs on.

5. `existing_bookings_keep_price`: a booking stores no price; the lock is taken at the price the
   offering has when the booking is activated, though the edit page says that existing
   bookings keep their original price.

A status change conditional on the status that was read would remedy findings 1 and 2 and the
charge that exceeds its row (see *Limits*); a row written before the call is made, finding 3.

`ChargedStaysClosed` and the amount in `ClosesAreAccounted` hold with wallets that were there from the start, late
receipts and restarts included; a request that read its parties before a wallet was set
can still overwrite a charged booking in the way of finding 1.

### Limits of what holds

Some properties exclude cases, or bookings by their history, because the code
promises nothing for them. A reader of the runs should know what happens to these:

* a receipt that does not come in 60 seconds counts as a failed lock
  (`escrow_client.py:146`, `service.py:89`), though the transaction may still be mined; a
  retry of the activation is then refused, because the booking exists on the chain
  (`LedgerAgrees` is about instances without such delays);
* two closes that race can commit in the opposite order of their clocks, which are read before the commit
  (`bookings.py:124`, 129): the later time is charged and the earlier one stays in the row, so the charge exceeds
  `ended_at` - `started_at`, which `docs/onchain-settlement.md:44` gives as its source (`ClosesAreAccounted` therefore
  speaks of the closes and not of the row);
* a worker killed between starting a container (`booking/mod.rs:127`) and writing its
  row (line 135) leaves a sandbox that no cancellation finds: nothing looks for running
  containers at start-up (`RecordsAgree` excludes `harm`);
* the port table is not rebuilt from the rows after a restart, so messages of running
  bookings are only logged;
* nothing orders the publications of two requests: the event of a close can overtake that of
  the activation (`bookings.py:146-178`), and the sandbox is started after it was
  cancelled (`SettledRunsOnlyActive` then promises only that the activation was the last the worker was told of);
* a cancel that read `pending` and commits over an activation tells nobody (`bookings.py:172`): the
  sandbox of a cancelled booking runs on although nothing was lost. A stale activation over a close makes the
  market active while the worker may have been told to stop, or has yet to be told to start
  (both are `overwritten`);
* a stop the runtime refuses is reported as done (`container.rs:86-88`), and
  the container is then in no list;
* both backends answer with the one port 8080 for every booking (`container.rs:77`, `lima.rs:129`): that a
  message reaches the sandbox of *its* booking is nowhere stated here; what is, is that it is
  relayed only for a booking the worker holds active;
* the model server is started through `uv tool run` (`inference/mod.rs:84-104`). The model takes wrapper and server
  for one process; if `uv` stays as the parent, killing it may leave its child on the port;
* a dead or stuck model server stays the current one, and a load of its model answers Ok (its
  output pipes, `inference/mod.rs:102-103`, are read by nobody); a swap that cannot spawn leaves no server; a
  late warm-up may swap out the model of a booking;
* two verifications of one link that overlap both sign in (`magic_link.py:52-61`), although the README
  calls links single-use; for a new address the second fails with a 500. Two registrations
  with one token that overlap both succeed, and the later key stays;
* `/auth/expired` clears whatever cookie the browser has by then, so the bounce of an old session
  can sign out the fresh one of another tab (`SessionKept` allows exactly this);
* "Archive" deletes; for an offering with a booking the delete fails, is only logged, and the offering stays
  active. A form undoes what somebody else changed between its load and its PATCH when it is saved, also in
  fields nobody touched, and respells tags the API was sent with commas, blanks at their ends or nothing in them
  (`UntouchedFieldsStay` allows exactly this). During an outage the list shows seeds while a detail page may be an error;
* a click on "add worker" whose answer is lost, or a second click, leaves a pending row nobody can
  use;
* a message is stored although the booking closed between check and commit, and one whose answer is lost
  is taken out of the thread though it was stored;
* the observer's callback looks at the oldest of several crossings, and a page that becomes visible again starts
  the meter out of view (`RunsWhenSeen` and `OneLoop` are about the rest);
* the ledger's figures are of different moments; `total` counts all rows on a page of one booking; a
  duration of just under an hour is shown as "60m", and an outage as no settlements at all.

## What is left

In the order of what it would add:

1. the chain's outcome in `BookingDelivery`: it has the races of the transitions and the order of events, but an
   activation is refused there at will instead of by `BookingSettlement`'s contract;
2. which sandbox answers on the one port all of them are given;
3. heartbeats and the worker list they feed.

Not modelled: cryptography (sealing, JWT, password hashing), the marketing and download pages and
the wrappers of UI primitives (no state beyond what the browser keeps for an element), validation schemas,
migrations, deployment scripts, process hardening, metrics, log redaction, the agent
image (a proxy without state), command lines of the sandbox backends. None keeps state
that another component's correctness depends on. Also out of scope for the contract:
`uint256` overflow (see above), tokens sent to the contract without `deposit`, which it can
never release, and roles other than the settler's.
