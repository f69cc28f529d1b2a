---------------------------- MODULE LandingMeter ----------------------------
(***************************************************************************)
(* The escrow meter of the landing page (landing/assets/meter.js): an      *)
(* animation that replays three bookings, started and stopped by an        *)
(* IntersectionObserver and by visibilitychange, one frame at a time.      *)
(*                                                                         *)
(* Amounts are in 1/10000 USDC.  Time passes in steps, a phase ends when so *)
(* many have passed, and frames come as they like: often, late, or not at  *)
(* all while the document is hidden, but once at least in the time that    *)
(* belongs to a booking (12.4 s in the code).                              *)
(***************************************************************************)
EXTENDS Naturals, FiniteSets, SequencesExt

CONSTANTS LOCK, RUN, HOLD,   \* PHASE: when each phase of a booking ends
          MaxRecords         \* crossings the observer may have to report at once

ASSUME MeterAssumption ==
    /\ {LOCK, RUN, HOLD, MaxRecords} \subseteq Nat \ {0}
    /\ LOCK < RUN /\ RUN < HOLD

VARIABLES
    inView, hidden,   \* whether the meter is in view, and the document hidden
    records,          \* what the observer has seen and not yet reported
    batched,          \* history: whether it ever reported two crossings at once
    running, frames,  \* the loop: the variable `running`, and every callback requested
    frame,            \* the last of them, which is the one stop() cancels
    index, age,       \* the booking, and the time since startedAt
    header, painted   \* what is on the page

meterVars == <<inView, hidden, records, batched, running, frames, frame, index, age,
               header, painted>>

BOOKINGS == <<[rate |-> 48000, reserved |-> 60, used |-> 50],
              [rate |-> 4000, reserved |-> 240, used |-> 195],
              [rate |-> 62000, reserved |-> 90, used |-> 90]>>

NotYet    == HOLD + 1      \* startedAt is null
NoFrame   == 0
FrameIds  == 1..3
Indices   == 1..Len(BOOKINGS)

AfterLast(i) == i + 1                   \* mutant: no modulus

After(i) == (i % Len(BOOKINGS)) + 1

-----------------------------------------------------------------------------
(* The sums of a booking, which come out even for all three. *)
LedgerNoFee(b) ==                       \* mutant: the commission is not taken off
    LET cost == (b.rate * b.used) \div 60
    IN [locked |-> (b.rate * b.reserved) \div 60, supplier |-> cost,
        fee |-> (cost * 15) \div 100, refund |-> ((b.rate * b.reserved) \div 60) - cost]

Ledger(b) ==
    LET locked == (b.rate * b.reserved) \div 60
        cost   == (b.rate * b.used) \div 60
        fee    == (cost * 15) \div 100
    IN [locked |-> locked, supplier |-> cost - fee, fee |-> fee, refund |-> locked - cost]

(* paint: the amounts and the bar's segments, all multiplied by the length  *)
(* of the phase; a segment's width is its share of what is locked.          *)
Paint(i, phase, p, span) ==
    LET s == Ledger(BOOKINGS[i])
        nothing == [booking |-> i, phase |-> phase, span |-> span, locked |-> span * s.locked,
                    supplier |-> 0, fee |-> 0, refund |-> 0,
                    supplierW |-> 0, feeW |-> 0, heldW |-> 0, refundW |-> 0]
    IN CASE phase = "lock" ->
              [nothing EXCEPT !.locked = p * s.locked, !.heldW = p * s.locked]
         [] phase = "run" ->
              [nothing EXCEPT !.supplier = p * s.supplier, !.fee = p * s.fee,
                              !.supplierW = p * s.supplier, !.feeW = p * s.fee,
                              !.heldW = span * s.locked - p * (s.supplier + s.fee)]
         [] phase = "settle" ->
              [nothing EXCEPT !.supplier = s.supplier, !.fee = s.fee, !.refund = s.refund,
                              !.supplierW = s.supplier, !.feeW = s.fee,
                              !.refundW = s.locked - s.supplier - s.fee]

Unpainted == [booking |-> 1, phase |-> "none", span |-> 1, locked |-> 0, supplier |-> 0,
           fee |-> 0, refund |-> 0, supplierW |-> 0, feeW |-> 0, heldW |-> 0, refundW |-> 0]

Paintings ==
    {Unpainted} \cup UNION {{Paint(i, "lock", p, LOCK) : p \in 0..(LOCK - 1)}
                         \cup {Paint(i, "run", p, RUN - LOCK) : p \in 0..(RUN - LOCK - 1)}
                         \cup {Paint(i, "settle", 1, 1)} : i \in Indices}

MeterTypeOK ==
    /\ {inView, hidden, batched, running} \subseteq BOOLEAN
    /\ records \in BoundedSeq(BOOLEAN, MaxRecords)
    /\ frames \subseteq FrameIds /\ frame \in FrameIds \cup {NoFrame}
    /\ index \in Indices /\ header \in Indices
    /\ age \in 0..HOLD \cup {NotYet}
    /\ painted \in Paintings

(* The observer reports where the meter stands as soon as it observes. *)
MeterInit ==
    /\ inView \in BOOLEAN /\ hidden \in BOOLEAN
    /\ records = <<inView>> /\ batched = FALSE
    /\ running = FALSE /\ frames = {} /\ frame = NoFrame
    /\ index = 1 /\ age = NotYet
    /\ header = 1 /\ painted = Unpainted

-----------------------------------------------------------------------------
Request(pending) ==
    LET f == CHOOSE f \in FrameIds : f \notin pending
    IN frames' = pending \cup {f} /\ frame' = f

StartAgain ==                           \* mutant: no check of running
    /\ running' = TRUE /\ age' = NotYet
    /\ Request(frames)

Start ==
    \/ running /\ UNCHANGED <<running, age, frames, frame>>
    \/ /\ ~running
       /\ running' = TRUE /\ age' = NotYet
       /\ Request(frames)

Stop ==
    /\ running' = FALSE
    /\ frames' = frames \ {frame} /\ frame' = NoFrame
    /\ UNCHANGED age

(* Scrolling: the observer takes note of each crossing. *)
Cross ==
    /\ ~hidden /\ Len(records) < MaxRecords
    /\ inView' = ~inView /\ records' = Append(records, ~inView)
    /\ UNCHANGED <<hidden, batched, running, frames, frame, index, age, header, painted>>

(* The callback looks at the first of the crossings it is given. *)
Observe ==
    /\ records # <<>>
    /\ IF records[1] THEN Start ELSE Stop
    /\ records' = <<>> /\ batched' = (batched \/ Len(records) > 1)
    /\ UNCHANGED <<inView, hidden, index, header, painted>>

StopOnly(visible) == IF visible THEN UNCHANGED <<running, age, frames, frame>> ELSE Stop
                                        \* mutant: coming back does not start

OnVisibility(visible) == IF visible THEN Start ELSE Stop

ChangeVisibility ==
    /\ hidden' = ~hidden
    /\ OnVisibility(hidden)
    /\ UNCHANGED <<inView, records, batched, index, header, painted>>

AlwaysFirst == 0                        \* mutant: startedAt is set by every frame

(* The first frame after a start is at time 0. *)
Elapsed == IF age = NotYet THEN 0 ELSE age

KeepHeader(t) ==                         \* mutant: the header is forgotten
    /\ index' = After(index) /\ age' = 0
    /\ UNCHANGED <<header, painted>>

NextBooking(t) ==
    /\ index' = After(index) /\ age' = 0
    /\ header' = After(index)
    /\ UNCHANGED painted

(* A frame: a callback asked for is run, paints or moves on, and asks for the *)
(* next.  (A callback that finds the meter stopped would return at once: stop *)
(* has cancelled it.)                                                         *)
Tick ==
    /\ running /\ ~hidden
    /\ \E f \in frames : Request(frames \ {f})
    /\ LET t == Elapsed IN
       \/ /\ t < HOLD
          /\ painted' = CASE t < LOCK -> Paint(index, "lock", t, LOCK)
                          [] t >= LOCK /\ t < RUN -> Paint(index, "run", t - LOCK, RUN - LOCK)
                          [] t >= RUN -> Paint(index, "settle", 1, 1)
          /\ age' = t
          /\ UNCHANGED <<index, header>>
       \/ t >= HOLD /\ NextBooking(t)
    /\ UNCHANGED <<inView, hidden, records, batched, running>>

StepOfTime ==
    /\ running /\ age < HOLD
    /\ age = HOLD - 1 => painted.booking = index
    /\ age' = age + 1
    /\ UNCHANGED <<inView, hidden, records, batched, running, frames, frame, index, header,
                   painted>>

MeterNext == Cross \/ Observe \/ ChangeVisibility \/ Tick \/ StepOfTime

(* The browser draws, and time passes. *)
MeterFairness == WF_meterVars(Tick) /\ WF_meterVars(StepOfTime)
MeterSpec == MeterInit /\ [][MeterNext]_meterVars /\ MeterFairness

-----------------------------------------------------------------------------
(* However starts and stops follow upon each other, there is one frame      *)
(* pending while the meter runs and none while it does not: the animation    *)
(* never runs twice as fast, nor on after a stop.                            *)
OneLoop == Cardinality(frames) = IF running THEN 1 ELSE 0

(* The bar is never over- nor underfull, and a settled booking pays out what *)
(* was locked: the supplier's share, the fee and the refund.                 *)
AmountsAddUp ==
    LET p == painted IN
    /\ p.supplierW + p.feeW + p.heldW + p.refundW = p.locked
    /\ p.phase = "settle" => p.supplier + p.fee + p.refund = p.locked

(* The header names the booking painted below it, but for the one frame in   *)
(* which it already names the next.                                          *)
HeaderMatches ==
    /\ header = index
    /\ header \in {painted.booking, After(painted.booking)}

(* A meter in view of a visible document runs, unless the observer had two   *)
(* crossings to report at once and only the older was looked at.             *)
RunsWhenSeen == inView /\ ~hidden /\ records = <<>> /\ ~batched => running

(* A meter that runs, runs on: it comes round to the second booking again    *)
(* and again.                                                                *)
MeterGoesOn == <>[](running /\ ~hidden) => []<>(index = 2)

(* The meter runs once and when it is seen, and what it shows fits together. *)
MeterIsSound == OneLoop /\ RunsWhenSeen /\ AmountsAddUp /\ HeaderMatches
=============================================================================
