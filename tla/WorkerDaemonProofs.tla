----------------------- MODULE WorkerDaemonProofs -----------------------
(*****************************************************************************)
(* The worker daemon: from the commit of a booking to its sandbox, for any   *)
(* number of bookings, messages, failures and restarts; and the host of its  *)
(* model server, for any catalogue and any number of loads, deaths and       *)
(* failed starts.                                                            *)
(*                                                                           *)
(* First the daemon by itself, from what it is sent alone: the records of a  *)
(* booking that met no failure agree but for the handler that is in the      *)
(* middle of changing them (Unhurt); a handler's step tells what the         *)
(* earlier ones have done, hurt or not (InHand); and a port comes from a     *)
(* start whose row is saved next, and goes with a stop whose row is marked   *)
(* before (PortKnown).  Their conjunction is AgentInv.                       *)
(*                                                                           *)
(* Then the daemon in the system, where the requests that change a booking   *)
(* check it, commit and publish in steps of their own and in any order.  The *)
(* invariant is DeliveryInv.  What the events and the worker say was committed*)
(* before, by some request (EventsCommitted, WorkCommitted), and a committed *)
(* status stands but for a commit over it (StatusStands).  Of a booking that *)
(* lost no event, the last on the way is the last that was told, and when none*)
(* is on the way the worker does what was told last (LastTold).  And for a   *)
(* closed booking that was not written over or overtaken, if its activation  *)
(* was told last then its close has committed and is still to be told        *)
(* (CloseIsTold), so that when nothing is left to tell it was not.           *)
(*****************************************************************************)
EXTENDS BookingDelivery, ModelHost, SequenceTheorems, TLAPS

-----------------------------------------------------------------------------
(* The daemon *)

(* The three records of a booking say the same.                             *)
Agree(b) ==
    /\ b \in sandboxes <=> rows[b] = "active"
    /\ b \in sandboxes <=> b \in ports

(* The handler of b has changed some of the records and not yet the rest.   *)
HalfDone(b) == At(b, "remember") \/ At(b, "save") \/ At(b, "mark") \/ At(b, "forget")

(* A booking without failures.                                              *)
Unhurt(b) ==
    /\ At(b, "save") => b \in ports
    /\ At(b, "mark") \/ At(b, "forget") => b \notin sandboxes
    /\ ~HalfDone(b) => Agree(b)

(* What the step of the handler tells of any booking.                       *)
InHand(b) ==
    /\ At(b, "remember") \/ At(b, "save") => b \in sandboxes
    /\ At(b, "stop") \/ At(b, "mark") => rows[b] = "active"
    /\ At(b, "forget") => rows[b] # "active"
    /\ At(b, "chat") => rows[b] = "active" \/ "sql" \in harm[b]

(* What a known port tells of its booking.                                  *)
PortKnown(b) ==
    /\ b \in sandboxes \/ rows[b] = "active" \/ At(b, "forget")
    /\ \/ rows[b] = "active" \/ "sql" \in harm[b]
       \/ At(b, "save") \/ At(b, "forget")

AgentInv ==
    /\ TypeOK
    /\ \A b \in Bookings : harm[b] = {} => Unhurt(b)
    /\ \A b \in Bookings : InHand(b)
    /\ \A b \in ports : PortKnown(b)

(* A step for booking b, known by its effect on b: the others see only that *)
(* it is not their turn.                                                    *)
LEMMA OneBooking ==
    ASSUME AgentInv, TypeOK', NEW b \in Bookings,
           task = Waiting \/ task.booking = b,
           task' = Waiting \/ task'.booking = b,
           \A c \in Bookings : c # b => /\ c \in sandboxes' <=> c \in sandboxes
                                        /\ c \in ports' <=> c \in ports
                                        /\ rows'[c] = rows[c] /\ harm'[c] = harm[c],
           harm'[b] = {} => Unhurt(b)', InHand(b)', b \in ports' => PortKnown(b)'
    PROVE  AgentInv'
<1>1. ASSUME NEW c \in Bookings, c # b
      PROVE  /\ harm'[c] = {} => Unhurt(c)'
             /\ InHand(c)'
             /\ c \in ports' => PortKnown(c)'
  <2>1. \A s : (s # "waiting") => ~At(c, s) /\ ~At(c, s)'
    BY <1>1 DEF At, Waiting
  <2>2. (harm[c] = {} => Unhurt(c)) /\ (c \in ports => PortKnown(c))
    BY DEF AgentInv
  <2> QED
    BY <1>1, <2>1, <2>2 DEF Unhurt, HalfDone, Agree, InHand, PortKnown
<1> QED
  BY <1>1 DEF AgentInv, TypeOK

(* The invariant holds at the start and through every step.                 *)
LEMMA InitAgent == Init => AgentInv
<1> SUFFICES ASSUME Init PROVE AgentInv
  OBVIOUS
<1>1. TypeOK
  BY AgentAssumption DEF Init, TypeOK
<1> QED
  BY <1>1 DEF Init, AgentInv, Unhurt, HalfDone, Agree, InHand, PortKnown, At, Waiting

LEMMA TypeStep == ASSUME TypeOK, [Next]_vars PROVE TypeOK'
<1>1. ASSUME NEW b \in Bookings, NEW kind \in Kinds, Dispatch(kind, b) PROVE TypeOK'
  BY <1>1 DEF TypeOK, Dispatch, Goto, FirstStep, Kinds, Steps
<1>2. ASSUME NEW b \in Bookings, HandlerStep(b) PROVE TypeOK'
  <2> USE <1>2 DEF TypeOK, Goto, Finish, Hurt, Steps
  <2>1. CASE StartSandbox(b) \/ StartFails(b) \/ StartHalfDone(b)
    BY <2>1 DEF StartSandbox, StartFails, StartHalfDone
  <2>2. CASE RememberPort(b) \/ SaveRow(b) \/ ForgetPort(b) \/ MarkRow(b)
    BY <2>2 DEF RememberPort, SaveRow, ForgetPort, MarkRow
  <2>3. CASE FindRow(b) \/ StopSandbox(b) \/ StopRefused(b) \/ StopErrs(b)
    BY <2>3 DEF FindRow, StopSandbox, StopRefused, StopErrs
  <2>4. CASE SqlFails(b) \/ Route(b) \/ Chat(b)
    BY <2>4 DEF SqlFails, Route, Chat
  <2> QED
    BY <2>1, <2>2, <2>3, <2>4 DEF HandlerStep
<1>3. CASE Restart
  BY <1>3, AgentAssumption DEF TypeOK, Restart
<1>4. CASE UNCHANGED vars
  BY <1>4 DEF TypeOK, vars
<1> QED
  BY <1>1, <1>2, <1>3, <1>4 DEF Next

LEMMA HandlerInv == ASSUME AgentInv, NEW b \in Bookings, HandlerStep(b) PROVE AgentInv'
<1>1. TypeOK' /\ TypeOK
  BY TypeStep DEF Next, AgentInv
<1>2. /\ harm[b] = {} => Unhurt(b)
      /\ InHand(b)
      /\ b \in ports => PortKnown(b)
  BY DEF AgentInv
<1> USE DEF At, Goto, Finish, Hurt, Waiting
<1>3. /\ task.booking = b
      /\ task' = Waiting \/ task'.booking = b
      /\ \A c \in Bookings : c # b => /\ c \in sandboxes' <=> c \in sandboxes
                                      /\ c \in ports' <=> c \in ports
                                      /\ rows'[c] = rows[c] /\ harm'[c] = harm[c]
  <2>1. CASE StartSandbox(b) \/ StartFails(b) \/ StartHalfDone(b)
    BY <1>1, <2>1 DEF StartSandbox, StartFails, StartHalfDone, TypeOK
  <2>2. CASE RememberPort(b) \/ SaveRow(b) \/ ForgetPort(b) \/ MarkRow(b)
    BY <1>1, <2>2 DEF RememberPort, SaveRow, ForgetPort, MarkRow, TypeOK
  <2>3. CASE FindRow(b) \/ StopSandbox(b) \/ StopRefused(b) \/ StopErrs(b)
    BY <1>1, <2>3 DEF FindRow, StopSandbox, StopRefused, StopErrs, TypeOK
  <2>4. CASE SqlFails(b) \/ Route(b) \/ Chat(b)
    BY <1>1, <2>4 DEF SqlFails, Route, Chat, TypeOK
  <2> QED
    BY <2>1, <2>2, <2>3, <2>4 DEF HandlerStep
<1> USE DEF Unhurt, HalfDone, Agree, InHand, PortKnown, TypeOK
<1> DEFINE Fine == /\ harm'[b] = {} => Unhurt(b)'
                   /\ InHand(b)'
                   /\ b \in ports' => PortKnown(b)'
<1>4. ASSUME StartSandbox(b) PROVE Fine
  BY <1>1, <1>2, <1>4 DEF StartSandbox
<1>5. ASSUME StartFails(b) \/ StartHalfDone(b) PROVE Fine
  BY <1>1, <1>2, <1>5 DEF StartFails, StartHalfDone
<1>6. ASSUME RememberPort(b) \/ SaveRow(b) PROVE Fine
  BY <1>1, <1>2, <1>6 DEF RememberPort, SaveRow
<1>7. ASSUME FindRow(b) PROVE Fine
  BY <1>1, <1>2, <1>7 DEF FindRow
<1>8. ASSUME StopSandbox(b) PROVE Fine
  BY <1>1, <1>2, <1>8 DEF StopSandbox
<1>9. ASSUME StopRefused(b) \/ StopErrs(b) PROVE Fine
  BY <1>1, <1>2, <1>9 DEF StopRefused, StopErrs
<1>10. ASSUME MarkRow(b) \/ ForgetPort(b) PROVE Fine
  BY <1>1, <1>2, <1>10 DEF MarkRow, ForgetPort
<1>11. ASSUME SqlFails(b) \/ Route(b) \/ Chat(b) PROVE Fine
  BY <1>1, <1>2, <1>11 DEF SqlFails, Route, Chat
<1> QED
  BY <1>1, <1>3, <1>4, <1>5, <1>6, <1>7, <1>8, <1>9, <1>10, <1>11, OneBooking DEF HandlerStep

LEMMA DispatchInv ==
    ASSUME AgentInv, NEW kind \in Kinds, NEW b \in Bookings, Dispatch(kind, b)
    PROVE  AgentInv'
<1>1. TypeOK' /\ TypeOK
  BY TypeStep DEF Next, AgentInv
<1>2. FirstStep(kind) \in {"start", "find", "route"}
  BY DEF Kinds, FirstStep
<1>3. /\ task = Waiting /\ task' = [step |-> FirstStep(kind), booking |-> b]
      /\ UNCHANGED <<sandboxes, rows, ports, harm>>
  BY DEF Dispatch, Goto
<1>4. \A s : s # "waiting" => ~At(b, s)
  BY <1>3 DEF At, Waiting
<1>5. \A s : At(b, s)' <=> s = FirstStep(kind)
  BY <1>3 DEF At
<1>6. /\ harm[b] = {} => Unhurt(b)
      /\ InHand(b)
      /\ b \in ports => PortKnown(b)
  BY DEF AgentInv
<1>7. /\ harm'[b] = {} => Unhurt(b)'
      /\ InHand(b)'
      /\ b \in ports' => PortKnown(b)'
  BY <1>2, <1>3, <1>4, <1>5, <1>6 DEF Unhurt, HalfDone, Agree, InHand, PortKnown
<1> QED
  BY <1>1, <1>3, <1>7, OneBooking

LEMMA RestartInv == ASSUME AgentInv, Restart PROVE AgentInv'
<1>1. TypeOK' /\ TypeOK
  BY TypeStep DEF Next, AgentInv
<1>2. /\ task' = Waiting /\ ports' = {} /\ UNCHANGED <<sandboxes, rows>>
      /\ \A b \in Bookings : harm'[b] = IF b \in sandboxes \/ b = task.booking
                                        THEN harm[b] \cup {"restart"} ELSE harm[b]
  BY DEF Restart
<1>3. \A b, s : s # "waiting" => ~At(b, s)'
  BY <1>2 DEF At, Waiting
<1>4. ASSUME NEW b \in Bookings, harm'[b] = {} PROVE Unhurt(b)'
  <2>1. b \notin sandboxes /\ b # task.booking /\ harm[b] = {}
    BY <1>2, <1>4
  <2>2. ~HalfDone(b) /\ Unhurt(b)
    BY <2>1 DEF AgentInv, HalfDone, At
  <2> QED
    BY <1>2, <1>3, <2>1, <2>2 DEF Unhurt, HalfDone, Agree
<1>5. \A b \in Bookings : InHand(b)'
  BY <1>3 DEF InHand
<1> QED
  BY <1>1, <1>2, <1>4, <1>5 DEF AgentInv

LEMMA AgentStep == ASSUME AgentInv, [Next]_vars PROVE AgentInv'
<1>1. CASE UNCHANGED vars
  BY <1>1 DEF vars, AgentInv, TypeOK, Unhurt, HalfDone, Agree, InHand, PortKnown, At
<1> QED
  BY <1>1, DispatchInv, HandlerInv, RestartInv DEF Next

(* AgentInv holds whatever events come, fail and are cut off by a restart.  *)
THEOREM AgentInvariant == Spec => []AgentInv
BY InitAgent, AgentStep, PTL DEF Spec

(* The sandboxes, rows, ports and the event in hand keep their types.       *)
THEOREM AgentTypeCorrect == Spec => []TypeOK
<1>1. AgentInv => TypeOK
  BY DEF AgentInv
<1> QED
  BY <1>1, AgentInvariant, PTL

(* After dispatch the runtime, SQLite and sandbox_ports agree on a booking  *)
(* that met no failure.                                                     *)
THEOREM RecordsAlwaysAgree == Spec => []RecordsAgree
<1>1. AgentInv => RecordsAgree
  <2>1. task = Waiting => \A b \in Bookings : ~HalfDone(b)
    BY DEF HalfDone, At, Waiting
  <2> QED
    BY <2>1 DEF AgentInv, RecordsAgree, Unhurt, Agree
<1> QED
  BY <1>1, AgentInvariant, PTL

(* An entry of sandbox_ports has a sandbox, or a row that lets a later      *)
(* cancellation clear it.                                                   *)
THEOREM PortsAlwaysServed == Spec => []PortsAreServed
<1>1. AgentInv => PortsAreServed
  BY DEF AgentInv, PortsAreServed, PortKnown
<1> QED
  BY <1>1, AgentInvariant, PTL

(* relay_message posts to a sandbox only for a booking whose row is active. *)
THEOREM RelaysOnlyActive == Spec => []RelayedWhileActive
<1>1. AgentInv => RelayedWhileActive
  BY DEF AgentInv, RelayedWhileActive, InHand
<1> QED
  BY <1>1, AgentInvariant, PTL

(* A failure is not forgotten.                                              *)
LEMMA HarmStays == ASSUME TypeOK, [Next]_vars, NEW b \in Bookings PROVE harm[b] \subseteq harm'[b]
<1>1. ASSUME NEW c \in Bookings, HandlerStep(c)
      PROVE  UNCHANGED harm \/ \E failure : Hurt(c, failure)
  <2>1. CASE StartHalfDone(c) \/ StopRefused(c) \/ StopErrs(c) \/ SqlFails(c)
    BY <2>1 DEF StartHalfDone, StopRefused, StopErrs, SqlFails
  <2>2. CASE ~(StartHalfDone(c) \/ StopRefused(c) \/ StopErrs(c) \/ SqlFails(c))
    BY <1>1, <2>2 DEF HandlerStep, StartSandbox, StartFails, RememberPort, SaveRow, FindRow,
                      StopSandbox, MarkRow, ForgetPort, Route, Chat
  <2> QED
    BY <2>1, <2>2
<1>2. ASSUME NEW c \in Bookings, NEW failure, Hurt(c, failure) PROVE harm[b] \subseteq harm'[b]
  BY <1>2 DEF Hurt, TypeOK
<1>3. CASE Restart
  BY <1>3 DEF Restart
<1>4. CASE UNCHANGED harm
  BY <1>4
<1> QED
  BY <1>1, <1>2, <1>3, <1>4 DEF Next, Dispatch, vars

(* BookingCancelled, handled to its end, leaves no sandbox of a booking that *)
(* met no failure (the warning of StopRefused counts as one).               *)
THEOREM CancellationStops == Spec => CancelStops
<1>1. ASSUME AgentInv, [Next]_vars
      PROVE  [\A b \in Bookings :
                 At(b, "forget") /\ harm'[b] = {} /\ task' = Waiting => b \notin sandboxes']_vars
  <2>1. SUFFICES ASSUME NEW b \in Bookings, At(b, "forget"), harm'[b] = {}, task' = Waiting
                 PROVE  b \notin sandboxes'
    OBVIOUS
  <2>2. harm[b] = {}
    BY <1>1, <2>1, HarmStays DEF AgentInv
  <2>3. b \notin sandboxes
    BY <1>1, <2>1, <2>2 DEF AgentInv, Unhurt
  <2>4. sandboxes' = sandboxes
    <3>1. ASSUME NEW c \in Bookings, HandlerStep(c) PROVE sandboxes' = sandboxes
      BY <2>1, <3>1 DEF HandlerStep, StartSandbox, StartFails, StartHalfDone, RememberPort, SaveRow,
                   FindRow, StopSandbox, StopRefused, StopErrs, MarkRow, ForgetPort, SqlFails,
                   Route, Chat, At
    <3> QED
      BY <1>1, <3>1 DEF Next, Dispatch, Restart, vars
  <2> QED
    BY <2>3, <2>4
<1> QED
  BY <1>1, AgentInvariant, PTL DEF Spec, CancelStops

-----------------------------------------------------------------------------
(* The system *)

(* What the channel carries.                                                *)
TheEvents == [kind : Kinds, booking : Bookings]

Statuses == {"pending", "active"} \cup Closed

(* A request that has been checked asks for what its check allowed.         *)
WellAsked(q) ==
    \/ q = Idle
    \/ /\ q \in [at : {"checked", "committed", "done", "refused"}, booking : Bookings,
                 from : {"pending", "active"}, to : {"active", "message"} \cup Closed]
       /\ q.to \in Allowed(q.from)

SystemTypeOK ==
    /\ market \in [Bookings -> Statuses]
    /\ \A r \in Requests : WellAsked(asked[r])
    /\ DOMAIN asked = Requests
    /\ pending \in Seq(TheEvents)
    /\ lost \subseteq Bookings
    /\ DOMAIN told = Bookings

(* The worker is handling the activation, or the cancellation, of b.        *)
Activating(b) == At(b, "start") \/ At(b, "remember") \/ At(b, "save")

Cancelling(b) == At(b, "find") \/ At(b, "stop") \/ At(b, "mark") \/ At(b, "forget")

(* An activation of b, or the close of it by a request that saw it active,  *)
(* has been committed.                                                      *)
Started(b) == \E r \in Requests : asked[r].booking = b /\ Done(r) /\ Activates(r)

Stopped(b) == \E r \in Requests : asked[r].booking = b /\ Done(r) /\ Ends(r)

(* What an event says of its booking has been committed.                    *)
Committed(e) ==
    /\ e.kind = "booking_activated" => Started(e.booking)
    /\ e.kind = "booking_cancelled" => Stopped(e.booking)

(* So has all that is told, under way, done or kept.                        *)
EventsCommitted ==
    /\ \A i \in DOMAIN pending : Committed(pending[i])
    /\ \A b \in Bookings : told[b] = "booking_activated" => Started(b)

WorkCommitted == \A b \in Bookings :
    /\ Activating(b) \/ Trace(b) => Started(b)
    /\ Cancelling(b) \/ rows[b] = "cancelled" => Stopped(b)

(* A commit stands, but for the ones written over it.                       *)
StatusStands == \A b \in Bookings :
    /\ Started(b) => market[b] # "pending"
    /\ Stopped(b) => market[b] \in Closed \/ b \in overwritten

(* An event that starts or stops b.                                         *)
Concerns(e, b) == e.booking = b /\ e.kind \in {"booking_activated", "booking_cancelled"}

Quiet(b) == \A i \in DOMAIN pending : ~Concerns(pending[i], b)

LastOf(i, b) ==
    /\ Concerns(pending[i], b)
    /\ \A j \in DOMAIN pending : Concerns(pending[j], b) => j <= i

(* The last that is under way of b is the last that was told of it; and when *)
(* nothing is, what the worker has, or makes, of b is what was told last.   *)
LastTold == \A b \in Bookings \ lost :
    /\ \A i \in DOMAIN pending : LastOf(i, b) => pending[i].kind = told[b]
    /\ Quiet(b) /\ harm[b] = {} /\ (Trace(b) \/ Activating(b)) =>
           Cancelling(b) \/ told[b] = "booking_activated"

(* A closed booking has no activation left to tell; and if its activation   *)
(* is the last that was told, its close is.                                 *)
CloseIsTold == \A b \in Bookings \ (overwritten \cup overtaken) : market[b] \in Closed =>
    /\ \A r \in Untold(b) : ~Activates(r)
    /\ told[b] = "booking_activated" => \E r \in Untold(b) : Ends(r)

Facts == EventsCommitted /\ WorkCommitted /\ StatusStands /\ LastTold /\ CloseIsTold

DeliveryInv == AgentInv /\ SystemTypeOK /\ Facts

-----------------------------------------------------------------------------
(* Sequences *)

LEMMA Positions ==
    ASSUME NEW S, NEW s \in Seq(S)
    PROVE  /\ Len(s) \in Nat /\ DOMAIN s = 1..Len(s)
           /\ \A i \in DOMAIN s : s[i] \in S
OBVIOUS

LEMMA Appended ==
    ASSUME NEW S, NEW s \in Seq(S), NEW e \in S
    PROVE  /\ Append(s, e) \in Seq(S)
           /\ DOMAIN Append(s, e) = DOMAIN s \cup {Len(s) + 1}
           /\ Append(s, e)[Len(s) + 1] = e
           /\ \A i \in DOMAIN s : Append(s, e)[i] = s[i] /\ i < Len(s) + 1
OBVIOUS

LEMMA Removed ==
    ASSUME NEW S, NEW s \in Seq(S), s # <<>>
    PROVE  /\ Head(s) = s[1] /\ 1 \in DOMAIN s /\ Tail(s) \in Seq(S)
           /\ \A i \in DOMAIN Tail(s) : i + 1 \in DOMAIN s /\ Tail(s)[i] = s[i + 1]
           /\ \A i \in DOMAIN s \ {1} : i - 1 \in DOMAIN Tail(s) /\ Tail(s)[i - 1] = s[i]
OBVIOUS

LEMMA CutShort ==
    ASSUME NEW S, NEW s \in Seq(S), NEW n \in 0..Len(s)
    PROVE  /\ SubSeq(s, 1, n) \in Seq(S) /\ DOMAIN SubSeq(s, 1, n) = 1..n
           /\ Len(SubSeq(s, 1, n)) = n
           /\ \A i \in 1..n : i \in DOMAIN s /\ SubSeq(s, 1, n)[i] = s[i]
OBVIOUS

-----------------------------------------------------------------------------
(* Requests *)

LEMMA EventIs ==
    ASSUME NEW kind, NEW b
    PROVE  Event(kind, b).kind = kind /\ Event(kind, b).booking = b
BY DEF Event

(* A request that has been checked. *)
LEMMA AskedIs ==
    ASSUME SystemTypeOK, NEW r \in Requests, asked[r].at # "idle"
    PROVE  /\ asked[r].booking \in Bookings
           /\ asked[r].from \in {"pending", "active"}
           /\ asked[r].to \in {"active", "message"} \cup Closed
           /\ asked[r].to \in Allowed(asked[r].from)
BY DEF SystemTypeOK, WellAsked, Idle

(* One request gets further, and stays what it is. *)
LEMMA AskedMoves ==
    ASSUME SystemTypeOK, NEW r \in Requests, asked[r].at # "idle",
           NEW at \in {"committed", "done", "refused"}, Moves(r, at)
    PROVE  /\ \A q \in Requests : WellAsked(asked'[q])
           /\ DOMAIN asked' = Requests
           /\ asked'[r].at = at
           /\ \A q \in Requests : /\ asked'[q].booking = asked[q].booking
                                  /\ asked'[q].from = asked[q].from
                                  /\ asked'[q].to = asked[q].to
                                  /\ q # r => asked'[q].at = asked[q].at
<1>1. /\ asked' = [asked EXCEPT ![r].at = at] /\ DOMAIN asked = Requests
      /\ \A q \in Requests : WellAsked(asked[q])
  BY DEF Moves, SystemTypeOK
<1>2. /\ asked[r] \in [at : {"checked", "committed", "done", "refused"}, booking : Bookings,
                       from : {"pending", "active"}, to : {"active", "message"} \cup Closed]
      /\ asked[r].to \in Allowed(asked[r].from)
  BY <1>1 DEF WellAsked, Idle
<1>3. asked'[r] = [asked[r] EXCEPT !.at = at] /\ \A q \in Requests : q # r => asked'[q] = asked[q]
  BY <1>1
<1>4. /\ asked'[r].at = at /\ asked'[r].booking = asked[r].booking
      /\ asked'[r].from = asked[r].from /\ asked'[r].to = asked[r].to
  BY <1>2, <1>3
<1>5. WellAsked(asked'[r])
  <2>1. asked'[r] \in [at : {"checked", "committed", "done", "refused"}, booking : Bookings,
                       from : {"pending", "active"}, to : {"active", "message"} \cup Closed]
    BY <1>2, <1>3
  <2> QED
    BY <1>2, <1>4, <2>1 DEF WellAsked
<1> QED
  BY <1>1, <1>3, <1>4, <1>5

(* Only a commit adds to what was committed. *)
LEMMA NothingCommitted ==
    ASSUME SystemTypeOK, NEW r \in Requests,
           \/ asked[r].at = "checked" /\ Moves(r, "refused")
           \/ asked[r].at = "committed" /\ Moves(r, "done")
    PROVE  \A b : (Started(b)' <=> Started(b)) /\ (Stopped(b)' <=> Stopped(b))
<1>1. \A q \in Requests : /\ asked'[q].booking = asked[q].booking
                          /\ asked'[q].from = asked[q].from
                          /\ asked'[q].to = asked[q].to
                          /\ asked'[q].at \in {"committed", "done"} <=>
                                 asked[q].at \in {"committed", "done"}
  BY AskedMoves
<1> QED
  BY <1>1 DEF Started, Stopped, Done, Activates, Ends

LEMMA OneCommitted ==
    ASSUME SystemTypeOK, NEW r \in Requests, asked[r].at = "checked", Moves(r, "committed"),
           NEW b
    PROVE  /\ Started(b)' <=> Started(b) \/ (b = asked[r].booking /\ Activates(r))
           /\ Stopped(b)' <=> Stopped(b) \/ (b = asked[r].booking /\ Ends(r))
<1>1. \A q \in Requests : /\ asked'[q].booking = asked[q].booking
                          /\ asked'[q].from = asked[q].from
                          /\ asked'[q].to = asked[q].to
                          /\ asked'[q].at \in {"committed", "done"} <=>
                                 asked[q].at \in {"committed", "done"} \/ q = r
  BY AskedMoves
<1> QED
  BY <1>1 DEF Started, Stopped, Done, Activates, Ends

(* A check leaves what was asked before as it was. *)
LEMMA Checked ==
    ASSUME SystemTypeOK, NEW r \in Requests, NEW b \in Bookings,
           NEW to \in {"active", "message"} \cup Closed, Check(r, b, to)
    PROVE  /\ \A q \in Requests : WellAsked(asked'[q])
           /\ DOMAIN asked' = Requests
           /\ asked[r].at = "idle" /\ asked'[r].at = "checked"
           /\ \A q \in Requests : q # r => asked'[q] = asked[q]
           /\ \A c : (Started(c)' <=> Started(c)) /\ (Stopped(c)' <=> Stopped(c))
           /\ \A c : Untold(c)' = Untold(c)
<1>1. /\ asked[r].at = "idle" /\ DOMAIN asked = Requests
      /\ \A q \in Requests : WellAsked(asked[q])
      /\ asked' = [asked EXCEPT ![r] = [at |-> "checked", booking |-> b,
                                        from |-> market[b], to |-> to]]
      /\ to \in Allowed(market[b])
  BY DEF Check, SystemTypeOK
<1>2. market[b] \in {"pending", "active"}
  BY <1>1 DEF Allowed
<1>3. /\ asked'[r] = [at |-> "checked", booking |-> b, from |-> market[b], to |-> to]
      /\ \A q \in Requests : q # r => asked'[q] = asked[q]
  BY <1>1
<1>4. WellAsked(asked'[r])
  BY <1>1, <1>2, <1>3 DEF WellAsked
<1> QED
  BY <1>1, <1>3, <1>4 DEF Started, Stopped, Done, Activates, Ends, Untold

-----------------------------------------------------------------------------
(* A step of the system is a step of the worker, or none of it.             *)
LEMMA AgentAlone == ASSUME AgentInv, [SystemNext]_all, SystemTypeOK
                    PROVE  [Next]_vars /\ AgentInv'
<1>1. [Next]_vars
  <2>1. ASSUME NEW r \in Requests, NEW b, NEW to, Check(r, b, to) PROVE UNCHANGED vars
    BY <2>1 DEF Check
  <2>2. ASSUME NEW r \in Requests, GiveUp(r) \/ Commit(r) \/ TellNobody(r) PROVE UNCHANGED vars
    BY <2>2 DEF GiveUp, Commit, TellNobody
  <2>3. ASSUME NEW r \in Requests, Tell(r) PROVE UNCHANGED vars
    BY <2>3 DEF Tell
  <2>4. CASE LoseSome
    BY <2>4 DEF LoseSome
  <2>5. CASE Deliver
    <3>1. arrived' \in TheEvents
      BY <2>5, Removed DEF Deliver, Path!Arrive, SystemTypeOK
    <3>2. Dispatch(arrived'.kind, arrived'.booking)
      BY <2>5 DEF Deliver
    <3> QED
      BY <3>1, <3>2 DEF Next, TheEvents
  <2>6. CASE WorkerStep
    BY <2>6 DEF WorkerStep, Next
  <2>7. CASE UNCHANGED all
    BY <2>7 DEF all
  <2> QED
    BY <2>1, <2>2, <2>3, <2>4, <2>5, <2>6, <2>7 DEF SystemNext, Telling
<1> QED
  BY <1>1, AgentStep

(* What Tell publishes is an event. *)
LEMMA ToldEvent ==
    ASSUME SystemTypeOK, NEW r \in Requests, asked[r].at = "committed",
           Activates(r) \/ asked[r].to = "message" \/ Ends(r)
    PROVE  /\ Event(KindOf(r), asked[r].booking) \in TheEvents
           /\ KindOf(r) = "booking_activated" <=> Activates(r)
           /\ KindOf(r) = "booking_cancelled" <=> Ends(r)
           /\ KindOf(r) = "message_user" <=> asked[r].to = "message"
<1>1. asked[r].booking \in Bookings
  BY AskedIs
<1>2. /\ KindOf(r) \in Kinds
      /\ KindOf(r) = "booking_activated" <=> Activates(r)
      /\ KindOf(r) = "booking_cancelled" <=> Ends(r)
      /\ KindOf(r) = "message_user" <=> asked[r].to = "message"
  BY DEF KindOf, Kinds, Activates, Ends, Closed
<1> QED
  BY <1>1, <1>2 DEF TheEvents, Event

LEMMA SystemTypeStep == ASSUME SystemTypeOK, [SystemNext]_all PROVE SystemTypeOK'
<1>1. ASSUME NEW r \in Requests, NEW b \in Bookings, NEW to \in {"active", "message"} \cup Closed,
             Check(r, b, to)
      PROVE  SystemTypeOK'
  <2>1. UNCHANGED <<market, pending, lost, told>>
    BY <1>1 DEF Check, path, history
  <2> QED
    BY <1>1, <2>1, Checked DEF SystemTypeOK
<1>2. ASSUME NEW r \in Requests, GiveUp(r) \/ TellNobody(r) PROVE SystemTypeOK'
  <2>1. UNCHANGED <<market, pending, lost, told>>
    BY <1>2 DEF GiveUp, TellNobody, path, history
  <2>2. asked[r].at # "idle" /\ (Moves(r, "refused") \/ Moves(r, "done"))
    BY <1>2 DEF GiveUp, TellNobody
  <2>3. (\A q \in Requests : WellAsked(asked'[q])) /\ DOMAIN asked' = Requests
    BY <2>2, AskedMoves
  <2> QED
    BY <2>1, <2>3 DEF SystemTypeOK
<1>3. ASSUME NEW r \in Requests, Commit(r) PROVE SystemTypeOK'
  <2>1. UNCHANGED <<pending, lost, told>> /\ asked[r].at # "idle" /\ Moves(r, "committed")
    BY <1>3 DEF Commit, path
  <2>2. (\A q \in Requests : WellAsked(asked'[q])) /\ DOMAIN asked' = Requests
    BY <2>1, AskedMoves
  <2>3. /\ asked[r].to # "message" => asked[r].to \in Statuses
        /\ \/ market' = market
           \/ asked[r].to # "message" /\ market' = [market EXCEPT ![asked[r].booking] = asked[r].to]
    BY <1>3, <2>1, AskedIs DEF Commit, Statuses
  <2>4. market' \in [Bookings -> Statuses]
    BY <2>3 DEF SystemTypeOK
  <2> QED
    BY <2>1, <2>2, <2>4 DEF SystemTypeOK
<1>4. ASSUME NEW r \in Requests, Tell(r) PROVE SystemTypeOK'
  <2> DEFINE e == Event(KindOf(r), asked[r].booking)
  <2>1. /\ asked[r].at = "committed" /\ Moves(r, "done") /\ UNCHANGED market
        /\ Activates(r) \/ asked[r].to = "message" \/ Ends(r)
        /\ \/ pending' = Append(pending, e) /\ UNCHANGED lost
           \/ pending' = pending /\ lost' = lost \cup {asked[r].booking}
        /\ DOMAIN told' = DOMAIN told
    BY <1>4 DEF Tell, Path!Accept, Path!Refuse, Path!channel
  <2>2. e \in TheEvents /\ asked[r].booking \in Bookings
    BY <2>1, ToldEvent, AskedIs
  <2>3. (\A q \in Requests : WellAsked(asked'[q])) /\ DOMAIN asked' = Requests
    BY <2>1, AskedMoves
  <2> HIDE DEF e
  <2>4. pending' \in Seq(TheEvents) /\ lost' \subseteq Bookings
    BY <2>1, <2>2, Appended DEF SystemTypeOK
  <2> QED
    BY <2>1, <2>3, <2>4 DEF SystemTypeOK
<1>5. CASE LoseSome
  <2>1. pending' \in Seq(TheEvents)
    BY <1>5, CutShort DEF LoseSome, Path!Lose, SystemTypeOK
  <2>2. \A i \in DOMAIN pending : pending[i].booking \in Bookings
    <3>1. \A i \in DOMAIN pending : pending[i] \in TheEvents
      BY Positions DEF SystemTypeOK
    <3> QED
      BY <3>1 DEF TheEvents
  <2>3. PICK n \in 0..Len(pending) : pending' = SubSeq(pending, 1, n)
    BY <1>5 DEF LoseSome, Path!Lose
  <2>4. (Len(pending') + 1)..Len(pending) \subseteq DOMAIN pending
    BY <2>3, CutShort, Positions DEF SystemTypeOK
  <2>5. lost' \subseteq Bookings
    BY <1>5, <2>2, <2>4 DEF LoseSome, SystemTypeOK
  <2> QED
    BY <1>5, <2>1, <2>5 DEF SystemTypeOK, LoseSome, backend
<1>6. CASE Deliver
  BY <1>6, Removed DEF Deliver, Path!Arrive, SystemTypeOK, backend, history
<1>7. CASE WorkerStep \/ UNCHANGED all
  BY <1>7 DEF SystemTypeOK, WorkerStep, all, backend, path, history
<1> QED
  BY <1>1, <1>2, <1>3, <1>4, <1>5, <1>6, <1>7 DEF SystemNext, Telling

-----------------------------------------------------------------------------
(* What a step of the worker means for any booking: traces come from        *)
(* activations only, a row is marked in a cancellation only, and a          *)
(* cancellation that ends without a failure leaves no trace.                *)
LEMMA WorkerMeans ==
    ASSUME AgentInv, AgentInv', NEW b \in Bookings,
           (\E c \in Bookings : HandlerStep(c)) \/ Restart
    PROVE  /\ Trace(b)' \/ Activating(b)' => Trace(b) \/ Activating(b)
           /\ Cancelling(b)' => Cancelling(b)
           /\ rows'[b] = "cancelled" => rows[b] = "cancelled" \/ Cancelling(b)
           /\ harm'[b] = {} => harm[b] = {}
           /\ harm'[b] = {} /\ Cancelling(b) => Cancelling(b)' \/ ~(Trace(b)' \/ Activating(b)')
<1>1. TypeOK /\ InHand(b) /\ (harm[b] = {} => Unhurt(b))
  BY DEF AgentInv
<1>2. harm'[b] = {} => harm[b] = {}
  BY <1>1, HarmStays DEF Next
<1> USE DEF At, Goto, Finish, Hurt, Waiting, Trace, Activating, Cancelling, TypeOK
<1>3. CASE Restart
  <2>1. /\ task' = Waiting /\ ports' = {} /\ UNCHANGED <<sandboxes, rows>>
        /\ harm'[b] = {} => b \notin sandboxes /\ b # task.booking
    BY <1>1, <1>3 DEF Restart
  <2>2. ~Activating(b)' /\ ~Cancelling(b)'
    BY <2>1
  <2>3. harm'[b] = {} => ~Cancelling(b)
    BY <2>1
  <2> QED
    BY <1>2, <2>1, <2>2, <2>3
<1>4. ASSUME NEW c \in Bookings, HandlerStep(c), c # b
      PROVE  /\ Trace(b)' = Trace(b) /\ rows'[b] = rows[b]
             /\ ~Activating(b) /\ ~Activating(b)' /\ ~Cancelling(b) /\ ~Cancelling(b)'
  <2>1. CASE StartSandbox(c) \/ StartFails(c) \/ StartHalfDone(c)
    BY <1>1, <1>4, <2>1 DEF StartSandbox, StartFails, StartHalfDone
  <2>2. CASE RememberPort(c) \/ SaveRow(c) \/ ForgetPort(c) \/ MarkRow(c)
    BY <1>1, <1>4, <2>2 DEF RememberPort, SaveRow, ForgetPort, MarkRow
  <2>3. CASE FindRow(c) \/ StopSandbox(c) \/ StopRefused(c) \/ StopErrs(c)
    BY <1>1, <1>4, <2>3 DEF FindRow, StopSandbox, StopRefused, StopErrs
  <2>4. CASE SqlFails(c) \/ Route(c) \/ Chat(c)
    BY <1>1, <1>4, <2>4 DEF SqlFails, Route, Chat
  <2> QED
    BY <1>4, <2>1, <2>2, <2>3, <2>4 DEF HandlerStep
<1>5. CASE StartSandbox(b) \/ StartFails(b) \/ StartHalfDone(b)
  BY <1>1, <1>2, <1>5 DEF StartSandbox, StartFails, StartHalfDone
<1>6. CASE RememberPort(b) \/ SaveRow(b)
  BY <1>1, <1>2, <1>6 DEF RememberPort, SaveRow
<1>7. CASE FindRow(b)
  BY <1>1, <1>2, <1>7 DEF FindRow
<1>8. CASE StopSandbox(b) \/ StopRefused(b)
  BY <1>1, <1>2, <1>8 DEF StopSandbox, StopRefused
<1>9. CASE StopErrs(b)
  BY <1>1, <1>2, <1>9 DEF StopErrs
<1>10. CASE MarkRow(b)
  BY <1>1, <1>2, <1>10 DEF MarkRow
<1>11. CASE ForgetPort(b)
  BY <1>1, <1>2, <1>11 DEF ForgetPort, Unhurt, InHand
<1>12. CASE SqlFails(b)
  BY <1>1, <1>2, <1>12 DEF SqlFails
<1>13. CASE Route(b) \/ Chat(b)
  BY <1>1, <1>2, <1>13 DEF Route, Chat
<1> QED
  BY <1>2, <1>3, <1>4, <1>5, <1>6, <1>7, <1>8, <1>9, <1>10, <1>11, <1>12, <1>13 DEF HandlerStep

-----------------------------------------------------------------------------
(* One step at a time                                                       *)

(* The worker as it was: what is said of it is still true. *)
LEMMA WorkerSame ==
    ASSUME UNCHANGED vars, NEW b
    PROVE  /\ Trace(b)' = Trace(b) /\ Activating(b)' = Activating(b)
           /\ Cancelling(b)' = Cancelling(b)
           /\ harm'[b] = harm[b] /\ rows'[b] = rows[b]
BY DEF vars, Trace, Activating, Cancelling, At

(* What the channel and the worker have stays told and committed, whatever  *)
(* else is committed.                                                       *)
LEMMA StillCommitted ==
    ASSUME DeliveryInv, UNCHANGED <<vars, pending, told>>, lost \subseteq lost',
           \A b : (Started(b) => Started(b)') /\ (Stopped(b) => Stopped(b)')
    PROVE  EventsCommitted' /\ WorkCommitted' /\ LastTold'
<1>1. EventsCommitted'
  BY DEF DeliveryInv, Facts, EventsCommitted, Committed
<1>2. WorkCommitted'
  BY WorkerSame DEF DeliveryInv, Facts, WorkCommitted
<1>3. \A b : (Quiet(b)' <=> Quiet(b)) /\ \A i : LastOf(i, b)' <=> LastOf(i, b)
  BY DEF Quiet, LastOf, Concerns
<1>4. LastTold'
  BY <1>3, WorkerSame DEF DeliveryInv, Facts, LastTold
<1> QED
  BY <1>1, <1>2, <1>4

LEMMA CheckInv ==
    ASSUME DeliveryInv, NEW r \in Requests, NEW b \in Bookings,
           NEW to \in {"active", "message"} \cup Closed, Check(r, b, to)
    PROVE  Facts'
<1>1. UNCHANGED <<vars, market, pending, lost, overwritten, overtaken, told>>
  BY DEF Check, path, history
<1>2. /\ asked[r].at = "idle" /\ \A q \in Requests : q # r => asked'[q] = asked[q]
      /\ \A c : (Started(c)' <=> Started(c)) /\ (Stopped(c)' <=> Stopped(c))
      /\ \A c : Untold(c)' = Untold(c)
  BY Checked DEF DeliveryInv
<1>3. \A c : \A q \in Untold(c) : q \in Requests /\ q # r
  BY <1>2 DEF Untold
<1>4. \A c : \A q \in Untold(c) : (Activates(q)' <=> Activates(q)) /\ (Ends(q)' <=> Ends(q))
  BY <1>2, <1>3 DEF Activates, Ends
<1>5. EventsCommitted' /\ WorkCommitted' /\ LastTold'
  BY <1>1, <1>2, StillCommitted
<1>6. StatusStands'
  BY <1>1, <1>2 DEF DeliveryInv, Facts, StatusStands
<1>7. CloseIsTold'
  BY <1>1, <1>2, <1>4 DEF DeliveryInv, Facts, CloseIsTold
<1> QED
  BY <1>5, <1>6, <1>7 DEF Facts

(* Nobody is told of the close of a request that did not see the booking    *)
(* active, nor of what was given up.                                        *)
LEMMA SilentInv ==
    ASSUME DeliveryInv, NEW r \in Requests, GiveUp(r) \/ TellNobody(r)
    PROVE  Facts'
<1>1. UNCHANGED <<vars, market, pending, lost, overwritten, overtaken, told>>
  BY DEF GiveUp, TellNobody, path, history
<1>2. \/ asked[r].at = "checked" /\ Moves(r, "refused")
      \/ asked[r].at = "committed" /\ Moves(r, "done") /\ ~Ends(r)
  BY DEF GiveUp, TellNobody
<1>3. \A c : (Started(c)' <=> Started(c)) /\ (Stopped(c)' <=> Stopped(c))
  BY <1>2, NothingCommitted DEF DeliveryInv
<1>4. \A q \in Requests : /\ asked'[q].booking = asked[q].booking
                          /\ asked'[q].from = asked[q].from
                          /\ asked'[q].to = asked[q].to
                          /\ asked'[q].at = "committed" <=> asked[q].at = "committed" /\ q # r
  BY <1>2, AskedMoves DEF DeliveryInv
<1>5. \A q \in Requests : (Activates(q)' <=> Activates(q)) /\ (Ends(q)' <=> Ends(q))
  BY <1>4 DEF Activates, Ends
<1>6. \A c : Untold(c)' = Untold(c) \ {r}
  BY <1>4 DEF Untold
<1>7. r \in Requests /\ \A c : r \in Untold(c) => ~Ends(r)
  BY <1>2 DEF Untold
<1>8. EventsCommitted' /\ WorkCommitted' /\ LastTold'
  BY <1>1, <1>3, StillCommitted
<1>9. StatusStands'
  BY <1>1, <1>3 DEF DeliveryInv, Facts, StatusStands
<1>10. \A c : Untold(c) \subseteq Requests
  BY DEF Untold
<1>11. CloseIsTold'
  BY <1>1, <1>5, <1>6, <1>7, <1>10 DEF DeliveryInv, Facts, CloseIsTold
<1> QED
  BY <1>8, <1>9, <1>11 DEF Facts

(* A transition is committed.  If it closes an active booking it is itself  *)
(* what is left to tell; if it closes a pending one, nothing was told.      *)
LEMMA CommitInv == ASSUME DeliveryInv, NEW r \in Requests, Commit(r) PROVE Facts'
<1> DEFINE b == asked[r].booking
           to == asked[r].to
<1>1. /\ UNCHANGED <<vars, pending, lost, told>>
      /\ asked[r].at = "checked" /\ Moves(r, "committed") /\ SystemTypeOK
  BY DEF Commit, path, DeliveryInv
<1>2. /\ b \in Bookings
      /\ asked[r].from \in {"pending", "active"}
      /\ to \in {"active", "message"} \cup Closed
      /\ asked[r].from = "pending" => to # "message"
  BY <1>1, AskedIs DEF Allowed, Closed
<1>3. \A c : /\ Started(c)' <=> Started(c) \/ (c = b /\ Activates(r))
             /\ Stopped(c)' <=> Stopped(c) \/ (c = b /\ Ends(r))
  BY <1>1, OneCommitted
<1>4. \A q \in Requests : /\ asked'[q].booking = asked[q].booking
                          /\ asked'[q].from = asked[q].from
                          /\ asked'[q].to = asked[q].to
                          /\ asked'[q].at = "committed" <=> asked[q].at = "committed" \/ q = r
  BY <1>1, AskedMoves
<1>5. \A q \in Requests : (Activates(q)' <=> Activates(q)) /\ (Ends(q)' <=> Ends(q))
  BY <1>4 DEF Activates, Ends
<1>6. \A c : Untold(c)' = Untold(c) \cup {q \in {r} : c = b}
  BY <1>4 DEF Untold
<1>7. EventsCommitted' /\ WorkCommitted' /\ LastTold'
  BY <1>1, <1>3, StillCommitted
<1>8. CASE to = "message"
  <2>1. UNCHANGED <<market, overwritten, overtaken>>
    BY <1>8 DEF Commit
  <2>2. ~Activates(r) /\ ~Ends(r)
    BY <1>8 DEF Activates, Ends, Closed
  <2>3. StatusStands'
    BY <1>3, <2>1, <2>2 DEF DeliveryInv, Facts, StatusStands
  <2>4. CloseIsTold'
    <3>1. \A c : Untold(c) \subseteq Requests
      BY DEF Untold
    <3> QED
      BY <1>1, <1>5, <1>6, <2>1, <2>2, <3>1 DEF DeliveryInv, Facts, CloseIsTold
  <2> QED
    BY <1>7, <2>3, <2>4 DEF Facts
<1>9. CASE to # "message"
  <2>1. /\ market' = [market EXCEPT ![b] = to]
        /\ overwritten \subseteq overwritten' /\ overtaken \subseteq overtaken'
        /\ market[b] # asked[r].from => b \in overwritten'
        /\ to \in Closed /\ (\E q \in Untold(b) : Activates(q)) => b \in overtaken'
    BY <1>9 DEF Commit
  <2>2. market'[b] = to /\ \A c \in Bookings : c # b => market'[c] = market[c]
    BY <1>1, <1>2, <2>1 DEF SystemTypeOK
  <2>3. to \in {"active"} \cup Closed /\ (Activates(r) <=> to = "active")
    BY <1>2, <1>9 DEF Activates
  <2>4. "active" \notin Closed /\ "pending" \notin Closed
    BY DEF Closed
  <2>5. StatusStands'
    <3>1. \A c \in Bookings : c # b => /\ Started(c)' <=> Started(c)
                                       /\ Stopped(c)' <=> Stopped(c)
      BY <1>3
    <3>2. market'[b] # "pending"
      BY <2>2, <2>3, <2>4
    <3>3. ASSUME NEW c \in Bookings, c = b, Stopped(c)'
          PROVE  market'[c] \in Closed \/ c \in overwritten'
      <4>1. CASE to \in Closed
        BY <2>2, <3>3, <4>1
      <4>2. CASE to = "active"
        <5>1. ~Ends(r)
          BY <2>4, <4>2 DEF Ends
        <5>2. market[c] \in Closed \/ c \in overwritten
          BY <1>2, <1>3, <3>3, <5>1 DEF DeliveryInv, Facts, StatusStands
        <5> QED
          BY <1>2, <2>1, <2>4, <3>3, <5>2
      <4> QED
        BY <2>3, <4>1, <4>2
    <3> QED
      BY <2>1, <2>2, <3>1, <3>2, <3>3 DEF DeliveryInv, Facts, StatusStands
  <2>6. CloseIsTold'
    <3>1. ASSUME NEW c \in Bookings \ (overwritten' \cup overtaken'), c # b, market'[c] \in Closed
          PROVE  /\ \A q \in Untold(c)' : ~Activates(q)'
                 /\ told'[c] = "booking_activated" => \E q \in Untold(c)' : Ends(q)'
      <4>1. c \in Bookings \ (overwritten \cup overtaken) /\ market[c] \in Closed
        BY <2>1, <2>2, <3>1
      <4>2. Untold(c)' = Untold(c) /\ Untold(c) \subseteq Requests
        BY <1>6, <3>1 DEF Untold
      <4> QED
        BY <1>1, <1>5, <4>1, <4>2 DEF DeliveryInv, Facts, CloseIsTold
    <3>2. ASSUME NEW c \in Bookings \ (overwritten' \cup overtaken'), c = b, market'[c] \in Closed
          PROVE  /\ \A q \in Untold(c)' : ~Activates(q)'
                 /\ told'[c] = "booking_activated" => \E q \in Untold(c)' : Ends(q)'
      <4>1. /\ to \in Closed /\ market[c] = asked[r].from
            /\ \A q \in Untold(c) : ~Activates(q)
        BY <2>1, <2>2, <3>2
      <4>2. Untold(c)' = Untold(c) \cup {r} /\ Untold(c) \subseteq Requests
        BY <1>6, <3>2 DEF Untold
      <4>3. \A q \in Untold(c)' : ~Activates(q)'
        BY <1>5, <2>3, <2>4, <4>1, <4>2
      <4>4. ASSUME told'[c] = "booking_activated" PROVE Ends(r)
        <5>1. Started(c)
          BY <1>1, <4>4 DEF DeliveryInv, Facts, EventsCommitted
        <5>2. market[c] # "pending"
          BY <5>1 DEF DeliveryInv, Facts, StatusStands
        <5> QED
          BY <1>2, <4>1, <5>2 DEF Ends
      <4> QED
        BY <1>5, <4>2, <4>3, <4>4
    <3> QED
      BY <3>1, <3>2 DEF CloseIsTold
  <2> QED
    BY <1>7, <2>5, <2>6 DEF Facts
<1> QED
  BY <1>8, <1>9

(* An event is told: it goes behind what is already under way, or is lost.  *)
LEMMA TellInv == ASSUME DeliveryInv, NEW r \in Requests, Tell(r) PROVE Facts'
<1> DEFINE b == asked[r].booking
           kind == KindOf(r)
           e == Event(kind, b)
<1>1. /\ asked[r].at = "committed" /\ Moves(r, "done") /\ SystemTypeOK
      /\ Activates(r) \/ asked[r].to = "message" \/ Ends(r)
      /\ UNCHANGED <<vars, market, overwritten, overtaken>>
      /\ \/ pending' = Append(pending, e) /\ UNCHANGED lost
         \/ pending' = pending /\ lost' = lost \cup {b}
      /\ told' = IF kind = "message_user" THEN told ELSE [told EXCEPT ![b] = kind]
  BY DEF Tell, Path!Accept, Path!Refuse, Path!channel, DeliveryInv
<1>2. /\ e \in TheEvents /\ b \in Bookings
      /\ kind = "booking_activated" <=> Activates(r)
      /\ kind = "booking_cancelled" <=> Ends(r)
      /\ e.kind = kind /\ e.booking = b /\ kind \in Kinds
  BY <1>1, ToldEvent, AskedIs, EventIs DEF TheEvents
<1>3. \A c : (Started(c)' <=> Started(c)) /\ (Stopped(c)' <=> Stopped(c))
  BY <1>1, NothingCommitted
<1>4. \A q \in Requests : /\ asked'[q].booking = asked[q].booking
                          /\ asked'[q].from = asked[q].from
                          /\ asked'[q].to = asked[q].to
                          /\ asked'[q].at = "committed" <=> asked[q].at = "committed" /\ q # r
  BY <1>1, AskedMoves
<1>5. \A q \in Requests : (Activates(q)' <=> Activates(q)) /\ (Ends(q)' <=> Ends(q))
  BY <1>4 DEF Activates, Ends
<1>6. \A c : Untold(c)' = Untold(c) \ {r}
  BY <1>4 DEF Untold
<1>7. r \in Untold(b) /\ \A c : Untold(c) \subseteq Requests /\ (r \in Untold(c) => c = b)
  BY <1>1 DEF Untold
<1>8. Committed(e)
  BY <1>1, <1>2 DEF Committed, Started, Stopped, Done
<1>9. /\ \A c \in Bookings : c # b => told'[c] = told[c]
      /\ told'[b] = IF kind = "message_user" THEN told[b] ELSE kind
  BY <1>1, <1>2 DEF SystemTypeOK
<1> HIDE DEF kind, e, b
<1>10. WorkCommitted'
  BY <1>1, <1>3, WorkerSame DEF DeliveryInv, Facts, WorkCommitted
<1>11. StatusStands'
  BY <1>1, <1>3 DEF DeliveryInv, Facts, StatusStands
<1>12. CloseIsTold'
  <2> SUFFICES ASSUME NEW c \in Bookings \ (overwritten \cup overtaken), market[c] \in Closed
               PROVE  /\ \A q \in Untold(c)' : ~Activates(q)'
                      /\ told'[c] = "booking_activated" => \E q \in Untold(c)' : Ends(q)'
    BY <1>1 DEF CloseIsTold
  <2>1. /\ \A q \in Untold(c) : ~Activates(q)
        /\ told[c] = "booking_activated" => \E q \in Untold(c) : Ends(q)
    BY DEF DeliveryInv, Facts, CloseIsTold
  <2>2. \A q \in Untold(c)' : ~Activates(q)'
    BY <1>5, <1>6, <1>7, <2>1
  <2>3. CASE c # b
    BY <1>5, <1>6, <1>7, <1>9, <2>1, <2>2, <2>3
  <2>4. CASE c = b /\ kind = "message_user"
    <3>1. ~Ends(r)
      BY <1>2, <2>4
    <3> QED
      BY <1>5, <1>6, <1>7, <1>9, <2>1, <2>2, <2>4, <3>1
  <2>5. CASE c = b /\ kind # "message_user"
    <3>1. kind # "booking_activated"
      BY <1>2, <1>7, <2>1, <2>5
    <3> QED
      BY <1>9, <2>2, <2>5, <3>1
  <2> QED
    BY <2>3, <2>4, <2>5
<1>13. \A c \in Bookings : told'[c] = "booking_activated" => Started(c)'
  BY <1>2, <1>3, <1>8, <1>9 DEF DeliveryInv, Facts, EventsCommitted, Committed
<1>14. \A x : Committed(x) => Committed(x)'
  BY <1>3 DEF Committed
<1>15. CASE pending' = Append(pending, e) /\ UNCHANGED lost
  <2>1. /\ DOMAIN pending' = DOMAIN pending \cup {Len(pending) + 1}
        /\ pending'[Len(pending) + 1] = e
        /\ \A i \in DOMAIN pending : pending'[i] = pending[i] /\ i < Len(pending) + 1
        /\ Len(pending) \in Nat /\ DOMAIN pending \subseteq Nat
    BY <1>1, <1>2, <1>15, Appended, Positions DEF SystemTypeOK
  <2>2. EventsCommitted'
    BY <1>8, <1>13, <1>14, <2>1 DEF DeliveryInv, Facts, EventsCommitted
  <2>3. ASSUME NEW c \in Bookings \ lost
        PROVE  /\ \A i \in DOMAIN pending' : LastOf(i, c)' => pending'[i].kind = told'[c]
               /\ Quiet(c)' /\ harm[c] = {} /\ (Trace(c) \/ Activating(c)) =>
                      Cancelling(c) \/ told'[c] = "booking_activated"
    <3>1. /\ \A i \in DOMAIN pending : LastOf(i, c) => pending[i].kind = told[c]
          /\ Quiet(c) /\ harm[c] = {} /\ (Trace(c) \/ Activating(c)) =>
                 Cancelling(c) \/ told[c] = "booking_activated"
      BY DEF DeliveryInv, Facts, LastTold
    <3>2. CASE Concerns(e, c)
      <4>1. c = b /\ kind # "message_user" /\ told'[c] = e.kind
        BY <1>2, <1>9, <3>2 DEF Concerns
      <4>2. ~Quiet(c)'
        BY <2>1, <3>2 DEF Quiet, Concerns
      <4>3. \A i \in DOMAIN pending' : LastOf(i, c)' => i = Len(pending) + 1
        BY <2>1, <3>2 DEF LastOf, Concerns
      <4> QED
        BY <2>1, <4>1, <4>2, <4>3
    <3>3. CASE ~Concerns(e, c)
      <4>1. told'[c] = told[c]
        BY <1>2, <1>9, <3>3 DEF Concerns, Kinds
      <4>2. Quiet(c)' => Quiet(c)
        BY <2>1 DEF Quiet, Concerns
      <4>3. \A i \in DOMAIN pending' : LastOf(i, c)' => i \in DOMAIN pending /\ LastOf(i, c)
        BY <2>1, <3>3 DEF LastOf, Concerns
      <4> QED
        BY <2>1, <3>1, <4>1, <4>2, <4>3
    <3> QED
      BY <3>2, <3>3
  <2>4. LastTold'
    BY <1>1, <1>15, <2>3, WorkerSame DEF LastTold
  <2> QED
    BY <1>10, <1>11, <1>12, <2>2, <2>4 DEF Facts
<1>16. CASE pending' = pending /\ lost' = lost \cup {b}
  <2>1. EventsCommitted'
    BY <1>13, <1>14, <1>16 DEF DeliveryInv, Facts, EventsCommitted
  <2>2. \A c : (Quiet(c)' <=> Quiet(c)) /\ \A i : LastOf(i, c)' <=> LastOf(i, c)
    BY <1>16 DEF Quiet, LastOf, Concerns
  <2>3. LastTold'
    BY <1>1, <1>9, <1>16, <2>2, WorkerSame DEF DeliveryInv, Facts, LastTold
  <2> QED
    BY <1>10, <1>11, <1>12, <2>1, <2>3 DEF Facts
<1> QED
  BY <1>1, <1>15, <1>16

(* Events are lost from the end: a booking none of whose events was lost    *)
(* still has them all.                                                      *)
LEMMA LoseInv == ASSUME DeliveryInv, LoseSome PROVE Facts'
<1>1. /\ UNCHANGED <<vars, market, asked, overwritten, overtaken, told>>
      /\ lost' = lost \cup {pending[i].booking : i \in (Len(pending') + 1)..Len(pending)}
  BY DEF LoseSome, backend
<1>2. PICK n \in 0..Len(pending) : pending' = SubSeq(pending, 1, n)
  BY DEF LoseSome, Path!Lose
<1>3. /\ DOMAIN pending' = 1..n /\ Len(pending') = n
      /\ \A i \in 1..n : i \in DOMAIN pending /\ pending'[i] = pending[i]
      /\ DOMAIN pending = 1..Len(pending) /\ Len(pending) \in Nat
  BY <1>2, CutShort, Positions DEF DeliveryInv, SystemTypeOK
<1>4. \A c : (Started(c)' <=> Started(c)) /\ (Stopped(c)' <=> Stopped(c))
  BY <1>1 DEF Started, Stopped, Done, Activates, Ends
<1>5. EventsCommitted' /\ StatusStands'
  BY <1>1, <1>3, <1>4 DEF DeliveryInv, Facts, EventsCommitted, Committed, StatusStands
<1>6. WorkCommitted'
  BY <1>1, <1>4, WorkerSame DEF DeliveryInv, Facts, WorkCommitted
<1>7. CloseIsTold'
  BY <1>1 DEF DeliveryInv, Facts, CloseIsTold, Untold, Activates, Ends
<1>8. ASSUME NEW c \in Bookings \ lost'
      PROVE  /\ \A i \in DOMAIN pending' : LastOf(i, c)' => LastOf(i, c)
             /\ Quiet(c)' => Quiet(c)
  <2>1. \A i \in DOMAIN pending : Concerns(pending[i], c) => i \in 1..n
    <3>1. SUFFICES ASSUME NEW i \in DOMAIN pending, pending[i].booking = c, i \notin 1..n
                   PROVE  FALSE
      BY DEF Concerns
    <3>2. i \in (Len(pending') + 1)..Len(pending)
      BY <1>3, <3>1
    <3> QED
      BY <1>1, <1>8, <3>1, <3>2
  <2> QED
    BY <1>3, <2>1 DEF LastOf, Quiet
<1>9. LastTold'
  BY <1>1, <1>3, <1>8, WorkerSame DEF DeliveryInv, Facts, LastTold
<1> QED
  BY <1>5, <1>6, <1>7, <1>9 DEF Facts

(* The first event arrives and is taken up.  If it was the last of its      *)
(* booking, it is the last that was told.                                   *)
LEMMA DeliverInv == ASSUME DeliveryInv, Deliver PROVE Facts'
<1> DEFINE e == pending[1]
<1>1. /\ UNCHANGED <<market, asked, lost, overwritten, overtaken, told, sandboxes, rows, ports, harm>>
      /\ pending # <<>> /\ arrived' = Head(pending) /\ pending' = Tail(pending)
      /\ task = Waiting
      /\ task' = [step |-> FirstStep(arrived'.kind), booking |-> arrived'.booking]
  BY DEF Deliver, Path!Arrive, Dispatch, Goto, backend, history
<1>2. /\ arrived' = e /\ 1 \in DOMAIN pending
      /\ \A i \in DOMAIN pending' : i + 1 \in DOMAIN pending /\ pending'[i] = pending[i + 1]
      /\ \A i \in DOMAIN pending \ {1} : i - 1 \in DOMAIN pending' /\ pending'[i - 1] = pending[i]
      /\ pending' \in Seq(TheEvents)
  BY <1>1, Removed DEF DeliveryInv, SystemTypeOK
<1>3. DOMAIN pending \subseteq Nat /\ DOMAIN pending' \subseteq Nat
  BY <1>2, Positions DEF DeliveryInv, SystemTypeOK
<1>4. \A c : (Started(c)' <=> Started(c)) /\ (Stopped(c)' <=> Stopped(c))
  BY <1>1 DEF Started, Stopped, Done, Activates, Ends
<1>5. e \in TheEvents /\ Committed(e)
  BY <1>2, Positions DEF DeliveryInv, Facts, SystemTypeOK, EventsCommitted
<1>6. EventsCommitted' /\ StatusStands'
  BY <1>1, <1>2, <1>4 DEF DeliveryInv, Facts, EventsCommitted, Committed, StatusStands
<1>7. CloseIsTold'
  BY <1>1 DEF DeliveryInv, Facts, CloseIsTold, Untold, Activates, Ends
<1>8. ASSUME NEW b \in Bookings
      PROVE  /\ ~Activating(b) /\ ~Cancelling(b) /\ (Trace(b)' <=> Trace(b))
             /\ Activating(b)' <=> e.kind = "booking_activated" /\ e.booking = b
             /\ Cancelling(b)' <=> e.kind = "booking_cancelled" /\ e.booking = b
  <2>1. ~Activating(b) /\ ~Cancelling(b) /\ (Trace(b)' <=> Trace(b))
    BY <1>1 DEF Activating, Cancelling, At, Waiting, Trace
  <2>2. e.kind \in Kinds
    BY <1>5 DEF TheEvents
  <2>3. \A s : At(b, s)' <=> s = FirstStep(e.kind) /\ b = e.booking
    BY <1>1, <1>2 DEF At
  <2>4. /\ FirstStep(e.kind) \in {"start", "find", "route"}
        /\ FirstStep(e.kind) = "start" <=> e.kind = "booking_activated"
        /\ FirstStep(e.kind) = "find" <=> e.kind = "booking_cancelled"
    BY <2>2 DEF FirstStep, Kinds
  <2>5. Activating(b)' <=> e.kind = "booking_activated" /\ e.booking = b
    BY <2>3, <2>4 DEF Activating
  <2>6. Cancelling(b)' <=> e.kind = "booking_cancelled" /\ e.booking = b
    BY <2>3, <2>4 DEF Cancelling
  <2> QED
    BY <2>1, <2>5, <2>6
<1>9. WorkCommitted'
  BY <1>1, <1>4, <1>5, <1>8 DEF DeliveryInv, Facts, WorkCommitted, Committed
<1>10. ASSUME NEW b \in Bookings \ lost
       PROVE  /\ \A i \in DOMAIN pending' : LastOf(i, b)' => pending'[i].kind = told[b]
              /\ Quiet(b)' /\ harm[b] = {} /\ (Trace(b)' \/ Activating(b)') =>
                     Cancelling(b)' \/ told[b] = "booking_activated"
  <2>1. /\ \A i \in DOMAIN pending : LastOf(i, b) => pending[i].kind = told[b]
        /\ Quiet(b) /\ harm[b] = {} /\ Trace(b) => told[b] = "booking_activated"
    BY <1>8 DEF DeliveryInv, Facts, LastTold
  <2>2. ASSUME NEW i \in DOMAIN pending', LastOf(i, b)' PROVE LastOf(i + 1, b)
    <3>1. Concerns(pending[i + 1], b)
      BY <1>2, <2>2 DEF LastOf, Concerns
    <3>2. ASSUME NEW j \in DOMAIN pending, Concerns(pending[j], b), j # 1 PROVE j - 1 <= i
      BY <1>2, <2>2, <3>2 DEF LastOf, Concerns
    <3>3. \A j \in DOMAIN pending : Concerns(pending[j], b) => j <= i + 1
      BY <1>3, <2>2, <3>2
    <3> QED
      BY <3>1, <3>3 DEF LastOf
  <2>3. \A i \in DOMAIN pending' : LastOf(i, b)' => pending'[i].kind = told[b]
    BY <1>2, <2>1, <2>2
  <2>4. ASSUME Quiet(b)', harm[b] = {}, Trace(b)' \/ Activating(b)', ~Cancelling(b)'
        PROVE  told[b] = "booking_activated"
    <3>1. \A j \in DOMAIN pending \ {1} : ~Concerns(pending[j], b)
      BY <1>2, <2>4 DEF Quiet, Concerns
    <3>2. CASE Concerns(e, b)
      <4>1. e.kind = "booking_activated"
        BY <1>8, <2>4, <3>2 DEF Concerns
      <4>2. LastOf(1, b)
        BY <1>2, <1>3, <3>1, <3>2 DEF LastOf
      <4> QED
        BY <1>2, <2>1, <4>1, <4>2
    <3>3. CASE ~Concerns(e, b)
      <4>1. Quiet(b)
        BY <3>1, <3>3 DEF Quiet
      <4>2. ~Activating(b)'
        BY <1>8, <3>3 DEF Concerns
      <4> QED
        BY <1>8, <2>1, <2>4, <4>1, <4>2
    <3> QED
      BY <3>2, <3>3
  <2> QED
    BY <2>3, <2>4
<1>11. LastTold'
  BY <1>1, <1>10 DEF LastTold
<1> QED
  BY <1>6, <1>7, <1>9, <1>11 DEF Facts

LEMMA WorkerInv == ASSUME DeliveryInv, AgentInv', WorkerStep PROVE Facts'
<1>1. UNCHANGED <<market, asked, pending, lost, overwritten, overtaken, told>>
  BY DEF WorkerStep, backend, path, history
<1>2. \A c : (Started(c)' <=> Started(c)) /\ (Stopped(c)' <=> Stopped(c))
  BY <1>1 DEF Started, Stopped, Done, Activates, Ends
<1>3. EventsCommitted' /\ StatusStands'
  BY <1>1, <1>2 DEF DeliveryInv, Facts, EventsCommitted, Committed, StatusStands
<1>4. CloseIsTold'
  BY <1>1 DEF DeliveryInv, Facts, CloseIsTold, Untold, Activates, Ends
<1>5. ASSUME NEW b \in Bookings
      PROVE  /\ Trace(b)' \/ Activating(b)' => Trace(b) \/ Activating(b)
             /\ Cancelling(b)' => Cancelling(b)
             /\ rows'[b] = "cancelled" => rows[b] = "cancelled" \/ Cancelling(b)
             /\ harm'[b] = {} => harm[b] = {}
             /\ harm'[b] = {} /\ Cancelling(b) => Cancelling(b)' \/ ~(Trace(b)' \/ Activating(b)')
  BY WorkerMeans DEF DeliveryInv, WorkerStep
<1>6. WorkCommitted'
  BY <1>2, <1>5 DEF DeliveryInv, Facts, WorkCommitted
<1>7. \A b : (Quiet(b)' <=> Quiet(b)) /\ \A i : LastOf(i, b)' <=> LastOf(i, b)
  BY <1>1 DEF Quiet, LastOf, Concerns
<1>8. LastTold'
  BY <1>1, <1>5, <1>7 DEF DeliveryInv, Facts, LastTold
<1> QED
  BY <1>3, <1>4, <1>6, <1>8 DEF Facts

-----------------------------------------------------------------------------
(* The system as a whole                                                    *)

LEMMA SystemInitInv == SystemInit => DeliveryInv
<1> SUFFICES ASSUME SystemInit PROVE DeliveryInv
  OBVIOUS
<1>1. AgentInv
  BY InitAgent DEF SystemInit
<1>2. pending = <<>> /\ DOMAIN pending = {}
  BY DEF SystemInit, Path!Init
<1>3. \A r \in Requests : asked[r] = Idle /\ ~Done(r)
  BY DEF SystemInit, Done, Idle
<1>4. SystemTypeOK
  BY <1>2, <1>3 DEF SystemInit, SystemTypeOK, WellAsked, Statuses
<1>5. \A b : ~Started(b) /\ ~Stopped(b)
  BY <1>3 DEF Started, Stopped
<1>6. \A b \in Bookings : market[b] \notin Closed /\ told[b] = "none"
  BY DEF SystemInit, Closed
<1>7. \A b \in Bookings : ~Activating(b) /\ ~Cancelling(b) /\ ~Trace(b) /\ rows[b] # "cancelled"
  BY DEF SystemInit, Init, Activating, Cancelling, Trace, At, Waiting
<1> QED
  BY <1>1, <1>2, <1>4, <1>5, <1>6, <1>7
  DEF DeliveryInv, Facts, EventsCommitted, WorkCommitted, StatusStands, LastTold, CloseIsTold

LEMMA SystemStep == ASSUME DeliveryInv, [SystemNext]_all PROVE DeliveryInv'
<1>1. AgentInv' /\ SystemTypeOK'
  BY AgentAlone, SystemTypeStep DEF DeliveryInv
<1>2. CASE UNCHANGED all
  <2>1. UNCHANGED <<vars, market, asked, pending, lost, overwritten, overtaken, told>>
    BY <1>2 DEF all, backend, path, history
  <2>2. \A c : (Started(c)' <=> Started(c)) /\ (Stopped(c)' <=> Stopped(c))
    BY <2>1 DEF Started, Stopped, Done, Activates, Ends
  <2>3. EventsCommitted' /\ WorkCommitted' /\ LastTold'
    BY <2>1, <2>2, StillCommitted
  <2>4. StatusStands' /\ CloseIsTold'
    BY <2>1, <2>2 DEF DeliveryInv, Facts, StatusStands, CloseIsTold, Untold, Activates, Ends
  <2> QED
    BY <1>1, <2>3, <2>4 DEF DeliveryInv, Facts
<1>3. CASE SystemNext
  <2>1. Facts'
    BY <1>1, <1>3, CheckInv, SilentInv, CommitInv, TellInv, LoseInv, DeliverInv, WorkerInv
    DEF SystemNext, Telling
  <2> QED
    BY <1>1, <2>1 DEF DeliveryInv
<1> QED
  BY <1>2, <1>3

(* DeliveryInv holds through every check, commit, publish, loss, delivery   *)
(* and step of the worker.                                                  *)
THEOREM DeliveryInvariant == SystemSpec => []DeliveryInv
BY SystemInitInv, SystemStep, PTL DEF SystemSpec

(* The worker starts, keeps and marks cancelled only what transition_booking *)
(* has committed, however the commits wrote over each other.                *)
THEOREM WorkerAlwaysFollows == SystemSpec => []WorkerFollowsMarket
<1>1. DeliveryInv => WorkerFollowsMarket
  <2> SUFFICES ASSUME DeliveryInv, NEW b \in Bookings
               PROVE  /\ Trace(b) => market[b] # "pending" /\ Started(b)
                      /\ rows[b] = "cancelled" =>
                             Stopped(b) /\ (market[b] \in Closed \/ b \in overwritten)
    BY DEF WorkerFollowsMarket, Started, Stopped
  <2> QED
    BY DEF DeliveryInv, Facts, WorkCommitted, StatusStands
<1> QED
  BY <1>1, DeliveryInvariant, PTL

(* With nothing under way, what the worker has of a booking, none of whose  *)
(* events was lost and which met no failure, is what was told last of it;   *)
(* and it is active, unless a stale request wrote over its status or its    *)
(* close came before its activation was told.                               *)
THEOREM SettledAgrees == SystemSpec => []SettledRunsOnlyActive
<1>1. DeliveryInv => SettledRunsOnlyActive
  <2> SUFFICES ASSUME DeliveryInv, Settled, NEW b \in Bookings \ lost, harm[b] = {}, Trace(b)
               PROVE  /\ told[b] = "booking_activated"
                      /\ b \notin overwritten \cup overtaken => market[b] = "active"
    BY DEF SettledRunsOnlyActive
  <2>1. Quiet(b) /\ ~Cancelling(b)
    BY DEF Settled, Quiet, Cancelling, At, Waiting
  <2>2. told[b] = "booking_activated"
    BY <2>1 DEF DeliveryInv, Facts, LastTold
  <2>3. market[b] \in {"active"} \cup Closed
    BY DEF DeliveryInv, Facts, WorkCommitted, StatusStands, SystemTypeOK, Statuses
  <2>4. Untold(b) = {}
    BY DEF Settled, Untold
  <2>5. b \notin overwritten \cup overtaken => market[b] \notin Closed
    BY <2>2, <2>4 DEF DeliveryInv, Facts, CloseIsTold
  <2> QED
    BY <2>2, <2>3, <2>5
<1> QED
  BY <1>1, DeliveryInvariant, PTL

(* The worker at the end of the channel is a WorkerAgent: whatever is proved *)
(* of the daemon alone holds in the composed system.                        *)
THEOREM WorkerInSystem == SystemSpec => Spec
<1>1. SystemInit => Init
  BY DEF SystemInit
<1>2. ASSUME DeliveryInv, [SystemNext]_all PROVE [Next]_vars
  BY <1>2, AgentAlone DEF DeliveryInv
<1> QED
  BY <1>1, <1>2, DeliveryInvariant, PTL DEF SystemSpec, Spec

(* The path of the composed system is a LossyChannel, the promise that      *)
(* WorkerChannel is proved to keep.                                         *)
THEOREM ChannelInSystem == SystemSpec => Path!Spec
<1>1. SystemInit => Path!Init
  BY DEF SystemInit
<1>2. ASSUME DeliveryInv, [SystemNext]_all PROVE [Path!Next]_(Path!channel)
  <2>1. ASSUME NEW r \in Requests, NEW b, NEW to, Check(r, b, to) PROVE UNCHANGED Path!channel
    BY <2>1 DEF Check, path, Path!channel
  <2>2. ASSUME NEW r \in Requests, GiveUp(r) \/ Commit(r) \/ TellNobody(r)
        PROVE  UNCHANGED Path!channel
    BY <2>2 DEF GiveUp, Commit, TellNobody, path, Path!channel
  <2>3. ASSUME NEW r \in Requests, Tell(r) PROVE Path!Next
    <3> DEFINE e == Event(KindOf(r), asked[r].booking)
    <3>1. e \in [kind : Kinds, booking : Bookings]
      BY <1>2, <2>3, ToldEvent DEF Tell, DeliveryInv, TheEvents
    <3>2. Path!Accept(e) \/ Path!Refuse(e)
      BY <2>3 DEF Tell
    <3> QED
      BY <3>1, <3>2 DEF Path!Next
  <2>4. CASE LoseSome \/ Deliver
    BY <2>4 DEF LoseSome, Deliver, Path!Next
  <2>5. CASE WorkerStep \/ UNCHANGED all
    BY <2>5 DEF WorkerStep, all, path, Path!channel
  <2> QED
    BY <1>2, <2>1, <2>2, <2>3, <2>4, <2>5 DEF SystemNext, Telling
<1> QED
  BY <1>1, <1>2, DeliveryInvariant, PTL DEF SystemSpec, Path!Spec

-----------------------------------------------------------------------------
(* The model host                                                           *)

(* Only the last server spawned can be alive, and while the lock is held    *)
(* across a kill the state names none: the next one therefore finds the     *)
(* port free.                                                               *)
OnlyTheLast ==
    /\ \A i \in Alive : i = Len(servers)
    /\ holder # Free => current = NoServer

HostInv == HostTypeOK /\ NoStray /\ EntryIsNotKilled /\ OnlyTheLast

Server == [model : Catalog, state : {"up", "stuck", "dead"}]

-----------------------------------------------------------------------------
(* Nothing has been spawned. *)
LEMMA InitInv == HostInit => HostInv
<1> SUFFICES ASSUME HostInit PROVE HostInv
  OBVIOUS
<1>1. HostTypeOK
  BY CatalogAssumption DEF HostInit, HostTypeOK, Callers, Free, NoServer
<1>2. Alive = {}
  BY DEF HostInit, Alive
<1> QED
  BY <1>1, <1>2 DEF HostInit, HostInv, NoStray, EntryIsNotKilled, OnlyTheLast, Free

(* What Launch leaves, when the port is free. *)
LEMMA LaunchEffect ==
    ASSUME HostTypeOK, Alive = {}, current = NoServer, NEW c \in Callers,
           call[c].model \in Catalog, Launch(c)
    PROVE  /\ servers' \in Seq(Server) /\ noStarts' \in Nat
           /\ current' \in {NoServer, Len(servers')}
           /\ current' \notin signalled
           /\ signalled \subseteq DOMAIN servers'
           /\ \A i \in Alive' : i = Len(servers') /\ i = current'
           /\ noStarts' = noStarts =>
                 current' # NoServer /\ servers'[current'].model = call[c].model
<1>0. servers \in Seq(Server) /\ noStarts \in Nat /\ signalled \subseteq DOMAIN servers
  BY DEF HostTypeOK, Server
<1>1. CASE /\ servers' = Append(servers, Spawned(call[c].model))
           /\ current' = Len(servers') /\ UNCHANGED noStarts
  <2> DEFINE s == Spawned(call[c].model)
  <2>1. s \in Server /\ s.model = call[c].model
    BY DEF Spawned, Server
  <2> HIDE DEF s
  <2>2. /\ servers' \in Seq(Server)
        /\ Len(servers') = Len(servers) + 1
        /\ servers'[Len(servers) + 1] = s
        /\ \A i \in 1..Len(servers) : servers'[i] = servers[i]
        /\ DOMAIN servers' = 1..(Len(servers) + 1) /\ DOMAIN servers = 1..Len(servers)
        /\ Len(servers) \in Nat
    BY <1>0, <1>1, <2>1 DEF s
  <2>3. \A i \in Alive' : i = Len(servers')
    BY <2>2 DEF Alive
  <2> QED
    BY <1>0, <1>1, <2>1, <2>2, <2>3 DEF NoServer
<1>2. CASE noStarts' = noStarts + 1 /\ UNCHANGED <<servers, current>>
  BY <1>0, <1>2 DEF HostTypeOK, Alive, NoServer
<1> QED
  BY <1>1, <1>2 DEF Launch

(* Free of the lock, a host without an entry has no server at all. *)
LEMMA FreeAndEmpty ==
    ASSUME HostInv, holder = Free, current = NoServer
    PROVE  Alive = {}
BY DEF HostInv, HostTypeOK, NoStray, Alive, NoServer

-----------------------------------------------------------------------------
LEMMA ActivatedInv == ASSUME HostInv, NEW m \in Catalog \cup UnknownIds, Activated(m)
                      PROVE  HostInv'
<1>1. HostTypeOK'
  BY DEF HostInv, HostTypeOK, Activated, Known, Callers
<1> QED
  BY <1>1 DEF HostInv, NoStray, EntryIsNotKilled, OnlyTheLast, Alive, Activated

LEMMA WarmUpInv == ASSUME HostInv, WarmUp PROVE HostInv'
<1>1. HostTypeOK'
  BY CatalogAssumption DEF HostInv, HostTypeOK, WarmUp, Goes, Callers
<1> QED
  BY <1>1 DEF HostInv, NoStray, EntryIsNotKilled, OnlyTheLast, Alive, WarmUp

(* A step of the lock that ends a call keeps the types of the callers. *)
LEMMA GoesType ==
    ASSUME HostTypeOK, NEW c \in Callers, call[c].at # "idle",
           NEW to \in {"idle", "killing"}, Goes(c, to),
           holder' \in Callers \cup {Free},
           \A d \in Callers : holder' = d <=> call'[d].at = "killing"
    PROVE  /\ call' \in [Callers -> [at : {"starting", "idle", "waiting", "killing"},
                                     model : Catalog \cup UnknownIds]]
           /\ \A d \in Callers :
                /\ call'[d].at # "idle" => call'[d].model \in Catalog
                /\ call'[d].at = "killing" <=> holder' = d
BY DEF HostTypeOK, Goes

LEMMA TakeLockInv == ASSUME HostInv, NEW c \in Callers, TakeLock(c) PROVE HostInv'
<1> USE DEF HostInv
<1>1. /\ call[c].at = "waiting" /\ holder = Free /\ holder' = Free
      /\ Goes(c, "idle") /\ call[c].model \in Catalog
      /\ signalled' = signalled /\ loads' = loads /\ deaths' = deaths
  BY DEF TakeLock, HostTypeOK
<1>2. \A d \in Callers : holder' = d <=> call'[d].at = "killing"
  BY <1>1 DEF HostTypeOK, Goes, Callers, Free
<1>3. /\ call' \in [Callers -> [at : {"starting", "idle", "waiting", "killing"},
                                model : Catalog \cup UnknownIds]]
      /\ \A d \in Callers :
           /\ call'[d].at # "idle" => call'[d].model \in Catalog
           /\ call'[d].at = "killing" <=> holder' = d
  BY <1>1, <1>2, GoesType
<1>4. CASE IsCurrent(call[c].model)
  <2>1. UNCHANGED <<servers, current, noStarts>>
    BY <1>4 DEF TakeLock
  <2>2. HostTypeOK'
    BY <1>1, <1>3, <2>1 DEF HostTypeOK
  <2> QED
    BY <1>1, <2>1, <2>2 DEF NoStray, EntryIsNotKilled, OnlyTheLast, Alive
<1>5. CASE ~IsCurrent(call[c].model)
  <2>1. current = NoServer /\ Launch(c)
    BY <1>5 DEF TakeLock
  <2>2. Alive = {}
    BY <1>1, <2>1, FreeAndEmpty
  <2>3. /\ servers' \in Seq(Server) /\ noStarts' \in Nat
        /\ current' \in {NoServer, Len(servers')} /\ current' \notin signalled
        /\ signalled \subseteq DOMAIN servers'
        /\ \A i \in Alive' : i = Len(servers') /\ i = current'
    BY <1>1, <2>1, <2>2, LaunchEffect
  <2>4. HostTypeOK'
    BY <1>1, <1>3, <2>3 DEF HostTypeOK, Server
  <2> QED
    BY <1>1, <2>3, <2>4 DEF NoStray, EntryIsNotKilled, OnlyTheLast
<1> QED
  BY <1>4, <1>5

LEMMA TakeAndKillInv == ASSUME HostInv, NEW c \in Callers, TakeAndKill(c) PROVE HostInv'
<1> USE DEF HostInv
<1>1. /\ call[c].at = "waiting" /\ holder = Free /\ holder' = c /\ Goes(c, "killing")
      /\ current = Len(servers) /\ current # NoServer /\ current' = NoServer
      /\ signalled' = signalled \cup {current}
      /\ UNCHANGED <<servers, loads, deaths, noStarts>>
  BY DEF TakeAndKill, HostTypeOK, Killed, TakenOut
<1>2. \A d \in Callers : holder' = d <=> call'[d].at = "killing"
  BY <1>1 DEF HostTypeOK, Goes, Callers, Free
<1>3. /\ call' \in [Callers -> [at : {"starting", "idle", "waiting", "killing"},
                                model : Catalog \cup UnknownIds]]
      /\ \A d \in Callers :
           /\ call'[d].at # "idle" => call'[d].model \in Catalog
           /\ call'[d].at = "killing" <=> holder' = d
  BY <1>1, <1>2, GoesType
<1>4. current \in DOMAIN servers
  BY <1>1 DEF HostTypeOK, NoServer
<1>5. HostTypeOK'
  BY <1>1, <1>3, <1>4 DEF HostTypeOK
<1>6. NoStray' /\ OnlyTheLast'
  BY <1>1 DEF NoStray, OnlyTheLast, Alive, Callers, Free
<1>7. EntryIsNotKilled'
  BY <1>1, <1>5 DEF EntryIsNotKilled, HostTypeOK, NoServer
<1> QED
  BY <1>5, <1>6, <1>7

LEMMA ReplaceInv == ASSUME HostInv, NEW c \in Callers, Replace(c) PROVE HostInv'
<1> USE DEF HostInv
<1>1. /\ call[c].at = "killing" /\ holder = c /\ holder' = Free /\ Goes(c, "idle")
      /\ call[c].model \in Catalog /\ Launch(c)
      /\ signalled' = signalled /\ loads' = loads /\ deaths' = deaths
  BY DEF Replace, HostTypeOK
<1>2. current = NoServer
  BY <1>1 DEF OnlyTheLast, Callers, Free
<1>3. Alive = {}
  BY DEF Replace, OldIsGone, OnlyTheLast, Alive
<1>4. \A d \in Callers : holder' = d <=> call'[d].at = "killing"
  BY <1>1 DEF HostTypeOK, Goes, Callers, Free
<1>5. /\ call' \in [Callers -> [at : {"starting", "idle", "waiting", "killing"},
                                model : Catalog \cup UnknownIds]]
      /\ \A d \in Callers :
           /\ call'[d].at # "idle" => call'[d].model \in Catalog
           /\ call'[d].at = "killing" <=> holder' = d
  BY <1>1, <1>4, GoesType
<1>6. /\ servers' \in Seq(Server) /\ noStarts' \in Nat
      /\ current' \in {NoServer, Len(servers')} /\ current' \notin signalled
      /\ signalled \subseteq DOMAIN servers'
      /\ \A i \in Alive' : i = Len(servers') /\ i = current'
  BY <1>1, <1>2, <1>3, LaunchEffect
<1>7. HostTypeOK'
  BY <1>1, <1>5, <1>6 DEF HostTypeOK, Server
<1> QED
  BY <1>1, <1>6, <1>7 DEF NoStray, EntryIsNotKilled, OnlyTheLast

(* A server that ends or fails changes nothing the invariant says of the    *)
(* others.                                                                  *)
LEMMA ServerChanges ==
    ASSUME HostInv, NEW i \in DOMAIN servers, servers[i].state # "dead",
           NEW how \in {"dead", "stuck"},
           servers' = [servers EXCEPT ![i].state = how], deaths' \in Nat,
           UNCHANGED <<call, holder, current, signalled, loads, noStarts>>
    PROVE  HostInv'
<1> USE DEF HostInv
<1>1. /\ servers' \in Seq(Server) /\ DOMAIN servers' = DOMAIN servers
      /\ Len(servers') = Len(servers)
      /\ \A k \in DOMAIN servers : k # i => servers'[k] = servers[k]
  <2>1. servers \in Seq(Server)
    BY DEF HostTypeOK, Server
  <2>0. servers[i] \in Server
    BY <2>1
  <2>2. [servers[i] EXCEPT !.state = how] \in Server
    BY <2>0 DEF Server
  <2>3. servers' = [servers EXCEPT ![i] = [servers[i] EXCEPT !.state = how]]
    BY <2>1
  <2> QED
    BY <2>1, <2>2, <2>3
<1>2. HostTypeOK'
  BY <1>1 DEF HostTypeOK, Server
<1>3. Alive' \subseteq Alive
  BY <1>1 DEF Alive
<1> QED
  BY <1>1, <1>2, <1>3 DEF NoStray, EntryIsNotKilled, OnlyTheLast

LEMMA StepInv == ASSUME HostInv, [HostNext]_hostVars PROVE HostInv'
<1>1. ASSUME NEW c \in Callers, Load(c) PROVE HostInv'
  BY <1>1, TakeLockInv, TakeAndKillInv, ReplaceInv DEF Load
<1>2. ASSUME NEW i \in DOMAIN servers, Obeys(i) PROVE HostInv'
  BY <1>2, ServerChanges DEF Obeys, HostInv, HostTypeOK
<1>3. ASSUME NEW i \in DOMAIN servers, NEW how \in {"dead", "stuck"}, Fails(i, how)
      PROVE  HostInv'
  <2>1. deaths' \in Nat /\ servers[i].state # "dead"
    BY <1>3 DEF Fails, HostInv, HostTypeOK
  <2> QED
    BY <1>3, <2>1, ServerChanges DEF Fails
<1>4. CASE UNCHANGED hostVars
  BY <1>4 DEF hostVars, HostInv, HostTypeOK, NoStray, EntryIsNotKilled, OnlyTheLast, Alive
<1> QED
  BY <1>1, <1>2, <1>3, <1>4, ActivatedInv, WarmUpInv DEF HostNext, Dying

(* The invariant, by induction over the steps of ensure_loaded and of the   *)
(* servers (inference/mod.rs).                                              *)
THEOREM HostInvariant == HostSpec => []HostInv
BY InitInv, StepInv, PTL DEF HostSpec

(* The state of the host always has its types. *)
(* The state of the host keeps its types. *)
THEOREM HostTypeCorrect == HostSpec => []HostTypeOK
<1>1. HostInv => HostTypeOK
  BY DEF HostInv
<1> QED
  BY <1>1, HostInvariant, PTL

(* Whatever is alive is the server the state names or the one the holder of *)
(* the lock is waiting for, and the state never names one that was killed.  *)
(* Whatever is alive is the entry, or the server the holder of the lock is  *)
(* waiting for, and the entry is never one the host has killed.             *)
THEOREM OneServerAlways == HostSpec => []OneServer
<1>1. HostInv => OneServer
  BY DEF HostInv, OneServer
<1> QED
  BY <1>1, HostInvariant, PTL

-----------------------------------------------------------------------------
(* Answers *)

(* A call that returns without an error leaves its own model current.       *)
LEMMA AnswerStep ==
    ASSUME HostInv, [HostNext]_hostVars, NEW c \in Callers,
           call[c].at \in {"waiting", "killing"}, call'[c].at = "idle", noStarts' = noStarts
    PROVE  current' # NoServer /\ servers'[current'].model = call[c].model
<1> DEFINE Answered == current' # NoServer /\ servers'[current'].model = call[c].model
<1> USE DEF HostInv
<1>1. ASSUME NEW d \in Callers, TakeLock(d) PROVE Answered
  <2>1. d = c
    BY <1>1 DEF TakeLock, Goes, HostTypeOK
  <2>2. CASE IsCurrent(call[c].model)
    BY <1>1, <2>1, <2>2 DEF TakeLock, IsCurrent
  <2>3. CASE ~IsCurrent(call[c].model)
    <3>1. current = NoServer /\ holder = Free /\ Launch(c) /\ call[c].model \in Catalog
      BY <1>1, <2>1, <2>3 DEF TakeLock, HostTypeOK
    <3> QED
      BY <3>1, FreeAndEmpty, LaunchEffect
  <2> QED
    BY <2>2, <2>3
<1>2. ASSUME NEW d \in Callers, TakeAndKill(d) PROVE FALSE
  BY <1>2 DEF TakeAndKill, Goes, HostTypeOK
<1>3. ASSUME NEW d \in Callers, Replace(d) PROVE Answered
  <2>1. d = c
    BY <1>3 DEF Replace, Goes, HostTypeOK
  <2>2. /\ current = NoServer /\ Alive = {} /\ Launch(c) /\ call[c].model \in Catalog
    BY <1>3, <2>1 DEF Replace, OldIsGone, OnlyTheLast, Alive, HostTypeOK, Callers, Free
  <2> QED
    BY <2>2, LaunchEffect
<1>4. ASSUME NEW m \in Catalog \cup UnknownIds, Activated(m) PROVE FALSE
  BY <1>4 DEF Activated, HostTypeOK, Callers
<1>5. ASSUME WarmUp PROVE FALSE
  BY <1>5 DEF WarmUp, Goes, HostTypeOK, Callers
<1>6. ASSUME Dying \/ (\E i \in DOMAIN servers, how \in {"dead", "stuck"} : Fails(i, how))
             \/ UNCHANGED hostVars
      PROVE  FALSE
  BY <1>6 DEF Dying, Obeys, Fails, hostVars
<1> QED
  BY <1>1, <1>2, <1>3, <1>4, <1>5, <1>6 DEF HostNext, Load

(* Nobody is answered by the server of the other caller. *)
(* A call that ends, other than in a failed start, leaves the model it      *)
(* asked for as the entry, whoever else is loading.                         *)
THEOREM AnsweredByOwnModel == HostSpec => AnsweredByItsModel
<1>1. HostInv /\ [HostNext]_hostVars =>
        [\A c \in Callers :
           (call[c].at \in {"waiting", "killing"} /\ call'[c].at = "idle"
              /\ noStarts' = noStarts)
             => current' # NoServer /\ servers'[current'].model = call[c].model]_hostVars
  BY AnswerStep
<1> QED
  BY <1>1, HostInvariant, PTL DEF HostSpec, AnsweredByItsModel
=============================================================================
