------------------------------ MODULE WorkerAgent ------------------------------
(***************************************************************************)
(* The worker daemon's handling of booking events:                         *)
(* worker/src/booking/mod.rs over state.rs (SQLite) and the sandbox        *)
(* backends container.rs and lima.rs.                                      *)
(*                                                                         *)
(* Events are handled one at a time, each in several steps with effects of *)
(* their own: the container runtime, the table of ports (in memory) and    *)
(* the row (on disk).  The daemon may be killed between any two.  Which    *)
(* event comes next is left open here, so that what holds is true for      *)
(* repeated, reordered and missing events.                                 *)
(***************************************************************************)
EXTENDS Naturals, FiniteSets

CONSTANTS
    Bookings,       \* ids of bookings
    MaxRestarts     \* bound: restarts of the daemon

ASSUME AgentAssumption == MaxRestarts \in Nat

VARIABLES
    sandboxes,      \* bookings whose container runs, under the name of the booking
    rows,           \* table bookings of SQLite: booking => status
    ports,          \* sandbox_ports: bookings whose port is known
    task,           \* the event in hand and the step it is at
    restarts,
    harm            \* history: booking => the failures that touched it

vars == <<sandboxes, rows, ports, task, restarts, harm>>

Kinds == {"booking_activated", "booking_cancelled", "message_user"}

Waiting == [step |-> "waiting", booking |-> "none"]

Init ==
    /\ sandboxes = {}
    /\ rows = [b \in Bookings |-> "absent"]
    /\ ports = {}
    /\ task = Waiting
    /\ restarts = 0
    /\ harm = [b \in Bookings |-> {}]

At(b, step) == task = [step |-> step, booking |-> b]
Goto(b, step) == task' = [step |-> step, booking |-> b]
Finish == task' = Waiting
Hurt(b, failure) == harm' = [harm EXCEPT ![b] = @ \cup {failure}]

FirstStep(kind) ==
    CASE kind = "booking_activated" -> "start"
      [] kind = "booking_cancelled" -> "find"
      [] kind = "message_user" -> "route"

(* dispatch; a model that cannot be loaded does not stop an activation. *)
Dispatch(kind, b) ==
    /\ task = Waiting
    /\ Goto(b, FirstStep(kind))
    /\ UNCHANGED <<sandboxes, rows, ports, restarts, harm>>

-----------------------------------------------------------------------------
(* BookingActivated *)

RememberFirst(b) ==                 \* mutant: the port is kept before the start
    /\ At(b, "start")
    /\ b \notin sandboxes
    /\ sandboxes' \in {sandboxes, sandboxes \cup {b}}
    /\ ports' = ports \cup {b}
    /\ IF b \in sandboxes' THEN Goto(b, "save") ELSE Finish
    /\ UNCHANGED <<rows, restarts, harm>>

(* run -d --name: the name is the booking's, so a second sandbox for the    *)
(* same booking is refused.                                                 *)
StartSandbox(b) ==
    /\ At(b, "start")
    /\ b \notin sandboxes
    /\ sandboxes' = sandboxes \cup {b}
    /\ Goto(b, "remember")
    /\ UNCHANGED <<rows, ports, restarts, harm>>

(* The error leaves dispatch: there is no port and no row. *)
StartFails(b) ==
    /\ At(b, "start")
    /\ Finish
    /\ UNCHANGED <<sandboxes, rows, ports, restarts, harm>>

(* The same, cut off after the runtime had started the container. *)
StartHalfDone(b) ==
    /\ At(b, "start")
    /\ sandboxes' = sandboxes \cup {b}
    /\ Hurt(b, "runtime")
    /\ Finish
    /\ UNCHANGED <<rows, ports, restarts>>

RememberPort(b) ==
    /\ At(b, "remember")
    /\ ports' = ports \cup {b}
    /\ Goto(b, "save")
    /\ UNCHANGED <<sandboxes, rows, restarts, harm>>

SaveKeepsOld(b) ==                  \* mutant: does nothing on a conflict of ids
    /\ At(b, "save")
    /\ rows' = [rows EXCEPT ![b] = IF @ = "absent" THEN "active" ELSE @]
    /\ Finish
    /\ UNCHANGED <<sandboxes, ports, restarts, harm>>

(* upsert_booking: the row of an earlier life of the booking is replaced.   *)
SaveRow(b) ==
    /\ At(b, "save")
    /\ rows' = [rows EXCEPT ![b] = "active"]
    /\ Finish
    /\ UNCHANGED <<sandboxes, ports, restarts, harm>>

-----------------------------------------------------------------------------
(* BookingCancelled, under the lock of the state *)

FindRow(b) ==
    /\ At(b, "find")
    /\ Goto(b, IF rows[b] = "active" THEN "stop" ELSE "forget")
    /\ UNCHANGED <<sandboxes, rows, ports, restarts, harm>>

StopSandbox(b) ==
    /\ At(b, "stop")
    /\ sandboxes' = sandboxes \ {b}
    /\ Goto(b, "mark")
    /\ UNCHANGED <<rows, ports, restarts, harm>>

(* The runtime is asked and says no: a warning, and stop returns Ok.        *)
StopRefused(b) ==
    /\ At(b, "stop")
    /\ Hurt(b, "runtime")
    /\ Goto(b, "mark")
    /\ UNCHANGED <<sandboxes, rows, ports, restarts>>

(* The runtime cannot be asked to stop, or then to remove, the container:   *)
(* the error leaves dispatch.                                               *)
StopErrs(b) ==
    /\ At(b, "stop")
    /\ sandboxes' \in {sandboxes, sandboxes \ {b}}
    /\ Hurt(b, "runtime")
    /\ Finish
    /\ UNCHANGED <<rows, ports, restarts>>

MarkMisspelt(b) ==                  \* mutant: another spelling of the status
    /\ At(b, "mark")
    /\ rows' = [rows EXCEPT ![b] = "canceled"]
    /\ Goto(b, "forget")
    /\ UNCHANGED <<sandboxes, ports, restarts, harm>>

MarkRow(b) ==
    /\ At(b, "mark")
    /\ rows' = [rows EXCEPT ![b] = "cancelled"]
    /\ Goto(b, "forget")
    /\ UNCHANGED <<sandboxes, ports, restarts, harm>>

ForgetNothing(b) ==                 \* mutant: the port stays
    /\ At(b, "forget")
    /\ Finish
    /\ UNCHANGED <<sandboxes, rows, ports, restarts, harm>>

ForgetPort(b) ==
    /\ At(b, "forget")
    /\ ports' = ports \ {b}
    /\ Finish
    /\ UNCHANGED <<sandboxes, rows, restarts, harm>>

(* list_active_bookings or upsert_booking fails: the error leaves dispatch. *)
SqlFails(b) ==
    /\ At(b, "find") \/ At(b, "save") \/ At(b, "mark")
    /\ Hurt(b, "sql")
    /\ Finish
    /\ UNCHANGED <<sandboxes, rows, ports, restarts>>

-----------------------------------------------------------------------------
(* MessageUser: relay_message *)

(* Without a port the message is only logged. *)
Route(b) ==
    /\ At(b, "route")
    /\ IF b \in ports THEN Goto(b, "chat") ELSE Finish
    /\ UNCHANGED <<sandboxes, rows, ports, restarts, harm>>

(* The sandbox replies, or does not within the 30 seconds of the client:    *)
(* the reply, or an error in its place, is posted.                          *)
Chat(b) ==
    /\ At(b, "chat")
    /\ Finish
    /\ UNCHANGED <<sandboxes, rows, ports, restarts, harm>>

-----------------------------------------------------------------------------
(* The daemon is killed and started again: the row and the containers stay. *)
Restart ==
    /\ restarts < MaxRestarts
    /\ restarts' = restarts + 1
    /\ task' = Waiting
    /\ ports' = {}
    /\ harm' = [b \in Bookings |-> IF b \in sandboxes \/ b = task.booking
                                   THEN harm[b] \cup {"restart"} ELSE harm[b]]
    /\ UNCHANGED <<sandboxes, rows>>

HandlerStep(b) ==
    \/ StartSandbox(b) \/ StartFails(b) \/ StartHalfDone(b)
    \/ RememberPort(b) \/ SaveRow(b)
    \/ FindRow(b) \/ StopSandbox(b) \/ StopRefused(b) \/ StopErrs(b)
    \/ MarkRow(b) \/ ForgetPort(b) \/ SqlFails(b)
    \/ Route(b) \/ Chat(b)

Next ==
    \/ \E kind \in Kinds, b \in Bookings : Dispatch(kind, b)
    \/ \E b \in Bookings : HandlerStep(b)
    \/ Restart

Spec == Init /\ [][Next]_vars

-----------------------------------------------------------------------------
(* Correctness *)

Steps == {"start", "remember", "save", "find", "stop", "mark", "forget", "route", "chat"}

(* Every variable has its type.                                             *)
TypeOK ==
    /\ sandboxes \subseteq Bookings
    /\ rows \in [Bookings -> {"absent", "active", "cancelled"}]
    /\ ports \subseteq Bookings
    /\ task \in {Waiting} \cup [step : Steps, booking : Bookings]
    /\ restarts \in 0..MaxRestarts
    /\ harm \in [Bookings -> SUBSET {"runtime", "sql", "restart"}]

(* Between two events the three records of a booking that met no failure    *)
(* agree, whatever events came, in whatever order, and whatever happened to *)
(* others: its sandbox runs, its row is active and its port is known, or    *)
(* none of the three.                                                       *)
RecordsAgree ==
    task = Waiting =>
        \A b \in Bookings : harm[b] = {} =>
            /\ b \in sandboxes <=> rows[b] = "active"
            /\ b \in sandboxes <=> b \in ports

(* A known port belongs to a sandbox that runs, up to the cancellation in   *)
(* hand, or its row is still active, so that another cancellation clears    *)
(* it: also when starts, stops and writes fail and the daemon is restarted. *)
PortsAreServed ==
    \A b \in ports : b \in sandboxes \/ rows[b] = "active" \/ At(b, "forget")

(* A message is relayed only for a booking whose row is active, whatever    *)
(* starts and stops fail and when the daemon restarts, unless SQLite failed.*)
RelayedWhileActive ==
    \A b \in Bookings : At(b, "chat") => rows[b] = "active" \/ "sql" \in harm[b]

(* booking/mod.rs:23-24: a cancellation handled to its end has stopped the  *)
(* sandbox of a booking that met no failure, however often the booking was  *)
(* activated and cancelled before.                                          *)
CancelStops ==
    [][\A b \in Bookings :
        At(b, "forget") /\ harm'[b] = {} /\ task' = Waiting => b \notin sandboxes']_vars

=============================================================================
