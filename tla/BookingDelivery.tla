---------------------------- MODULE BookingDelivery ----------------------------
(***************************************************************************)
(* From a transition to the sandbox: the requests of the backend (what they *)
(* do to the status; BookingSettlement has the race with the chain), the   *)
(* LossyChannel that WorkerChannel implements, and WorkerAgent at its end. *)
(*                                                                         *)
(* A request checks the status, awaits (the parties, a lock in escrow),    *)
(* commits over whatever the status has become, awaits again (a settlement,*)
(* the worker's row) and only then publishes: so neither the commits nor   *)
(* the events need come in the order of the checks, or of each other.      *)
(***************************************************************************)
EXTENDS WorkerAgent, Sequences

CONSTANT
    Requests        \* transitions and messages asked for: each is served once

VARIABLES
    market,         \* table bookings of the backend: booking => status
    asked,          \* the coroutine of each request
    pending,        \* the channel
    arrived,        \* the event that arrived last
    lost,           \* history: bookings an event of which was lost
    overwritten,    \* history: bookings a commit of which was over another status
    overtaken,      \* history: bookings closed before their activation was told
    told            \* history: booking => the last start or stop told of it

backend == <<market, asked>>
path == <<pending, arrived>>
history == <<lost, overwritten, overtaken, told>>
all == <<vars, backend, path, history>>

Event(kind, b) == [kind |-> kind, booking |-> b]

NoEvent == Event("none", "none")

Path == INSTANCE LossyChannel WITH Events <- [kind : Kinds, booking : Bookings]

Closed == {"completed", "cancelled"}

Idle == [at |-> "idle", booking |-> "none", from |-> "none", to |-> "none"]

SystemInit ==
    /\ Init
    /\ market = [b \in Bookings |-> "pending"]
    /\ asked = [r \in Requests |-> Idle]
    /\ Path!Init
    /\ lost = {} /\ overwritten = {} /\ overtaken = {}
    /\ told = [b \in Bookings |-> "none"]

-----------------------------------------------------------------------------
(* The backend *)

(* What may be asked of a booking: a transition, or a message to it.        *)
Allowed(status) ==
    CASE status = "pending" -> {"active", "cancelled"}
      [] status = "active" -> Closed \cup {"message"}
      [] OTHER -> {}

Moves(r, at) == asked' = [asked EXCEPT ![r].at = at]

(* The status is read, and looked at this once. *)
Check(r, b, to) ==
    /\ asked[r].at = "idle"
    /\ to \in Allowed(market[b])
    /\ asked' = [asked EXCEPT ![r] = [at |-> "checked", booking |-> b,
                                      from |-> market[b], to |-> to]]
    /\ UNCHANGED <<vars, market, path, history>>

(* The lock is refused (402), or the backend restarts: nothing is committed. *)
GiveUp(r) ==
    /\ asked[r].at = "checked"
    /\ Moves(r, "refused")
    /\ UNCHANGED <<vars, market, path, history>>

Activates(r) == asked[r].to = "active"

(* The request closes a booking it saw active. *)
Ends(r) == asked[r].from = "active" /\ asked[r].to \in Closed

(* Requests that committed and have not published. *)
Untold(b) == {r \in Requests : asked[r].booking = b /\ asked[r].at = "committed"}

NeverCommits(r) ==                  \* mutant: told without having been committed
    /\ asked[r].at = "checked"
    /\ Moves(r, "committed")
    /\ UNCHANGED <<vars, market, path, history>>

(* A message leaves the booking alone; a transition writes its status, over *)
(* whatever it has become.                                                  *)
Commit(r) ==
    LET b == asked[r].booking
        to == asked[r].to
    IN /\ asked[r].at = "checked"
       /\ Moves(r, "committed")
       /\ IF to = "message" THEN UNCHANGED <<market, overwritten, overtaken>>
          ELSE /\ market' = [market EXCEPT ![b] = to]
               /\ overwritten' = overwritten \cup {c \in {b} : market[c] # asked[r].from}
               /\ overtaken' = overtaken \cup
                    {c \in {b} : to \in Closed /\ \E q \in Untold(c) : Activates(q)}
       /\ UNCHANGED <<vars, path, lost, told>>

KindOf(r) ==
    CASE Activates(r) -> "booking_activated"
      [] asked[r].to = "message" -> "message_user"
      [] OTHER -> "booking_cancelled"

(* A booking cancelled by somebody who saw it pending: nobody is told.      *)
TellNobody(r) ==
    /\ asked[r].at = "committed"
    /\ asked[r].to \in Closed /\ ~Ends(r)
    /\ Moves(r, "done")
    /\ UNCHANGED <<vars, market, path, history>>

TellsCancelOnly(r) ==               \* mutant: a completion is not told
    /\ asked[r].at = "committed"
    /\ Activates(r) \/ asked[r].to \in {"message", "cancelled"}
    /\ Moves(r, "done")
    /\ Path!Accept(Event(KindOf(r), asked[r].booking))
    /\ UNCHANGED <<vars, market, lost, overwritten, overtaken, told>>

(* publish: it is accepted, or nobody is subscribed, the queue is full, or   *)
(* the backend was killed before it came to it.                             *)
(* A completion and a cancellation are told alike.                          *)
Tell(r) ==
    LET b == asked[r].booking
        kind == KindOf(r)
    IN /\ asked[r].at = "committed"
       /\ Activates(r) \/ asked[r].to = "message" \/ Ends(r)
       /\ Moves(r, "done")
       /\ \/ Path!Accept(Event(kind, b)) /\ UNCHANGED lost
          \/ Path!Refuse(Event(kind, b)) /\ lost' = lost \cup {b}
       /\ told' = IF kind = "message_user" THEN told ELSE [told EXCEPT ![b] = kind]
       /\ UNCHANGED <<vars, market, overwritten, overtaken>>

-----------------------------------------------------------------------------
(* The channel and the worker *)

LoseSome ==
    /\ Path!Lose
    /\ lost' = lost \cup {pending[i].booking : i \in (Len(pending') + 1)..Len(pending)}
    /\ UNCHANGED <<vars, backend, overwritten, overtaken, told>>

Deliver ==
    /\ Path!Arrive
    /\ Dispatch(arrived'.kind, arrived'.booking)
    /\ UNCHANGED <<backend, history>>

WorkerStep ==
    /\ (\E b \in Bookings : HandlerStep(b)) \/ Restart
    /\ UNCHANGED <<backend, path, history>>

Telling(r) == Tell(r) \/ TellNobody(r)

SystemNext ==
    \/ \E r \in Requests, b \in Bookings, to \in {"active", "message"} \cup Closed : Check(r, b, to)
    \/ \E r \in Requests : GiveUp(r) \/ Commit(r) \/ Telling(r)
    \/ LoseSome
    \/ Deliver
    \/ WorkerStep

SystemSpec == SystemInit /\ [][SystemNext]_all

(* Both event loops run, and the channel delivers what it does not lose.    *)
FairSystemSpec ==
    /\ SystemSpec
    /\ WF_all(\E r \in Requests : Telling(r))
    /\ WF_all(Deliver)
    /\ WF_all((\E b \in Bookings : HandlerStep(b)) /\ UNCHANGED <<backend, path, history>>)

-----------------------------------------------------------------------------
(* Correctness *)

(* Request r has committed. *)
Done(r) == asked[r].at \in {"committed", "done"}

(* The worker has a sandbox, a port or an active row of b.                  *)
Trace(b) == b \in sandboxes \cup ports \/ rows[b] = "active"

(* Nothing is under way between the backend and the worker. *)
Settled ==
    /\ \A r \in Requests : asked[r].at # "committed"
    /\ pending = <<>>
    /\ task = Waiting

(* What the worker has was decided before: a sandbox, row or port by a      *)
(* committed activation, and a row that says cancelled by a committed close *)
(* of a booking seen active, which still stands unless a stale request has  *)
(* written over it; whatever is lost, overtaken, failed or restarted.       *)
WorkerFollowsMarket ==
    \A b \in Bookings :
        /\ Trace(b) => /\ market[b] # "pending"
                       /\ \E r \in Requests : asked[r].booking = b /\ Done(r) /\ Activates(r)
        /\ rows[b] = "cancelled" =>
            /\ \E r \in Requests : asked[r].booking = b /\ Done(r) /\ Ends(r)
            /\ market[b] \in Closed \/ b \in overwritten

(* When everything has been told and handled, a booking no event of which   *)
(* was lost, and whose handling did not fail, has a sandbox, row or port    *)
(* only if the last it was told of was its activation, in whatever order    *)
(* the requests committed and told; and only if it is active, unless a      *)
(* stale request wrote over its status or its close came before its         *)
(* activation was told.  Nothing is asked of the other bookings.            *)
SettledRunsOnlyActive ==
    Settled => \A b \in Bookings \ lost :
        harm[b] = {} /\ Trace(b) =>
            /\ told[b] = "booking_activated"
            /\ b \notin overwritten \cup overtaken => market[b] = "active"

-----------------------------------------------------------------------------
(* What a comment of the backend says, and a lost event refutes             *)

(* bookings.py:146-147: a dropped event does no harm, since the worker      *)
(* reconciles; so the sandbox of a closed booking stops in the end, when    *)
(* nothing else went wrong with the booking.                                *)
WorkerReconciles ==
    \A b \in Bookings :
        market[b] \in Closed /\ b \in sandboxes /\ b \notin overwritten \cup overtaken
            ~> b \notin sandboxes \/ harm[b] # {}

=============================================================================
