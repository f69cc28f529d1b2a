----------------------------- MODULE WorkerChannel -----------------------------
(***************************************************************************)
(* The path of an event from publish to one worker's handler:              *)
(* backend/src/claw_api/realtime.py, worker_ws of api/v1/workers.py, and   *)
(* run_ws of worker/src/api/ws.rs.                                         *)
(*                                                                         *)
(* Each connection the worker makes has a server side (a coroutine with a  *)
(* queue of its own), a link, and what the network has taken but the       *)
(* worker has not read.  The worker reads one connection at a time and     *)
(* reads the next event only when it has handled the last one; the server  *)
(* learns that a link is gone only when it sends.  Events are numbered in  *)
(* the order of their publication.                                         *)
(***************************************************************************)
EXTENDS Integers, Sequences, FiniteSets

CONSTANTS
    Conns,          \* connections the worker makes, each once
    QueueSize,      \* maxsize of a subscriber's queue: 64
    WireSize,       \* events the network buffers before a send blocks
    MaxEvents,      \* bound: events published
    MaxRestarts     \* bound: restarts of the backend

NoConn == "none"

ASSUME ChannelAssumption ==
    /\ NoConn \notin Conns
    /\ QueueSize \in Nat \ {0}
    /\ WireSize \in Nat \ {0}
    /\ MaxEvents \in Nat
    /\ MaxRestarts \in Nat

VARIABLES
    published,      \* number of events published on the channel
    server,         \* connection => stage of worker_ws
    link,           \* connection => whether it carries anything
    queue,          \* connection => the subscriber's queue
    held,           \* connection => event taken from the queue and not sent, 0 if none
    wire,           \* connection => events on their way to the worker
    current,        \* the connection the worker reads
    handled,        \* events the worker took up, in order
    restarts

vars == <<published, server, link, queue, held, wire, current, handled, restarts>>

Init ==
    /\ published = 0
    /\ server = [c \in Conns |-> "absent"]
    /\ link = [c \in Conns |-> "down"]
    /\ queue = [c \in Conns |-> <<>>]
    /\ held = [c \in Conns |-> 0]
    /\ wire = [c \in Conns |-> <<>>]
    /\ current = NoConn
    /\ handled = <<>>
    /\ restarts = 0

-----------------------------------------------------------------------------
(* realtime.py *)

Subscribers == {c \in Conns : server[c] = "serving"}

OfferedAlways(q, e) == Append(q, e)             \* mutant: an unbounded queue

OfferedDropsOldest(q, e) ==         \* mutant: makes room for the new event
    IF Len(q) < QueueSize THEN Append(q, e) ELSE Append(Tail(q), e)

(* put_nowait, and QueueFull passed over. *)
Offered(q, e) == IF Len(q) < QueueSize THEN Append(q, e) ELSE q

Publish ==
    /\ published < MaxEvents
    /\ published' = published + 1
    /\ queue' = [c \in Conns |-> IF c \in Subscribers THEN Offered(queue[c], published')
                                 ELSE queue[c]]
    /\ UNCHANGED <<server, link, held, wire, current, handled, restarts>>

(* The finally clause of worker_ws: the queue goes with the subscription.   *)
LeaveRegistered(c) ==               \* mutant: no finally clause
    UNCHANGED <<server, queue, held>>

Unregister(c) ==
    /\ server' = [server EXCEPT ![c] = "ended"]
    /\ queue' = [queue EXCEPT ![c] = <<>>]
    /\ held' = [held EXCEPT ![c] = 0]

-----------------------------------------------------------------------------
(* worker_ws *)

(* ws.accept has returned: the worker is connected, and not yet subscribed. *)
Register(c) ==
    /\ server[c] = "accepted"
    /\ server' = [server EXCEPT ![c] = "serving"]
    /\ UNCHANGED <<published, link, queue, held, wire, current, handled, restarts>>

TakeRacesTimeout(c) ==              \* mutant: the wait is cancelled with the event
    /\ server[c] = "serving"
    /\ held[c] = 0
    /\ queue[c] # <<>>
    /\ held' \in {held, [held EXCEPT ![c] = Head(queue[c])]}
    /\ queue' = [queue EXCEPT ![c] = Tail(@)]
    /\ UNCHANGED <<published, server, link, wire, current, handled, restarts>>

(* queue.get *)
Take(c) ==
    /\ server[c] = "serving"
    /\ held[c] = 0
    /\ queue[c] # <<>>
    /\ held' = [held EXCEPT ![c] = Head(queue[c])]
    /\ queue' = [queue EXCEPT ![c] = Tail(@)]
    /\ UNCHANGED <<published, server, link, wire, current, handled, restarts>>

(* send_json on a link that works waits for room. *)
Send(c) ==
    /\ held[c] # 0
    /\ link[c] = "up"
    /\ Len(wire[c]) < WireSize
    /\ wire' = [wire EXCEPT ![c] = Append(@, held[c])]
    /\ held' = [held EXCEPT ![c] = 0]
    /\ UNCHANGED <<published, server, link, queue, current, handled, restarts>>

(* On a link that is gone the send may still succeed, into a buffer nobody  *)
(* reads.                                                                   *)
SendVanishes(c) ==
    /\ held[c] # 0
    /\ link[c] = "down"
    /\ held' = [held EXCEPT ![c] = 0]
    /\ UNCHANGED <<published, server, link, queue, wire, current, handled, restarts>>

(* A send, or the ping after 20 idle seconds, raises WebSocketDisconnect.   *)
SendRaises(c) ==
    /\ server[c] = "serving"
    /\ held[c] # 0 \/ queue[c] = <<>>
    /\ link[c] = "down"
    /\ Unregister(c)
    /\ UNCHANGED <<published, link, wire, current, handled, restarts>>

-----------------------------------------------------------------------------
(* run_ws *)

(* connect_async, while no stream is being read. *)
Connect(c) ==
    /\ current = NoConn
    /\ server[c] = "absent"
    /\ current' = c
    /\ server' = [server EXCEPT ![c] = "accepted"]
    /\ link' = [link EXCEPT ![c] = "up"]
    /\ UNCHANGED <<published, queue, held, wire, handled, restarts>>

(* stream.next: the event is dispatched before the next one is read, and an *)
(* error of the handler is only logged.                                     *)
Receive(c) ==
    /\ current = c
    /\ wire[c] # <<>>
    /\ handled' = Append(handled, Head(wire[c]))
    /\ wire' = [wire EXCEPT ![c] = Tail(@)]
    /\ UNCHANGED <<published, server, link, queue, held, current, restarts>>

(* The stream ends or errs once what had arrived is read: backoff, again.   *)
Notice(c) ==
    /\ current = c
    /\ link[c] = "down"
    /\ wire[c] = <<>>
    /\ current' = NoConn
    /\ UNCHANGED <<published, server, link, queue, held, wire, handled, restarts>>

-----------------------------------------------------------------------------
(* Faults *)

Cut(c, n) == wire' = [wire EXCEPT ![c] = SubSeq(@, 1, n)]

(* The network fails: of what was sent, what had arrived can still be read. *)
Break(c) ==
    /\ link[c] = "up"
    /\ link' = [link EXCEPT ![c] = "down"]
    /\ \E n \in 0..Len(wire[c]) : Cut(c, n)
    /\ UNCHANGED <<published, server, queue, held, current, handled, restarts>>

(* The worker is restarted: what it had not taken up is lost. *)
WorkerRestart(c) ==
    /\ current = c
    /\ current' = NoConn
    /\ link' = [link EXCEPT ![c] = "down"]
    /\ Cut(c, 0)
    /\ UNCHANGED <<published, server, queue, held, handled, restarts>>

(* The backend is restarted: subscriptions and queues are in its memory.    *)
BackendRestart ==
    /\ restarts < MaxRestarts
    /\ restarts' = restarts + 1
    /\ server' = [c \in Conns |-> IF server[c] = "absent" THEN "absent" ELSE "ended"]
    /\ link' = [c \in Conns |-> "down"]
    /\ queue' = [c \in Conns |-> <<>>]
    /\ held' = [c \in Conns |-> 0]
    /\ UNCHANGED <<published, wire, current, handled>>

ServerStep(c) == Register(c) \/ Take(c) \/ Send(c) \/ SendVanishes(c) \/ SendRaises(c)

ClientStep(c) == Receive(c) \/ Notice(c)

Next ==
    \/ Publish
    \/ \E c \in Conns : Connect(c)
    \/ \E c \in Conns : ServerStep(c)
    \/ \E c \in Conns : ClientStep(c)
    \/ \E c \in Conns : Break(c)
    \/ \E c \in Conns : WorkerRestart(c)
    \/ BackendRestart

Spec == Init /\ [][Next]_vars

(* The event loops of both sides run what can run.                          *)
FairSpec == Spec /\ \A c \in Conns : WF_vars(ServerStep(c)) /\ WF_vars(ClientStep(c))

-----------------------------------------------------------------------------
(* Correctness *)

Events == 1..MaxEvents

(* Every variable has its type.                                             *)
TypeOK ==
    /\ published \in 0..MaxEvents
    /\ server \in [Conns -> {"absent", "accepted", "serving", "ended"}]
    /\ link \in [Conns -> {"up", "down"}]
    /\ queue \in [Conns -> Seq(Events)]
    /\ \A c \in Conns : Len(queue[c]) <= QueueSize /\ Len(wire[c]) <= WireSize
    /\ held \in [Conns -> Events \cup {0}]
    /\ wire \in [Conns -> Seq(Events)]
    /\ current \in Conns \cup {NoConn}
    /\ handled \in Seq(Events)
    /\ restarts \in 0..MaxRestarts

(* A subscription whose link is gone does not stay for ever: the ping ends  *)
(* it, even when nothing is published.                                      *)
DeadSubscribersLeave ==
    \A c \in Conns : server[c] = "serving" /\ link[c] = "down" ~> server[c] = "ended"

(* An event a subscriber's queue accepted is taken up, unless the link or   *)
(* one of the two processes fails.                                          *)
AcceptedIsHandled ==
    \A c \in Conns, e \in Events :
        (\E i \in DOMAIN queue[c] : queue[c][i] = e) ~>
            \/ \E i \in DOMAIN handled : handled[i] = e
            \/ link[c] = "down"

(* What may still reach the worker. *)
Live(c) == wire[c] \o IF link[c] = "up" /\ server[c] = "serving"
                      THEN (IF held[c] = 0 THEN <<>> ELSE <<held[c]>>) \o queue[c]
                      ELSE <<>>

Coming == IF current = NoConn THEN <<>> ELSE Live(current)

LastHandled == IF handled = <<>> THEN 0 ELSE handled[Len(handled)]

Channel == INSTANCE LossyChannel WITH
    NoEvent <- 0, pending <- Coming, arrived <- LastHandled

(* The path implements the lossy channel: an event is refused only when it  *)
(* is published, and only a broken connection loses more.                   *)
ImplementsChannel == Channel!Spec

=============================================================================
