----------------------------- MODULE LossyChannel -----------------------------
(***************************************************************************)
(* What the path from the backend to a worker promises: an event that was  *)
(* accepted arrives at most once and never after a later one.  It promises *)
(* nothing else: an event may be refused when it is published, and         *)
(* everything after some event may be lost at any time.                    *)
(***************************************************************************)
EXTENDS Naturals, Sequences

CONSTANTS
    Events,         \* what can be published
    NoEvent

VARIABLES
    pending,        \* events that may still arrive
    arrived         \* the last event that arrived

channel == <<pending, arrived>>

Init == pending = <<>> /\ arrived = NoEvent

Accept(e) == pending' = Append(pending, e) /\ UNCHANGED arrived

Refuse(e) == UNCHANGED channel

Arrive ==
    /\ pending # <<>>
    /\ arrived' = Head(pending)
    /\ pending' = Tail(pending)

Lose ==
    /\ \E n \in 0..Len(pending) : pending' = SubSeq(pending, 1, n)
    /\ UNCHANGED arrived

Next == (\E e \in Events : Accept(e) \/ Refuse(e)) \/ Arrive \/ Lose

Spec == Init /\ [][Next]_channel

=============================================================================
