----------------------------- MODULE ChatThread -----------------------------
(***************************************************************************)
(* A consumer's booking page and the chat on it: the thread of each tab    *)
(* (components/dashboard/ChatThread.tsx), which shows a message before it   *)
(* is sent and puts the backend's in its place, or takes it away, when the  *)
(* answer comes; the server action that sends it and the messages of the   *)
(* backend, which the worker adds to as well.                              *)
(*                                                                         *)
(* A message is a number.  Every send has a millisecond of its own, so the *)
(* identifier of an optimistic message, taken from the clock, is unique in *)
(* its tab: a second send needs text typed into a form just emptied.       *)
(***************************************************************************)
EXTENDS Naturals, SequencesExt

CONSTANTS ChatTabs,
          MaxMessages,   \* messages typed or posted, over all tabs and the worker
          MaxOpens,      \* pages opened
          MaxChatMisses  \* requests that fail, or whose answer is lost

ASSUME ChatAssumption == {MaxMessages, MaxOpens, MaxChatMisses} \subseteq Nat

VARIABLES
    status,     \* of the booking
    log,        \* the messages the backend has, in order
    view,       \* per tab, the page
    outbox,     \* per tab, the sends under way, one after the other
    answered,   \* history: the messages whose sender was told they were accepted
    typed, opens, chatMisses

chatVars == <<status, log, view, outbox, answered, typed, opens, chatMisses>>

Messages  == 1..MaxMessages
Steps     == {"pending", "active", "closed"}
Reads     == {"booking", "messages"}
Local(n)  == [local |-> TRUE, n |-> n]
Stored(n) == [local |-> FALSE, n |-> n]
Away      == [at |-> "away", got |-> {}, status |-> "pending", thread |-> <<>>,
              mine |-> {}, error |-> FALSE]

ChatTypeOK ==
    /\ status \in Steps
    /\ log \in Seq(Messages) /\ IsInjective(log)
    /\ \A t \in ChatTabs :
         LET v == view[t] IN
         /\ v.at \in {"away", "list", "loading", "chat", "inactive", "not found", "error"}
         /\ v.got \subseteq Reads /\ v.status \in Steps /\ v.mine \subseteq Messages
         /\ v.error \in BOOLEAN
         /\ \A i \in DOMAIN v.thread :
              v.thread[i] \in [local : BOOLEAN, n : Messages]
         /\ IsInjective(v.thread)
         /\ outbox[t] \in Seq([n : Messages, checked : BOOLEAN])
    /\ answered \subseteq Messages
    /\ typed \in 0..MaxMessages /\ opens \in 0..MaxOpens /\ chatMisses \in 0..MaxChatMisses

ChatInit ==
    /\ status \in {"pending", "active"}
    /\ log = <<>>
    /\ view = [t \in ChatTabs |-> Away]
    /\ outbox = [t \in ChatTabs |-> <<>>]
    /\ answered = {} /\ typed = 0 /\ opens = 0 /\ chatMisses = 0

OpenOne  == opens < MaxOpens /\ opens' = opens + 1
ChatMiss == chatMisses < MaxChatMisses /\ chatMisses' = chatMisses + 1
See(t, v) == view' = [view EXCEPT ![t] = v]

-----------------------------------------------------------------------------
(* The pages. *)

(* /dashboard/bookings: one request, the badge shows the status it brought. *)
BookingsPage(t) ==
    /\ view[t].at # "loading"
    /\ See(t, [Away EXCEPT !.at = "list", !.status = status])
    /\ OpenOne
    /\ UNCHANGED <<status, log, outbox, answered, typed, chatMisses>>

(* The detail page of one's own booking, or of an identifier that is not.   *)
OpenBooking(t) ==
    /\ view[t].at # "loading"
    /\ \E own \in BOOLEAN :
         See(t, [Away EXCEPT !.at = IF own THEN "loading" ELSE "not found"])
    /\ OpenOne
    /\ UNCHANGED <<status, log, outbox, answered, typed, chatMisses>>

Rendered(v) == IF v.status = "active" THEN [v EXCEPT !.at = "chat"]
               ELSE [Away EXCEPT !.at = "inactive", !.status = v.status]

(* Booking and messages are asked for at the same time; once both are in    *)
(* the chat is rendered for an active booking, and a placeholder for others. *)
Arrived(v, r) == LET w == [v EXCEPT !.got = @ \cup {r}] IN
                 IF w.got = Reads THEN Rendered(w) ELSE w

BookingDetailRead(t, r) ==
    LET v == view[t] IN
    /\ v.at = "loading" /\ r \notin v.got
    /\ \/ /\ See(t, Arrived(IF r = "booking" THEN [v EXCEPT !.status = status]
                            ELSE [v EXCEPT !.thread = [i \in DOMAIN log |-> Stored(log[i])]], r))
          /\ UNCHANGED chatMisses
       \/ ChatMiss /\ See(t, [Away EXCEPT !.at = "error"])
    /\ UNCHANGED <<status, log, outbox, answered, typed, opens>>

-----------------------------------------------------------------------------
(* Sending. *)

(* The button is disabled while a send is pending, Ctrl+Enter is not. *)
OnSubmit(t) ==
    /\ view[t].at = "chat" /\ typed < MaxMessages
    /\ typed' = typed + 1
    /\ See(t, [view[t] EXCEPT !.thread = Append(@, Local(typed + 1)),
                              !.mine = @ \cup {typed + 1}, !.error = FALSE])
    /\ outbox' = [outbox EXCEPT ![t] = Append(@, [n |-> typed + 1, checked |-> FALSE])]
    /\ UNCHANGED <<status, log, answered, opens, chatMisses>>

ReplaceLast(thread, n) ==               \* mutant: the last message, whichever it is
    IF thread = <<>> THEN thread ELSE [thread EXCEPT ![Len(thread)] = Stored(n)]
ReplaceLocals(thread, n) ==             \* mutant: every optimistic message
    [i \in DOMAIN thread |-> IF thread[i].local THEN Stored(n) ELSE thread[i]]
DropLocal(thread, n) == SelectSeq(thread, LAMBDA m : m # Local(n))
                                        \* mutant: filter where map belongs

PutInPlace(thread, n) == [i \in DOMAIN thread |-> IF thread[i] = Local(n) THEN Stored(n)
                                               ELSE thread[i]]

KeepFailed(thread, n) == thread         \* mutant: the failed message stays

(* The identifier of an optimistic message is there once, if at all.        *)
TakeOut(thread, n) ==
    IF Contains(thread, Local(n))
    THEN RemoveAt(thread, CHOOSE i \in DOMAIN thread : thread[i] = Local(n)) ELSE thread

Fail(t) ==
    /\ See(t, [view[t] EXCEPT !.thread = TakeOut(@, outbox[t][1].n),
                              !.error = @ \/ outbox[t][1].n \in view[t].mine])
    /\ outbox' = [outbox EXCEPT ![t] = Tail(@)]

(* send_message looks at the booking first. *)
CheckActive(t) ==
    /\ outbox[t] # <<>> /\ ~outbox[t][1].checked
    /\ \/ /\ status = "active"
          /\ outbox' = [outbox EXCEPT ![t][1].checked = TRUE]
          /\ UNCHANGED <<view, chatMisses>>
       \/ ((status # "active" /\ UNCHANGED chatMisses) \/ ChatMiss) /\ Fail(t)
    /\ UNCHANGED <<status, log, answered, typed, opens>>

(* And stores the message, whatever the booking has become.  The page is    *)
(* rendered again with the answer, which matters to a mounted thread only   *)
(* by the status: the thread keeps its own messages, and goes when the       *)
(* booking is no longer active.  A lost answer is a failure like any other. *)
StoreMessage(t) ==
    LET n == outbox[t][1].n
        v == [view[t] EXCEPT !.thread = PutInPlace(@, n)]
    IN
    /\ outbox[t] # <<>> /\ outbox[t][1].checked
    /\ log' = Append(log, n)
    /\ \/ /\ answered' = answered \cup {n}
          /\ See(t, IF v.at = "chat" THEN Rendered([v EXCEPT !.status = status]) ELSE v)
          /\ outbox' = [outbox EXCEPT ![t] = Tail(@)]
          /\ UNCHANGED chatMisses
       \/ ChatMiss /\ Fail(t) /\ UNCHANGED answered
    /\ UNCHANGED <<status, typed, opens>>

(* The worker posts the agent's replies, and is not asked about the status. *)
PostAssistantMessage ==
    /\ typed < MaxMessages
    /\ typed' = typed + 1 /\ log' = Append(log, typed + 1)
    /\ UNCHANGED <<status, view, outbox, answered, opens, chatMisses>>

BookingMoves ==
    /\ \/ status = "pending" /\ status' \in {"active", "closed"}
       \/ status = "active" /\ status' = "closed"
    /\ UNCHANGED <<log, view, outbox, answered, typed, opens, chatMisses>>

ChatNext ==
    \/ \E t \in ChatTabs :
         \/ BookingsPage(t) \/ OpenBooking(t) \/ \E r \in Reads : BookingDetailRead(t, r)
         \/ OnSubmit(t) \/ CheckActive(t) \/ StoreMessage(t)
    \/ PostAssistantMessage \/ BookingMoves

(* Server actions of a tab run one after the other and end. *)
Sending(t) == CheckActive(t) \/ StoreMessage(t)
ChatFairness == \A t \in ChatTabs : WF_chatVars(Sending(t))
ChatSpec == ChatInit /\ [][ChatNext]_chatVars /\ ChatFairness

-----------------------------------------------------------------------------
(* Once nothing is under way, what a thread shows is what the backend has,  *)
(* in the backend's order: no message remains that was never stored.        *)
ThreadIsTrue ==
    \A t \in ChatTabs : view[t].at = "chat" /\ outbox[t] = <<>> =>
        LET place == [i \in DOMAIN view[t].thread |->
                         {j \in DOMAIN log : Stored(log[j]) = view[t].thread[i]}]
        IN /\ \A i \in DOMAIN place : place[i] # {}
           /\ \A i, k \in DOMAIN place : i < k =>
                \A x \in place[i], y \in place[k] : x < y

(* A message the sender was told is accepted is in the thread it was typed  *)
(* into, for as long as that is open.                                       *)
AcceptedIsShown ==
    \A t \in ChatTabs : view[t].at = "chat" =>
        \A n \in view[t].mine \cap answered : Contains(view[t].thread, Stored(n))

Unsettled(n) == \E t \in ChatTabs : Contains(view[t].thread, Local(n))

(* No thread waits for ever with a message that is neither sent nor refused. *)
SendsSettle == \A n \in Messages : Unsettled(n) ~> ~Unsettled(n)

(* A thread and the backend agree on the messages, in both directions.      *)
ThreadAgrees == ThreadIsTrue /\ AcceptedIsShown
=============================================================================
