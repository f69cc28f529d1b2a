-------------------------- MODULE WorkerChannelProofs --------------------------
(***************************************************************************)
(* The path from publish to the worker's handler is a lossy channel, for   *)
(* any number of connections and events, any sizes of the queues and any   *)
(* number of restarts: what was accepted arrives at most once, in order.   *)
(*                                                                         *)
(* What is pending is what the connection the worker reads may still bring *)
(* (Live).  A step on it appends at the end, takes from the front, moves   *)
(* an event along without changing the sequence, or cuts the end off.  The *)
(* invariant beside the types is that a connection not yet subscribed has  *)
(* nothing in its queue and nothing sent (Unused), so that taking it up    *)
(* brings no old events.                                                   *)
(***************************************************************************)
EXTENDS WorkerChannel, SequenceTheorems, TLAPS

(* Only a subscription has a queue, and only an accepted link has events.  *)
Unused == \A c \in Conns :
    /\ server[c] # "serving" => queue[c] = <<>> /\ held[c] = 0
    /\ server[c] = "absent" => wire[c] = <<>>

ChannelInv == TypeOK /\ Unused

-----------------------------------------------------------------------------
(* The invariant                                                            *)

LEMMA InitChannel == Init => ChannelInv
<1> SUFFICES ASSUME Init PROVE ChannelInv
  OBVIOUS
<1>1. \A c \in Conns : queue[c] = <<>> /\ wire[c] = <<>> /\ held[c] = 0
  BY DEF Init
<1>2. TypeOK
  BY <1>1, ChannelAssumption DEF Init, TypeOK, NoConn
<1> QED
  BY <1>1, <1>2 DEF ChannelInv, Unused

(* A queue that is offered an event takes it at its end, or stays.          *)
LEMMA OfferedIs ==
    ASSUME NEW q \in Seq(Events), Len(q) <= QueueSize, NEW e \in Events
    PROVE  /\ Offered(q, e) \in {q, Append(q, e)}
           /\ Offered(q, e) \in Seq(Events) /\ Len(Offered(q, e)) <= QueueSize
BY ChannelAssumption, AppendProperties DEF Offered

LEMMA PublishInv == ASSUME ChannelInv, Publish PROVE ChannelInv' /\ published' \in Events
<1>1. published' \in Events /\ published' \in 0..MaxEvents
  BY ChannelAssumption DEF ChannelInv, TypeOK, Publish, Events
<1>2. /\ UNCHANGED <<server, link, held, wire, current, handled, restarts>>
      /\ queue' = [c \in Conns |-> IF c \in Subscribers THEN Offered(queue[c], published')
                                   ELSE queue[c]]
  BY DEF Publish
<1>3. \A c \in Conns : /\ queue'[c] \in Seq(Events) /\ Len(queue'[c]) <= QueueSize
                       /\ server[c] # "serving" => queue'[c] = queue[c]
  BY <1>1, <1>2, OfferedIs DEF ChannelInv, TypeOK, Subscribers
<1>4. TypeOK'
  BY <1>1, <1>2, <1>3 DEF ChannelInv, TypeOK
<1> QED
  BY <1>1, <1>2, <1>3, <1>4 DEF ChannelInv, Unused

LEMMA ServerInv == ASSUME ChannelInv, NEW c \in Conns, ServerStep(c) PROVE ChannelInv'
<1>1. /\ queue[c] \in Seq(Events) /\ Len(queue[c]) <= QueueSize
      /\ wire[c] \in Seq(Events) /\ Len(wire[c]) <= WireSize
      /\ held[c] \in Events \cup {0}
      /\ server[c] # "serving" => queue[c] = <<>> /\ held[c] = 0
      /\ server[c] = "absent" => wire[c] = <<>>
  BY DEF ChannelInv, TypeOK, Unused
<1>2. CASE Register(c)
  BY <1>1, <1>2 DEF Register, ChannelInv, TypeOK, Unused
<1>3. CASE Take(c)
  <2>1. Head(queue[c]) \in Events /\ Tail(queue[c]) \in Seq(Events)
        /\ Len(Tail(queue[c])) <= QueueSize
    BY <1>1, <1>3, HeadTailProperties, LenProperties, ChannelAssumption DEF Take
  <2>2. TypeOK'
    BY <1>3, <2>1 DEF Take, ChannelInv, TypeOK
  <2>3. Unused'
    BY <1>3 DEF Take, ChannelInv, TypeOK, Unused
  <2> QED
    BY <2>2, <2>3 DEF ChannelInv
<1>4. CASE Send(c)
  <2>1. /\ Append(wire[c], held[c]) \in Seq(Events)
        /\ Len(Append(wire[c], held[c])) <= WireSize
    BY <1>1, <1>4, AppendProperties, LenProperties, ChannelAssumption DEF Send
  <2>2. TypeOK'
    BY <1>4, <2>1 DEF Send, ChannelInv, TypeOK
  <2>3. server[c] = "serving"
    BY <1>1, <1>4 DEF Send
  <2>4. Unused'
    BY <1>4, <2>3 DEF Send, ChannelInv, TypeOK, Unused
  <2> QED
    BY <2>2, <2>4 DEF ChannelInv
<1>5. CASE SendVanishes(c)
  BY <1>5 DEF SendVanishes, ChannelInv, TypeOK, Unused
<1>6. CASE SendRaises(c)
  <2>1. TypeOK'
    BY <1>6, ChannelAssumption DEF SendRaises, Unregister, ChannelInv, TypeOK
  <2>2. Unused'
    BY <1>6 DEF SendRaises, Unregister, ChannelInv, TypeOK, Unused
  <2> QED
    BY <2>1, <2>2 DEF ChannelInv
<1> QED
  BY <1>2, <1>3, <1>4, <1>5, <1>6 DEF ServerStep

(* What is cut is shorter, and of the same events.                          *)
LEMMA CutIs ==
    ASSUME NEW q \in Seq(Events), NEW n \in 0..Len(q)
    PROVE  SubSeq(q, 1, n) \in Seq(Events) /\ Len(SubSeq(q, 1, n)) = n
OBVIOUS

LEMMA ClientInv ==
    ASSUME ChannelInv, NEW c \in Conns,
           Connect(c) \/ ClientStep(c) \/ Break(c) \/ WorkerRestart(c)
    PROVE  ChannelInv'
<1>1. /\ wire[c] \in Seq(Events) /\ Len(wire[c]) <= WireSize /\ Len(wire[c]) \in Nat
      /\ handled \in Seq(Events)
      /\ server[c] = "absent" => wire[c] = <<>>
  BY DEF ChannelInv, TypeOK, Unused
<1>2. CASE Connect(c)
  BY <1>2 DEF Connect, ChannelInv, TypeOK, Unused
<1>3. CASE Receive(c)
  <2>1. /\ Head(wire[c]) \in Events /\ Tail(wire[c]) \in Seq(Events)
        /\ Len(Tail(wire[c])) <= WireSize
    BY <1>1, <1>3, HeadTailProperties, ChannelAssumption DEF Receive
  <2>2. Append(handled, Head(wire[c])) \in Seq(Events)
    BY <1>1, <2>1, AppendProperties
  <2>3. TypeOK'
    BY <1>3, <2>1, <2>2 DEF Receive, ChannelInv, TypeOK
  <2>4. Unused'
    BY <1>1, <1>3 DEF Receive, ChannelInv, TypeOK, Unused
  <2> QED
    BY <2>3, <2>4 DEF ChannelInv
<1>4. CASE Notice(c)
  BY <1>4 DEF Notice, ChannelInv, TypeOK, Unused
<1>5. CASE Break(c) \/ WorkerRestart(c)
  <2>1. PICK n \in 0..Len(wire[c]) : Cut(c, n)
    BY <1>1, <1>5 DEF Break, WorkerRestart
  <2>2. /\ SubSeq(wire[c], 1, n) \in Seq(Events) /\ Len(SubSeq(wire[c], 1, n)) = n
        /\ n <= WireSize
    BY <1>1, <2>1, CutIs, ChannelAssumption
  <2>3. /\ UNCHANGED <<published, server, queue, held, handled, restarts>>
        /\ link' = [link EXCEPT ![c] = "down"]
        /\ current' \in {current, NoConn}
    BY <1>5 DEF Break, WorkerRestart
  <2>4. wire' = [wire EXCEPT ![c] = SubSeq(wire[c], 1, n)]
    BY <2>1 DEF Cut
  <2>5. TypeOK'
    BY <2>2, <2>3, <2>4 DEF ChannelInv, TypeOK
  <2>6. server[c] = "absent" => SubSeq(wire[c], 1, n) = <<>>
    BY <1>1, <2>1, <2>2
  <2>7. Unused'
    BY <2>3, <2>4, <2>6 DEF ChannelInv, TypeOK, Unused
  <2> QED
    BY <2>5, <2>7 DEF ChannelInv
<1> QED
  BY <1>2, <1>3, <1>4, <1>5 DEF ClientStep

LEMMA BackendInv == ASSUME ChannelInv, BackendRestart PROVE ChannelInv'
<1>1. TypeOK'
  BY ChannelAssumption DEF BackendRestart, ChannelInv, TypeOK
<1>2. Unused'
  BY DEF BackendRestart, ChannelInv, TypeOK, Unused
<1> QED
  BY <1>1, <1>2 DEF ChannelInv

LEMMA ChannelStep == ASSUME ChannelInv, [Next]_vars PROVE ChannelInv'
<1>1. CASE UNCHANGED vars
  BY <1>1 DEF vars, ChannelInv, TypeOK, Unused
<1> QED
  BY <1>1, PublishInv, ServerInv, ClientInv, BackendInv DEF Next

(* The subscriptions, queues and buffers keep their types and their bounds: *)
(* a queue never has more than its maxsize, put_nowait drops instead.       *)
THEOREM ChannelTypeCorrect == Spec => []TypeOK
<1>1. ChannelInv => TypeOK
  BY DEF ChannelInv
<1> QED
  BY <1>1, InitChannel, ChannelStep, PTL DEF Spec

-----------------------------------------------------------------------------
(* Sequences                                                                *)

LEMMA AppendBehind ==
    ASSUME NEW S, NEW s \in Seq(S), NEW t \in Seq(S), NEW e \in S
    PROVE  s \o Append(t, e) = Append(s \o t, e)
<1>1. /\ <<e>> \in Seq(S) /\ s \o t \in Seq(S)
      /\ Append(t, e) = t \o <<e>> /\ Append(s \o t, e) = (s \o t) \o <<e>>
  BY AppendIsConcat, ConcatProperties
<1> QED
  BY <1>1, ConcatAssociative

LEMMA MovedOver ==
    ASSUME NEW S, NEW s \in Seq(S), NEW t \in Seq(S), NEW e \in S
    PROVE  Append(s, e) \o t = s \o (<<e>> \o t)
<1>1. <<e>> \in Seq(S) /\ Append(s, e) = s \o <<e>>
  BY AppendIsConcat
<1> QED
  BY <1>1, ConcatAssociative

LEMMA HeadFirst ==
    ASSUME NEW S, NEW s \in Seq(S), s # <<>>
    PROVE  <<Head(s)>> \o Tail(s) = s
<1>1. /\ Head(s) \in S /\ Tail(s) \in Seq(S) /\ Len(Tail(s)) = Len(s) - 1
      /\ \A i \in 1..Len(Tail(s)) : Tail(s)[i] = s[i + 1]
      /\ Len(s) \in Nat \ {0} /\ Head(s) = s[1]
  BY HeadTailProperties, EmptySeq
<1>2. /\ <<Head(s)>> \in Seq(S) /\ Len(<<Head(s)>>) = 1 /\ <<Head(s)>>[1] = s[1]
  BY <1>1
<1>3. /\ <<Head(s)>> \o Tail(s) \in Seq(S)
      /\ Len(<<Head(s)>> \o Tail(s)) = Len(s)
      /\ \A i \in 1..Len(s) : (<<Head(s)>> \o Tail(s))[i] = s[i]
  BY <1>1, <1>2, ConcatProperties
<1> QED
  BY <1>3, SeqEqual

LEMMA FrontOf ==
    ASSUME NEW S, NEW s \in Seq(S), NEW t \in Seq(S), s # <<>>
    PROVE  s \o t # <<>> /\ Head(s \o t) = Head(s) /\ Tail(s \o t) = Tail(s) \o t
<1>1. /\ s \o t \in Seq(S) /\ Len(s \o t) = Len(s) + Len(t)
      /\ \A i \in 1..Len(s) + Len(t) : (s \o t)[i] = IF i <= Len(s) THEN s[i] ELSE t[i - Len(s)]
      /\ Len(s) \in Nat \ {0} /\ Len(t) \in Nat
  BY ConcatProperties, EmptySeq, LenProperties
<1>2. s \o t # <<>> /\ Head(s \o t) = Head(s)
  BY <1>1
<1>3. /\ Tail(s) \in Seq(S) /\ Len(Tail(s)) = Len(s) - 1
      /\ \A i \in 1..Len(s) - 1 : Tail(s)[i] = s[i + 1]
      /\ Tail(s \o t) \in Seq(S) /\ Len(Tail(s \o t)) = Len(s) + Len(t) - 1
      /\ \A i \in 1..Len(s) + Len(t) - 1 : Tail(s \o t)[i] = (s \o t)[i + 1]
  BY <1>1, <1>2, HeadTailProperties
<1>4. /\ Tail(s) \o t \in Seq(S) /\ Len(Tail(s) \o t) = Len(s) + Len(t) - 1
      /\ \A i \in 1..Len(s) + Len(t) - 1 :
            (Tail(s) \o t)[i] = IF i <= Len(s) - 1 THEN Tail(s)[i] ELSE t[i - (Len(s) - 1)]
  BY <1>1, <1>3, ConcatProperties
<1>5. \A i \in 1..Len(s) + Len(t) - 1 : Tail(s \o t)[i] = (Tail(s) \o t)[i]
  BY <1>1, <1>3, <1>4
<1> QED
  BY <1>2, <1>3, <1>4, <1>5, SeqEqual

LEMMA CutOfConcat ==
    ASSUME NEW S, NEW s \in Seq(S), NEW t \in Seq(S), NEW n \in 0..Len(s)
    PROVE  SubSeq(s, 1, n) = SubSeq(s \o t, 1, n) /\ n \in 0..Len(s \o t)
<1>1. /\ s \o t \in Seq(S) /\ Len(s \o t) = Len(s) + Len(t)
      /\ Len(s) \in Nat /\ Len(t) \in Nat
  BY ConcatProperties, LenProperties
<1>2. CASE n = 0
  BY <1>1, <1>2, SubSeqEmpty
<1>3. CASE n # 0
  BY <1>1, <1>3, SubSeqOfConcat1
<1> QED
  BY <1>1, <1>2, <1>3

-----------------------------------------------------------------------------
(* The refinement                                                           *)

(* What a connection still has to send. *)
Unsent(c) == IF link[c] = "up" /\ server[c] = "serving"
             THEN (IF held[c] = 0 THEN <<>> ELSE <<held[c]>>) \o queue[c]
             ELSE <<>>

LEMMA LiveIs ==
    ASSUME ChannelInv, NEW c \in Conns
    PROVE  /\ wire[c] \in Seq(Events) /\ Len(wire[c]) \in Nat
           /\ queue[c] \in Seq(Events)
           /\ Unsent(c) \in Seq(Events)
           /\ Live(c) = wire[c] \o Unsent(c) /\ Live(c) \in Seq(Events)
<1>1. /\ wire[c] \in Seq(Events) /\ queue[c] \in Seq(Events) /\ Len(wire[c]) \in Nat
      /\ held[c] \in Events \cup {0}
  BY DEF ChannelInv, TypeOK
<1>2. Unsent(c) \in Seq(Events)
  BY <1>1, ConcatProperties DEF Unsent
<1> QED
  BY <1>1, <1>2, ConcatProperties DEF Live, Unsent

(* What does not touch a connection does not touch what it may bring.       *)
LEMMA LiveStays ==
    ASSUME NEW c \in Conns, wire'[c] = wire[c],
           \/ link[c] = "down" /\ link'[c] = "down"
           \/ /\ link'[c] = link[c] /\ server'[c] = server[c]
              /\ held'[c] = held[c] /\ queue'[c] = queue[c]
    PROVE  Live(c)' = Live(c)
BY DEF Live

LEMMA PublishRefines ==
    ASSUME ChannelInv, Publish
    PROVE  \E e \in Events : Channel!Accept(e) \/ Channel!Refuse(e)
<1>1. published' \in Events
  BY PublishInv
<1>2. /\ UNCHANGED <<server, link, held, wire, current, handled>>
      /\ \A c \in Conns : queue'[c] = IF c \in Subscribers THEN Offered(queue[c], published')
                                      ELSE queue[c]
  BY DEF Publish
<1>3. UNCHANGED LastHandled
  BY <1>2 DEF LastHandled
<1>4. ASSUME NEW c \in Conns PROVE Live(c)' \in {Live(c), Append(Live(c), published')}
  <2>1. CASE queue'[c] = queue[c] \/ link[c] # "up" \/ server[c] # "serving"
    BY <1>2, <2>1 DEF Live
  <2>2. CASE queue'[c] # queue[c] /\ link[c] = "up" /\ server[c] = "serving"
    <3> DEFINE h == IF held[c] = 0 THEN <<>> ELSE <<held[c]>>
    <3>1. h \in Seq(Events) /\ wire[c] \in Seq(Events) /\ queue[c] \in Seq(Events)
      BY DEF ChannelInv, TypeOK
    <3>2. Len(queue[c]) <= QueueSize /\ queue'[c] = Offered(queue[c], published')
      BY <1>2, <2>2 DEF ChannelInv, TypeOK
    <3>3. queue'[c] = Append(queue[c], published')
      BY <1>1, <2>2, <3>1, <3>2, OfferedIs
    <3>4. Live(c) = wire[c] \o (h \o queue[c])
      BY <2>2 DEF Live
    <3>5. Live(c)' = wire[c] \o (h \o Append(queue[c], published'))
      BY <1>2, <2>2, <3>3 DEF Live
    <3> HIDE DEF h
    <3>6. h \o Append(queue[c], published') = Append(h \o queue[c], published')
      BY <1>1, <3>1, AppendBehind
    <3>7. h \o queue[c] \in Seq(Events)
      BY <3>1, ConcatProperties
    <3>8. wire[c] \o Append(h \o queue[c], published')
             = Append(wire[c] \o (h \o queue[c]), published')
      <4>1. ASSUME NEW w \in Seq(Events), NEW q \in Seq(Events), NEW e \in Events
            PROVE  w \o Append(q, e) = Append(w \o q, e)
        BY AppendBehind
      <4> QED
        BY <1>1, <3>1, <3>7, <4>1
    <3> QED
      BY <3>4, <3>5, <3>6, <3>8
  <2> QED
    BY <2>1, <2>2
<1>5. CASE current = NoConn
  <2>1. UNCHANGED Coming
    BY <1>2, <1>5 DEF Coming
  <2> QED
    BY <1>1, <1>3, <2>1 DEF Channel!Refuse, Channel!channel
<1>6. CASE current # NoConn
  <2>1. current \in Conns /\ current' = current
    BY <1>2, <1>6 DEF ChannelInv, TypeOK
  <2>2. PICK c \in Conns : c = current
    BY <2>1
  <2>3. Coming = Live(c) /\ Coming' = Live(c)'
    BY <1>6, <2>1, <2>2 DEF Coming
  <2>4. Coming' = Coming \/ Coming' = Append(Coming, published')
    BY <1>4, <2>3
  <2> QED
    BY <1>1, <1>3, <2>4 DEF Channel!Accept, Channel!Refuse, Channel!channel
<1> QED
  BY <1>5, <1>6

(* A step of the server moves an event along, or is on a link that is gone. *)
LEMMA ServerRefines ==
    ASSUME ChannelInv, NEW c \in Conns, ServerStep(c)
    PROVE  UNCHANGED Channel!channel
<1>1. UNCHANGED <<current, handled>>
  BY DEF ServerStep, Register, Take, Send, SendVanishes, SendRaises
<1>2. UNCHANGED LastHandled
  BY <1>1 DEF LastHandled
<1>3. /\ wire[c] \in Seq(Events) /\ queue[c] \in Seq(Events) /\ held[c] \in Events \cup {0}
      /\ link[c] \in {"up", "down"}
      /\ server[c] # "serving" => queue[c] = <<>> /\ held[c] = 0
  BY DEF ChannelInv, TypeOK, Unused
<1>4. ASSUME NEW d \in Conns, d # c PROVE Live(d)' = Live(d)
  <2>1. /\ wire'[d] = wire[d] /\ link'[d] = link[d] /\ server'[d] = server[d]
        /\ held'[d] = held[d] /\ queue'[d] = queue[d]
    BY <1>4 DEF ServerStep, Register, Take, Send, SendVanishes, SendRaises, Unregister,
                ChannelInv, TypeOK
  <2> QED
    BY <2>1, LiveStays
<1>5. Live(c)' = Live(c)
  <2>1. CASE Register(c)
    <3>1. /\ queue[c] = <<>> /\ held[c] = 0 /\ server[c] # "serving"
          /\ UNCHANGED <<link, queue, held, wire>>
      BY <1>3, <2>1 DEF Register
    <3>2. <<>> \o <<>> = <<>>
      BY ConcatEmptySeq, EmptySeq
    <3>3. Live(c) = wire[c] \o <<>> /\ Live(c)' = wire[c] \o <<>>
      BY <3>1, <3>2 DEF Live
    <3> QED
      BY <3>3
  <2>2. CASE Take(c)
    <3>1. /\ server[c] = "serving" /\ held[c] = 0 /\ queue[c] # <<>>
          /\ held'[c] = Head(queue[c]) /\ queue'[c] = Tail(queue[c])
          /\ UNCHANGED <<link, server, wire>>
      BY <2>2 DEF Take, ChannelInv, TypeOK
    <3>2. Head(queue[c]) \in Events
      BY <1>3, <3>1, HeadTailProperties
    <3>3. Head(queue[c]) # 0
      BY <3>2 DEF Events
    <3>4. <<Head(queue[c])>> \o Tail(queue[c]) = <<>> \o queue[c]
      BY <1>3, <3>1, HeadFirst, ConcatEmptySeq
    <3> QED
      BY <3>1, <3>3, <3>4 DEF Live
  <2>3. CASE Send(c)
    <3>1. /\ held[c] # 0 /\ link[c] = "up" /\ server[c] = "serving"
          /\ wire'[c] = Append(wire[c], held[c]) /\ held'[c] = 0
          /\ UNCHANGED <<link, server, queue>>
      BY <1>3, <2>3 DEF Send, ChannelInv, TypeOK
    <3>2. held[c] \in Events
      BY <1>3, <3>1
    <3>3. Append(wire[c], held[c]) \o queue[c] = wire[c] \o (<<held[c]>> \o queue[c])
      <4>1. ASSUME NEW w \in Seq(Events), NEW q \in Seq(Events), NEW e \in Events
            PROVE  Append(w, e) \o q = w \o (<<e>> \o q)
        BY MovedOver
      <4> QED
        BY <1>3, <3>2, <4>1
    <3>4. <<>> \o queue[c] = queue[c]
      BY <1>3, ConcatEmptySeq
    <3> QED
      BY <3>1, <3>3, <3>4 DEF Live
  <2>4. CASE SendVanishes(c) \/ SendRaises(c)
    <3>1. link[c] = "down" /\ link'[c] = "down" /\ wire'[c] = wire[c]
      BY <2>4 DEF SendVanishes, SendRaises
    <3> QED
      BY <3>1, LiveStays
  <2> QED
    BY <2>1, <2>2, <2>3, <2>4 DEF ServerStep
<1>6. UNCHANGED Coming
  <2>1. CASE current = NoConn
    BY <1>1, <2>1 DEF Coming
  <2>2. CASE current # NoConn
    <3>1. PICK d \in Conns : d = current
      BY <2>2 DEF ChannelInv, TypeOK
    <3>2. Coming = Live(d) /\ Coming' = Live(d)'
      BY <1>1, <2>2, <3>1 DEF Coming
    <3> QED
      BY <1>4, <1>5, <3>2
  <2> QED
    BY <2>1, <2>2
<1> QED
  BY <1>2, <1>6 DEF Channel!channel

(* The connection taken up has nothing to bring yet. *)
LEMMA ConnectRefines ==
    ASSUME ChannelInv, NEW c \in Conns, Connect(c)
    PROVE  UNCHANGED Channel!channel
<1>1. /\ current = NoConn /\ current' = c /\ c # NoConn
      /\ server'[c] = "accepted" /\ wire'[c] = wire[c] /\ wire[c] = <<>>
      /\ UNCHANGED handled
  BY ChannelAssumption DEF Connect, ChannelInv, TypeOK, Unused
<1>2. <<>> \o <<>> = <<>>
  BY ConcatEmptySeq, EmptySeq
<1>3. Live(c)' = <<>>
  BY <1>1, <1>2 DEF Live
<1> QED
  BY <1>1, <1>3 DEF Coming, LastHandled, Channel!channel

LEMMA ReceiveRefines ==
    ASSUME ChannelInv, NEW c \in Conns, Receive(c)
    PROVE  Channel!Arrive
<1>1. /\ current = c /\ c # NoConn /\ wire[c] # <<>> /\ wire'[c] = Tail(wire[c])
      /\ handled' = Append(handled, Head(wire[c]))
      /\ UNCHANGED <<current, server, link, queue, held>>
  BY ChannelAssumption DEF Receive, ChannelInv, TypeOK
<1>2. /\ wire[c] \in Seq(Events) /\ Unsent(c) \in Seq(Events)
      /\ Live(c) = wire[c] \o Unsent(c)
  BY LiveIs
<1>3. Live(c)' = Tail(wire[c]) \o Unsent(c)
  BY <1>1 DEF Live, Unsent
<1>4. Live(c) # <<>> /\ Head(Live(c)) = Head(wire[c]) /\ Tail(Live(c)) = Live(c)'
  BY <1>1, <1>2, <1>3, FrontOf
<1>5. Coming = Live(c) /\ Coming' = Live(c)'
  BY <1>1 DEF Coming
<1>6. LastHandled' = Head(wire[c])
  <2>1. handled \in Seq(Events) /\ Head(wire[c]) \in Events
    BY <1>1, <1>2, HeadTailProperties DEF ChannelInv, TypeOK
  <2>2. handled' # <<>> /\ handled'[Len(handled')] = Head(wire[c])
    BY <1>1, <2>1, AppendProperties
  <2> QED
    BY <2>2 DEF LastHandled
<1> QED
  BY <1>4, <1>5, <1>6 DEF Channel!Arrive

LEMMA NoticeRefines ==
    ASSUME ChannelInv, NEW c \in Conns, Notice(c)
    PROVE  UNCHANGED Channel!channel
<1>1. /\ current = c /\ c # NoConn /\ link[c] = "down" /\ wire[c] = <<>> /\ current' = NoConn
      /\ UNCHANGED handled
  BY ChannelAssumption DEF Notice
<1>2. <<>> \o <<>> = <<>>
  BY ConcatEmptySeq, EmptySeq
<1>3. Live(c) = <<>>
  BY <1>1, <1>2 DEF Live
<1> QED
  BY <1>1, <1>3 DEF Coming, LastHandled, Channel!channel

(* A fault: what was coming is cut off somewhere. *)
LEMMA FaultRefines ==
    ASSUME ChannelInv,
           (\E c \in Conns : Break(c) \/ WorkerRestart(c)) \/ BackendRestart
    PROVE  Channel!Lose
<1>1. UNCHANGED LastHandled
  <2>1. UNCHANGED handled
    BY DEF Break, WorkerRestart, BackendRestart
  <2> QED
    BY <2>1 DEF LastHandled
<1>2. \E n \in 0..Len(Coming) : Coming' = SubSeq(Coming, 1, n)
  <2>1. CASE current' = NoConn
    <3>1. Coming' = <<>>
      BY <2>1 DEF Coming
    <3>2. Coming \in Seq(Events)
      BY LiveIs, EmptySeq DEF Coming, ChannelInv, TypeOK
    <3>3. 0 \in 0..Len(Coming) /\ SubSeq(Coming, 1, 0) = <<>>
      BY <3>2, LenProperties, SubSeqEmpty
    <3> QED
      BY <3>1, <3>3
  <2>2. CASE current' # NoConn
    <3>1. current' = current /\ current \in Conns
      BY <2>2 DEF Break, WorkerRestart, BackendRestart, ChannelInv, TypeOK
    <3>2. PICK d \in Conns : d = current
      BY <3>1
    <3>3. Coming = Live(d) /\ Coming' = Live(d)'
      BY <2>2, <3>1, <3>2 DEF Coming
    <3>4. /\ wire[d] \in Seq(Events) /\ Unsent(d) \in Seq(Events) /\ Live(d) \in Seq(Events)
          /\ Live(d) = wire[d] \o Unsent(d) /\ Len(wire[d]) \in Nat
      BY LiveIs
    <3>5. \/ Live(d)' = Live(d)
          \/ \E n \in 0..Len(wire[d]) : Live(d)' = SubSeq(wire[d], 1, n)
      <4>1. ASSUME NEW c \in Conns, Break(c), c # d PROVE Live(d)' = Live(d)
        <5>1. /\ wire'[d] = wire[d] /\ link'[d] = link[d] /\ server'[d] = server[d]
              /\ held'[d] = held[d] /\ queue'[d] = queue[d]
          BY <4>1 DEF Break, Cut, ChannelInv, TypeOK
        <5> QED
          BY <5>1, LiveStays
      <4>2. ASSUME Break(d) PROVE \E n \in 0..Len(wire[d]) : Live(d)' = SubSeq(wire[d], 1, n)
        <5>1. PICK n \in 0..Len(wire[d]) : wire'[d] = SubSeq(wire[d], 1, n)
          BY <4>2 DEF Break, Cut, ChannelInv, TypeOK
        <5>2. link'[d] = "down"
          BY <4>2 DEF Break, ChannelInv, TypeOK
        <5>3. SubSeq(wire[d], 1, n) \in Seq(Events)
          BY <3>4, CutIs
        <5> QED
          BY <5>1, <5>2, <5>3, ConcatEmptySeq DEF Live
      <4>3. ASSUME NEW c \in Conns, WorkerRestart(c) PROVE FALSE
        BY <2>2, <4>3 DEF WorkerRestart
      <4>4. ASSUME BackendRestart
            PROVE  \E n \in 0..Len(wire[d]) : Live(d)' = SubSeq(wire[d], 1, n)
        <5>1. wire'[d] = wire[d] /\ link'[d] = "down"
          BY <4>4 DEF BackendRestart
        <5>2. Live(d)' = wire[d]
          BY <3>4, <5>1, ConcatEmptySeq DEF Live
        <5>3. wire[d] = SubSeq(wire[d], 1, Len(wire[d])) /\ Len(wire[d]) \in 0..Len(wire[d])
          BY <3>4, SubSeqFull
        <5> QED
          BY <5>2, <5>3
      <4> QED
        BY <4>1, <4>2, <4>3, <4>4
    <3>6. CASE Live(d)' = Live(d)
      <4>1. Len(Live(d)) \in 0..Len(Live(d)) /\ SubSeq(Live(d), 1, Len(Live(d))) = Live(d)
        BY <3>4, LenProperties, SubSeqFull
      <4> QED
        BY <3>3, <3>6, <4>1
    <3>7. ASSUME NEW n \in 0..Len(wire[d]), Live(d)' = SubSeq(wire[d], 1, n)
          PROVE  \E k \in 0..Len(Coming) : Coming' = SubSeq(Coming, 1, k)
      <4>1. SubSeq(wire[d], 1, n) = SubSeq(Live(d), 1, n) /\ n \in 0..Len(Live(d))
        BY <3>4, CutOfConcat
      <4> QED
        BY <3>3, <3>7, <4>1
    <3> QED
      BY <3>5, <3>6, <3>7
  <2> QED
    BY <2>1, <2>2
<1> QED
  BY <1>1, <1>2 DEF Channel!Lose

(* realtime.py, worker_ws and run_ws together keep the promise of a lossy   *)
(* channel: an event is refused when it is published or reaches the handler *)
(* at most once and in order, and only a fault loses one that was accepted. *)
THEOREM ChannelImplemented == Spec => ImplementsChannel
<1>1. Init => Channel!Init
  BY DEF Init, Channel!Init, Coming, LastHandled
<1>2. ASSUME ChannelInv, [Next]_vars PROVE [Channel!Next]_(Channel!channel)
  <2>1. CASE UNCHANGED vars
    BY <2>1 DEF vars, Channel!channel, Coming, LastHandled, Live
  <2>2. CASE Publish
    BY <1>2, <2>2, PublishRefines DEF Channel!Next
  <2>3. ASSUME NEW c \in Conns, Connect(c) \/ ServerStep(c) \/ Notice(c)
        PROVE  UNCHANGED Channel!channel
    BY <1>2, <2>3, ConnectRefines, ServerRefines, NoticeRefines
  <2>4. ASSUME NEW c \in Conns, Receive(c) PROVE Channel!Next
    BY <1>2, <2>4, ReceiveRefines DEF Channel!Next
  <2>5. CASE (\E c \in Conns : Break(c) \/ WorkerRestart(c)) \/ BackendRestart
    BY <1>2, <2>5, FaultRefines DEF Channel!Next
  <2> QED
    BY <1>2, <2>1, <2>2, <2>3, <2>4, <2>5 DEF Next, ClientStep
<1> QED
  BY <1>1, <1>2, InitChannel, ChannelStep, PTL DEF Spec, ImplementsChannel, Channel!Spec
=============================================================================
