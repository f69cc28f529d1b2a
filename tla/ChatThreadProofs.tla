------------------------- MODULE ChatThreadProofs --------------------------
(*****************************************************************************)
(* Chat threads, for any number of tabs, messages, pages and misses.         *)
(*                                                                           *)
(* The invariant is ChatInv.  The backend has stored every message once      *)
(* (LogGood); what a tab has under way was typed there, one after the        *)
(* other, and is not yet stored (BoxGood, Apart); its thread is what the     *)
(* backend has, in the backend's order, and then what is under way           *)
(* (ThreadGood); and nothing typed into the thread is missing from it that   *)
(* is under way or was accepted (MineGood).                                  *)
(*****************************************************************************)
EXTENDS ChatThread, SequenceTheorems, TLAPS

Entry == [local : BOOLEAN, n : Messages]
Send  == [n : Messages, checked : BOOLEAN]
ViewRow == [at : {"away", "list", "loading", "chat", "inactive", "not found", "error"},
            got : SUBSET Reads, status : Steps, thread : Seq(Entry), mine : SUBSET Messages,
            error : BOOLEAN]

InLog(lg, n) == \E j \in 1..Len(lg) : lg[j] = n
InBox(ob, n) == \E j \in 1..Len(ob) : ob[j].n = n

(* Every message is stored once. *)
LogGood(lg, ty) ==
    /\ lg \in Seq(Messages)
    /\ \A j \in 1..Len(lg) : lg[j] <= ty
    /\ \A j, k \in 1..Len(lg) : lg[j] = lg[k] => j = k

(* What is under way was typed, one after the other, and is not yet stored. *)
BoxGood(ob, lg, ty) ==
    /\ ob \in Seq(Send)
    /\ \A i \in 1..Len(ob) : ob[i].n <= ty /\ ~InLog(lg, ob[i].n)
    /\ \A i, j \in 1..Len(ob) : i < j => ob[i].n < ob[j].n

(* A thread: what the backend has, in its order, and then what is under way. *)
ThreadGood(th, ob, lg) ==
    /\ th \in Seq(Entry)
    /\ \A i \in 1..Len(th) : IF th[i].local THEN InBox(ob, th[i].n) ELSE InLog(lg, th[i].n)
    /\ \A i, k \in 1..Len(th) : i < k /\ th[i].local => th[k].local /\ th[i].n < th[k].n
    /\ \A i, k \in 1..Len(th) : i < k /\ ~th[i].local /\ ~th[k].local =>
          \A x, y \in 1..Len(lg) : lg[x] = th[i].n /\ lg[y] = th[k].n => x < y

(* Of what was typed into a thread, nothing is missing from it that is under *)
(* way or was accepted.                                                      *)
MineGood(mine, th, ob, ty, ans) ==
    \A n \in mine : /\ n <= ty
                    /\ InBox(ob, n) => Contains(th, Local(n))
                    /\ n \in ans => Contains(th, Stored(n))

TabInv(t) ==
    /\ ThreadGood(view[t].thread, outbox[t], log)
    /\ BoxGood(outbox[t], log, typed)
    /\ MineGood(view[t].mine, view[t].thread, outbox[t], typed, answered)
    /\ view[t].at = "loading" => view[t].mine = {}

(* What is under way from one tab was not typed into another.               *)
Apart(t, u) == \A n \in Messages : InBox(outbox[u], n) => /\ ~InBox(outbox[t], n)
                                                          /\ n \notin view[t].mine

ChatInv ==
    /\ status \in Steps
    /\ view \in [ChatTabs -> ViewRow] /\ outbox \in [ChatTabs -> Seq(Send)]
    /\ typed \in 0..MaxMessages /\ opens \in 0..MaxOpens /\ chatMisses \in 0..MaxChatMisses
    /\ LogGood(log, typed)
    /\ answered \subseteq Messages /\ \A n \in answered : InLog(log, n)
    /\ \A t \in ChatTabs : TabInv(t)
    /\ \A t, u \in ChatTabs : t # u => Apart(t, u)

-----------------------------------------------------------------------------
(* Entries *)

LEMMA Entries ==
    ASSUME NEW n \in Messages
    PROVE  /\ Local(n) \in Entry /\ Local(n).local = TRUE /\ Local(n).n = n
           /\ Stored(n) \in Entry /\ Stored(n).local = FALSE /\ Stored(n).n = n
           /\ \A e \in Entry : /\ e.local <=> e = Local(e.n)
                               /\ ~e.local <=> e = Stored(e.n)
                               /\ e.local \in BOOLEAN /\ e.n \in Messages
<1>1. ASSUME NEW e \in Entry
      PROVE  /\ e.local <=> e = Local(e.n)
             /\ ~e.local <=> e = Stored(e.n)
             /\ e.local \in BOOLEAN /\ e.n \in Messages
  BY DEF Entry, Local, Stored
<1>2. /\ Local(n) \in Entry /\ Local(n).local = TRUE /\ Local(n).n = n
      /\ Stored(n) \in Entry /\ Stored(n).local = FALSE /\ Stored(n).n = n
  BY DEF Entry, Local, Stored
<1> QED
  BY <1>1, <1>2

LEMMA NumbersAre == MaxMessages \in Nat /\ MaxOpens \in Nat /\ MaxChatMisses \in Nat
                    /\ \A n \in Messages : n \in Nat /\ n >= 1
BY ChatAssumption DEF Messages

-----------------------------------------------------------------------------
(* The log *)

LEMMA LogAppend ==
    ASSUME NEW lg, NEW ty \in Nat, LogGood(lg, ty), NEW n \in Messages, ~InLog(lg, n),
           NEW ty2 \in Nat, ty <= ty2, n <= ty2
    PROVE  /\ LogGood(Append(lg, n), ty2)
           /\ \A m : InLog(Append(lg, n), m) <=> InLog(lg, m) \/ m = n
           /\ Len(Append(lg, n)) = Len(lg) + 1
           /\ \A j \in 1..Len(lg) : Append(lg, n)[j] = lg[j]
           /\ Append(lg, n)[Len(lg) + 1] = n
<1> DEFINE l2 == Append(lg, n)
<1>1. lg \in Seq(Messages) /\ Len(lg) \in Nat
  BY DEF LogGood
<1>2. /\ l2 \in Seq(Messages) /\ Len(l2) = Len(lg) + 1
      /\ \A j \in 1..Len(lg) : l2[j] = lg[j]
      /\ l2[Len(lg) + 1] = n
  BY <1>1, AppendProperties
<1> HIDE DEF l2
<1>3. \A j \in 1..Len(l2) : j \in 1..Len(lg) \/ j = Len(lg) + 1
  BY <1>1, <1>2
<1>4. \A m : InLog(l2, m) <=> InLog(lg, m) \/ m = n
  <2>1. ASSUME NEW m, InLog(l2, m) PROVE InLog(lg, m) \/ m = n
    BY <2>1, <1>2, <1>3 DEF InLog
  <2>2. ASSUME NEW m, InLog(lg, m) PROVE InLog(l2, m)
    <3>1. PICK j \in 1..Len(lg) : lg[j] = m
      BY <2>2 DEF InLog
    <3>2. j \in 1..Len(l2) /\ l2[j] = m
      BY <1>1, <1>2, <3>1
    <3> QED
      BY <3>2 DEF InLog
  <2>3. InLog(l2, n)
    <3>1. Len(lg) + 1 \in 1..Len(l2)
      BY <1>1, <1>2
    <3> QED
      BY <1>2, <3>1 DEF InLog
  <2> QED
    BY <2>1, <2>2, <2>3
<1>5. \A j \in 1..Len(l2) : l2[j] <= ty2
  <2>1. \A j \in 1..Len(lg) : lg[j] \in Nat /\ lg[j] <= ty
    BY <1>1, NumbersAre DEF LogGood
  <2>2. \A j \in 1..Len(lg) : lg[j] <= ty2
    BY <2>1
  <2> QED
    BY <1>2, <1>3, <2>2
<1>6. \A j, k \in 1..Len(l2) : l2[j] = l2[k] => j = k
  <2>1. \A j \in 1..Len(lg) : lg[j] # n
    BY DEF InLog
  <2>2. \A j, k \in 1..Len(lg) : lg[j] = lg[k] => j = k
    BY DEF LogGood
  <2> QED
    BY <1>2, <1>3, <2>1, <2>2
<1>7. LogGood(l2, ty2)
  BY <1>2, <1>5, <1>6 DEF LogGood
<1> QED
  BY <1>2, <1>4, <1>7 DEF l2

(* The log grows: what a thread shows of it stays where it was.             *)
LEMMA ThreadSeesLog ==
    ASSUME NEW th, NEW ob, NEW lg, ThreadGood(th, ob, lg), NEW ty \in Nat, LogGood(lg, ty),
           NEW n \in Messages, ~InLog(lg, n)
    PROVE  ThreadGood(th, ob, Append(lg, n))
<1> DEFINE l2 == Append(lg, n)
<1>1. /\ lg \in Seq(Messages) /\ Len(lg) \in Nat
      /\ l2 \in Seq(Messages) /\ Len(l2) = Len(lg) + 1
      /\ \A j \in 1..Len(lg) : l2[j] = lg[j]
      /\ l2[Len(lg) + 1] = n
  BY AppendProperties DEF LogGood
<1> HIDE DEF l2
<1>2. \A m : InLog(lg, m) => InLog(l2, m)
  BY <1>1 DEF InLog
<1>3. ASSUME NEW m, InLog(lg, m), NEW x \in 1..Len(l2), l2[x] = m
      PROVE  x \in 1..Len(lg) /\ lg[x] = m
  <2>1. m # n
    BY <1>3
  <2>2. x # Len(lg) + 1
    BY <1>1, <1>3, <2>1
  <2> QED
    BY <1>1, <1>3, <2>2
<1>4. ASSUME NEW i \in 1..Len(th), NEW k \in 1..Len(th), i < k, ~th[i].local, ~th[k].local,
             NEW x \in 1..Len(l2), NEW y \in 1..Len(l2), l2[x] = th[i].n, l2[y] = th[k].n
      PROVE  x < y
  <2>1. InLog(lg, th[i].n) /\ InLog(lg, th[k].n)
    BY <1>4 DEF ThreadGood
  <2>2. x \in 1..Len(lg) /\ y \in 1..Len(lg) /\ lg[x] = th[i].n /\ lg[y] = th[k].n
    BY <1>3, <1>4, <2>1
  <2> QED
    BY <1>4, <2>2 DEF ThreadGood
<1>5. ThreadGood(th, ob, l2)
  BY <1>2, <1>4 DEF ThreadGood
<1> QED
  BY <1>5 DEF l2

-----------------------------------------------------------------------------
(* The outbox *)

LEMMA BoxTail ==
    ASSUME NEW ob, NEW lg, NEW ty \in Nat, BoxGood(ob, lg, ty), ob # <<>>
    PROVE  /\ BoxGood(Tail(ob), lg, ty)
           /\ \A m : InBox(Tail(ob), m) <=> InBox(ob, m) /\ m # ob[1].n
           /\ ob[1].n \in Messages /\ ~InLog(lg, ob[1].n) /\ InBox(ob, ob[1].n) /\ ob[1].n <= ty
           /\ \A m \in Messages : InBox(ob, m) => ob[1].n <= m
<1> DEFINE o2 == Tail(ob)
<1>1. /\ ob \in Seq(Send) /\ Len(ob) \in Nat /\ Len(ob) >= 1
      /\ o2 \in Seq(Send) /\ Len(o2) = Len(ob) - 1
      /\ \A i \in 1..Len(o2) : o2[i] = ob[i + 1]
  BY HeadTailProperties, EmptySeq DEF BoxGood
<1> HIDE DEF o2
<1>2. /\ 1 \in 1..Len(ob)
      /\ \A i \in 1..Len(o2) : i + 1 \in 1..Len(ob) /\ i + 1 > 1
      /\ \A i \in 1..Len(ob) : i # 1 => i - 1 \in 1..Len(o2) /\ o2[i - 1] = ob[i]
  BY <1>1
<1>3. \A i \in 1..Len(ob) : ob[i].n \in Messages /\ ob[i].n \in Nat
  <2>1. \A i \in 1..Len(ob) : ob[i] \in Send
    BY <1>1
  <2>2. \A i \in 1..Len(ob) : ob[i].n \in Messages
    BY <2>1 DEF Send
  <2> QED
    BY <2>2, NumbersAre
<1>4. \A i \in 1..Len(ob) : i # 1 => ob[1].n < ob[i].n
  BY <1>1, <1>2 DEF BoxGood
<1>5. ASSUME NEW m, InBox(o2, m) PROVE InBox(ob, m) /\ m # ob[1].n
  <2>1. PICK i \in 1..Len(o2) : o2[i].n = m
    BY <1>5 DEF InBox
  <2>2. ob[i + 1].n = m /\ i + 1 \in 1..Len(ob) /\ i + 1 # 1
    BY <1>1, <1>2, <2>1
  <2> QED
    BY <1>2, <1>3, <1>4, <2>2 DEF InBox
<1>6. ASSUME NEW m, InBox(ob, m), m # ob[1].n PROVE InBox(o2, m)
  BY <1>2, <1>6 DEF InBox
<1>7. BoxGood(o2, lg, ty)
  <2>1. \A i \in 1..Len(o2) : o2[i].n <= ty /\ ~InLog(lg, o2[i].n)
    BY <1>1, <1>2 DEF BoxGood
  <2>2. ASSUME NEW i \in 1..Len(o2), NEW j \in 1..Len(o2), i < j PROVE o2[i].n < o2[j].n
    <3>1. i + 1 < j + 1 /\ i + 1 \in 1..Len(ob) /\ j + 1 \in 1..Len(ob)
      BY <1>1, <1>2, <2>2
    <3>2. ob[i + 1].n < ob[j + 1].n
      BY <3>1 DEF BoxGood
    <3> QED
      BY <1>1, <3>2
  <2> QED
    BY <1>1, <2>1, <2>2 DEF BoxGood
<1>8. /\ ob[1].n \in Messages /\ ~InLog(lg, ob[1].n) /\ InBox(ob, ob[1].n) /\ ob[1].n <= ty
  BY <1>2, <1>3 DEF BoxGood, InBox
<1>9. ASSUME NEW m \in Messages, InBox(ob, m) PROVE ob[1].n <= m
  <2>1. PICK i \in 1..Len(ob) : ob[i].n = m
    BY <1>9 DEF InBox
  <2>2. CASE i = 1
    BY <1>2, <1>3, <2>1, <2>2
  <2>3. CASE i # 1
    BY <1>2, <1>3, <1>4, <2>1, <2>3
  <2> QED
    BY <2>2, <2>3
<1> QED
  BY <1>5, <1>6, <1>7, <1>8, <1>9 DEF o2

LEMMA BoxAppend ==
    ASSUME NEW ob, NEW lg, NEW ty \in Nat, BoxGood(ob, lg, ty), LogGood(lg, ty),
           ty + 1 \in Messages
    PROVE  LET o2 == Append(ob, [n |-> ty + 1, checked |-> FALSE]) IN
           /\ BoxGood(o2, lg, ty + 1)
           /\ \A m : InBox(o2, m) <=> InBox(ob, m) \/ m = ty + 1
<1> DEFINE e == [n |-> ty + 1, checked |-> FALSE]
           o2 == Append(ob, e)
<1>1. ob \in Seq(Send) /\ Len(ob) \in Nat /\ e \in Send /\ e.n = ty + 1
  BY DEF BoxGood, Send
<1> HIDE DEF e
<1>2. /\ o2 \in Seq(Send) /\ Len(o2) = Len(ob) + 1
      /\ \A j \in 1..Len(ob) : o2[j] = ob[j]
      /\ o2[Len(ob) + 1] = e
  BY <1>1, AppendProperties
<1> HIDE DEF o2
<1>3. \A j \in 1..Len(o2) : j \in 1..Len(ob) \/ j = Len(ob) + 1
  BY <1>1, <1>2
<1>4. \A j \in 1..Len(ob) : ob[j].n \in Nat /\ ob[j].n <= ty
  <2>1. \A i \in 1..Len(ob) : ob[i] \in Send
    BY <1>1
  <2>2. \A i \in 1..Len(ob) : ob[i].n \in Messages
    BY <2>1 DEF Send
  <2> QED
    BY <2>2, NumbersAre DEF BoxGood
<1>5. ~InLog(lg, ty + 1)
  <2>1. \A j \in 1..Len(lg) : lg[j] \in Nat /\ lg[j] <= ty
    BY NumbersAre DEF LogGood
  <2> QED
    BY <2>1 DEF InLog
<1>6. \A i \in 1..Len(o2) : o2[i].n <= ty + 1 /\ ~InLog(lg, o2[i].n)
  <2>1. ASSUME NEW i \in 1..Len(ob) PROVE o2[i].n <= ty + 1 /\ ~InLog(lg, o2[i].n)
    BY <1>2, <1>4 DEF BoxGood
  <2> QED
    BY <1>1, <1>2, <1>3, <1>5, <2>1
<1>7. ASSUME NEW i \in 1..Len(o2), NEW j \in 1..Len(o2), i < j PROVE o2[i].n < o2[j].n
  <2>1. i \in 1..Len(ob)
    BY <1>1, <1>2, <1>7
  <2>2. CASE j \in 1..Len(ob)
    BY <1>2, <1>7, <2>1, <2>2 DEF BoxGood
  <2>3. CASE j = Len(ob) + 1
    BY <1>1, <1>2, <1>4, <2>1, <2>3
  <2> QED
    BY <1>3, <2>2, <2>3
<1>8. \A m : InBox(o2, m) <=> InBox(ob, m) \/ m = ty + 1
  <2>1. ASSUME NEW m, InBox(o2, m) PROVE InBox(ob, m) \/ m = ty + 1
    BY <2>1, <1>1, <1>2, <1>3 DEF InBox
  <2>2. ASSUME NEW m, InBox(ob, m) PROVE InBox(o2, m)
    <3>1. PICK j \in 1..Len(ob) : ob[j].n = m
      BY <2>2 DEF InBox
    <3>2. j \in 1..Len(o2) /\ o2[j].n = m
      BY <1>1, <1>2, <3>1
    <3> QED
      BY <3>2 DEF InBox
  <2>3. InBox(o2, ty + 1)
    <3>1. Len(ob) + 1 \in 1..Len(o2)
      BY <1>1, <1>2
    <3> QED
      BY <1>1, <1>2, <3>1 DEF InBox
  <2> QED
    BY <2>1, <2>2, <2>3
<1>9. BoxGood(o2, lg, ty + 1)
  BY <1>2, <1>6, <1>7 DEF BoxGood
<1> QED
  BY <1>8, <1>9 DEF o2, e

-----------------------------------------------------------------------------
(* The thread *)

LEMMA ThreadEmpty == ASSUME NEW ob, NEW lg PROVE ThreadGood(<<>>, ob, lg)
BY DEF ThreadGood

LEMMA ThreadLoaded ==
    ASSUME NEW ob, NEW lg, NEW ty, LogGood(lg, ty)
    PROVE  ThreadGood([i \in DOMAIN lg |-> Stored(lg[i])], ob, lg)
<1> DEFINE th == [i \in DOMAIN lg |-> Stored(lg[i])]
<1>1. lg \in Seq(Messages) /\ Len(lg) \in Nat /\ DOMAIN lg = 1..Len(lg)
  BY DEF LogGood
<1>2. \A i \in 1..Len(lg) : /\ Stored(lg[i]) \in Entry /\ ~Stored(lg[i]).local
                            /\ Stored(lg[i]).n = lg[i]
  <2>1. \A i \in 1..Len(lg) : lg[i] \in Messages
    BY <1>1
  <2>2. ASSUME NEW n \in Messages PROVE Stored(n) \in Entry /\ ~Stored(n).local /\ Stored(n).n = n
    BY Entries
  <2> QED
    BY <2>1, <2>2
<1>3. th \in Seq(Entry) /\ Len(th) = Len(lg) /\ \A i \in 1..Len(lg) : th[i] = Stored(lg[i])
  BY <1>1, <1>2
<1> HIDE DEF th
<1>4. \A i \in 1..Len(th) : ~th[i].local /\ th[i].n = lg[i]
  BY <1>2, <1>3
<1>5. \A i \in 1..Len(th) : InLog(lg, th[i].n)
  BY <1>3, <1>4 DEF InLog
<1>6. ASSUME NEW i \in 1..Len(th), NEW k \in 1..Len(th), i < k,
             NEW x \in 1..Len(lg), NEW y \in 1..Len(lg), lg[x] = th[i].n, lg[y] = th[k].n
      PROVE  x < y
  <2>1. x = i /\ y = k
    BY <1>3, <1>4, <1>6 DEF LogGood
  <2> QED
    BY <1>6, <2>1
<1>7. ThreadGood(th, ob, lg)
  BY <1>3, <1>4, <1>5, <1>6 DEF ThreadGood
<1> QED
  BY <1>7 DEF th

(* A message typed comes last. *)
LEMMA ThreadAppend ==
    ASSUME NEW th, NEW ob, NEW lg, NEW ty \in Nat, ThreadGood(th, ob, lg), BoxGood(ob, lg, ty),
           ty + 1 \in Messages, NEW o2, \A m : InBox(ob, m) \/ m = ty + 1 => InBox(o2, m)
    PROVE  /\ ThreadGood(Append(th, Local(ty + 1)), o2, lg)
           /\ Contains(Append(th, Local(ty + 1)), Local(ty + 1))
           /\ \A e : Contains(th, e) => Contains(Append(th, Local(ty + 1)), e)
<1> DEFINE e == Local(ty + 1)
           t2 == Append(th, e)
<1>1. th \in Seq(Entry) /\ Len(th) \in Nat /\ e \in Entry /\ e.local /\ e.n = ty + 1
  <2>1. ASSUME NEW n \in Messages PROVE Local(n) \in Entry /\ Local(n).local /\ Local(n).n = n
    BY Entries
  <2>2. e \in Entry /\ e.local /\ e.n = ty + 1
    BY <2>1
  <2> QED
    BY <2>2 DEF ThreadGood
<1> HIDE DEF e
<1>2. /\ t2 \in Seq(Entry) /\ Len(t2) = Len(th) + 1
      /\ \A j \in 1..Len(th) : t2[j] = th[j]
      /\ t2[Len(th) + 1] = e
  BY <1>1, AppendProperties
<1> HIDE DEF t2
<1>3. \A j \in 1..Len(t2) : j \in 1..Len(th) \/ j = Len(th) + 1
  BY <1>1, <1>2
<1>4. ASSUME NEW i \in 1..Len(t2)
      PROVE  IF t2[i].local THEN InBox(o2, t2[i].n) ELSE InLog(lg, t2[i].n)
  <2>1. CASE i \in 1..Len(th)
    BY <1>2, <2>1 DEF ThreadGood
  <2>2. CASE i = Len(th) + 1
    BY <1>1, <1>2, <2>2
  <2> QED
    BY <1>3, <2>1, <2>2
<1>5. ASSUME NEW i \in 1..Len(t2), NEW k \in 1..Len(t2), i < k, t2[i].local
      PROVE  t2[k].local /\ t2[i].n < t2[k].n
  <2>1. i \in 1..Len(th) /\ th[i].local
    BY <1>1, <1>2, <1>5
  <2>2. CASE k \in 1..Len(th)
    BY <1>2, <1>5, <2>1, <2>2 DEF ThreadGood
  <2>3. CASE k = Len(th) + 1
    <3>1. InBox(ob, th[i].n)
      BY <2>1 DEF ThreadGood
    <3>2. th[i].n <= ty
      BY <3>1 DEF BoxGood, InBox
    <3>3. th[i].n \in Nat
      <4>1. th[i] \in Entry
        BY <1>1, <2>1
      <4> QED
        BY <4>1, NumbersAre DEF Entry
    <3> QED
      BY <1>1, <1>2, <2>1, <2>3, <3>2, <3>3
  <2> QED
    BY <1>3, <2>2, <2>3
<1>6. ASSUME NEW i \in 1..Len(t2), NEW k \in 1..Len(t2), i < k, ~t2[i].local, ~t2[k].local,
             NEW x \in 1..Len(lg), NEW y \in 1..Len(lg), lg[x] = t2[i].n, lg[y] = t2[k].n
      PROVE  x < y
  <2>1. i \in 1..Len(th) /\ k \in 1..Len(th)
    BY <1>1, <1>2, <1>3, <1>6
  <2> QED
    <3>1. /\ ~th[i].local /\ ~th[k].local
          /\ lg[x] = th[i].n /\ lg[y] = th[k].n
      BY <1>2, <1>6, <2>1
    <3> QED
      BY <1>6, <2>1, <3>1 DEF ThreadGood
<1>7. ThreadGood(t2, o2, lg)
  BY <1>2, <1>4, <1>5, <1>6 DEF ThreadGood
<1>8. Len(th) + 1 \in 1..Len(t2) /\ \A j \in 1..Len(th) : j \in 1..Len(t2)
  BY <1>1, <1>2
<1>9. Contains(t2, e) /\ \A d : Contains(th, d) => Contains(t2, d)
  BY <1>2, <1>8 DEF Contains
<1> QED
  BY <1>7, <1>9 DEF t2, e

(* The first message under way is stored and takes its place: before it in  *)
(* the thread is only what was stored before, after it what is under way.   *)
LEMMA ThreadSettled ==
    ASSUME NEW th, NEW ob, NEW lg, NEW ty \in Nat, ThreadGood(th, ob, lg), BoxGood(ob, lg, ty),
           LogGood(lg, ty), ob # <<>>
    PROVE  LET n == ob[1].n  t2 == PutInPlace(th, n) IN
           /\ ThreadGood(t2, Tail(ob), Append(lg, n))
           /\ Contains(th, Local(n)) => Contains(t2, Stored(n))
           /\ \A m \in Messages : /\ Contains(th, Stored(m)) => Contains(t2, Stored(m))
                                  /\ m # n /\ Contains(th, Local(m)) => Contains(t2, Local(m))
<1> DEFINE n == ob[1].n
           t2 == PutInPlace(th, n)
           l2 == Append(lg, n)
           o2 == Tail(ob)
<1>1. /\ n \in Messages /\ ~InLog(lg, n) /\ n <= ty
      /\ \A m : InBox(o2, m) <=> InBox(ob, m) /\ m # n
      /\ \A m \in Messages : InBox(ob, m) => n <= m
  BY BoxTail
<1>2. /\ \A m : InLog(l2, m) <=> InLog(lg, m) \/ m = n
      /\ Len(l2) = Len(lg) + 1 /\ Len(lg) \in Nat
      /\ \A j \in 1..Len(lg) : l2[j] = lg[j]
      /\ l2[Len(lg) + 1] = n
  BY <1>1, LogAppend DEF LogGood
<1>3. ThreadGood(th, ob, l2)
  BY <1>1, ThreadSeesLog
<1>4. /\ \A m \in Messages : /\ Local(m) \in Entry /\ Local(m).local /\ Local(m).n = m
                             /\ Stored(m) \in Entry /\ ~Stored(m).local /\ Stored(m).n = m
      /\ \A e \in Entry : e.local /\ e.n = n => e = Local(n)
  BY <1>1, Entries
<1>5. th \in Seq(Entry) /\ Len(th) \in Nat /\ \A i \in 1..Len(th) : th[i] \in Entry
  BY DEF ThreadGood
<1>6. /\ t2 = [i \in 1..Len(th) |-> IF th[i] = Local(n) THEN Stored(n) ELSE th[i]]
  BY <1>5 DEF PutInPlace
<1> HIDE DEF t2, l2, o2, n
<1>7. /\ t2 \in Seq(Entry) /\ Len(t2) = Len(th)
      /\ \A i \in 1..Len(th) : t2[i] = IF th[i] = Local(n) THEN Stored(n) ELSE th[i]
  <2>1. \A i \in 1..Len(th) : (IF th[i] = Local(n) THEN Stored(n) ELSE th[i]) \in Entry
    BY <1>1, <1>4, <1>5
  <2>2. t2 \in [1..Len(th) -> Entry]
    BY <1>6, <2>1
  <2>3. t2 \in Seq(Entry) /\ Len(t2) = Len(th)
    BY <1>5, <2>2
  <2> QED
    BY <1>6, <2>3
<1>8. ASSUME NEW i \in 1..Len(th), th[i] # Local(n)
      PROVE  t2[i] = th[i] /\ (th[i].local => th[i].n # n)
  BY <1>4, <1>5, <1>7, <1>8
<1>9. ASSUME NEW i \in 1..Len(th), th[i] = Local(n)
      PROVE  t2[i] = Stored(n) /\ ~t2[i].local /\ t2[i].n = n /\ th[i].local /\ th[i].n = n
  BY <1>1, <1>4, <1>5, <1>7, <1>9
<1>10. ASSUME NEW i \in 1..Len(t2)
       PROVE  IF t2[i].local THEN InBox(o2, t2[i].n) ELSE InLog(l2, t2[i].n)
  <2>1. CASE th[i] = Local(n)
    BY <1>2, <1>7, <1>9, <2>1
  <2>2. CASE th[i] # Local(n)
    <3>1. t2[i] = th[i] /\ (th[i].local => th[i].n # n)
      BY <1>7, <1>8, <2>2
    <3>2. IF th[i].local THEN InBox(ob, th[i].n) ELSE InLog(lg, th[i].n)
      BY <1>7 DEF ThreadGood
    <3> QED
      BY <1>1, <1>2, <3>1, <3>2
  <2> QED
    BY <2>1, <2>2
<1>11. ASSUME NEW i \in 1..Len(t2), NEW k \in 1..Len(t2), i < k, t2[i].local
       PROVE  t2[k].local /\ t2[i].n < t2[k].n
  <2>1. th[i] # Local(n)
    BY <1>7, <1>9, <1>11
  <2>2. t2[i] = th[i] /\ th[i].local /\ th[i].n # n
    BY <1>7, <1>8, <1>11, <2>1
  <2>3. th[k].local /\ th[i].n < th[k].n
    BY <1>7, <1>11, <2>2 DEF ThreadGood
  <2>4. InBox(ob, th[i].n) /\ th[i].n \in Messages
    BY <1>5, <1>7, <2>2 DEF ThreadGood, Entry
  <2>5. n <= th[i].n /\ th[i].n \in Nat /\ n \in Nat
    BY <1>1, <2>4, NumbersAre
  <2>6. th[k] # Local(n)
    <3>1. th[k].n \in Nat
      BY <1>5, <1>7, NumbersAre DEF Entry
    <3> QED
      BY <1>7, <1>9, <2>3, <2>5, <3>1
  <2> QED
    BY <1>7, <1>8, <2>2, <2>3, <2>6
<1>12. ASSUME NEW i \in 1..Len(t2), NEW k \in 1..Len(t2), i < k, ~t2[i].local, ~t2[k].local,
              NEW x \in 1..Len(l2), NEW y \in 1..Len(l2), l2[x] = t2[i].n, l2[y] = t2[k].n
       PROVE  x < y
  <2>1. \A z \in 1..Len(l2) : z \in 1..Len(lg) \/ z = Len(lg) + 1
    BY <1>2
  <2>2. th[i] # Local(n)
    <3>1. SUFFICES ASSUME th[i] = Local(n) PROVE FALSE
      OBVIOUS
    <3>2. th[i].local /\ th[i].n = n
      BY <1>7, <1>9, <3>1
    <3>3. th[k].local /\ th[i].n < th[k].n
      BY <1>7, <1>12, <3>2 DEF ThreadGood
    <3>4. th[k] # Local(n)
      <4>1. n \in Nat
        BY <1>1, NumbersAre
      <4> QED
        BY <1>7, <1>9, <3>2, <3>3, <4>1
    <3> QED
      BY <1>7, <1>8, <1>12, <3>3, <3>4
  <2>3. t2[i] = th[i]
    BY <1>7, <1>8, <2>2
  <2>4. CASE th[k] = Local(n)
    <3>1. t2[k].n = n
      BY <1>7, <1>9, <2>4
    <3>2. y = Len(lg) + 1
      <4>1. y \notin 1..Len(lg)
        BY <1>1, <1>2, <1>12, <3>1 DEF InLog
      <4> QED
        BY <2>1, <4>1
    <3>3. InLog(lg, th[i].n)
      BY <1>7, <1>12, <2>3 DEF ThreadGood
    <3>4. th[i].n # n
      BY <1>1, <3>3
    <3>5. x # Len(lg) + 1
      BY <1>2, <1>12, <2>3, <3>4
    <3> QED
      BY <1>2, <2>1, <3>2, <3>5
  <2>5. CASE th[k] # Local(n)
    <3>1. t2[k] = th[k]
      BY <1>7, <1>8, <2>5
    <3>2. ~th[i].local /\ ~th[k].local /\ l2[x] = th[i].n /\ l2[y] = th[k].n
      BY <1>12, <2>3, <3>1
    <3> QED
      BY <1>3, <1>7, <1>12, <3>2 DEF ThreadGood
  <2> QED
    BY <2>4, <2>5
<1>13. ThreadGood(t2, o2, l2)
  BY <1>7, <1>10, <1>11, <1>12 DEF ThreadGood
<1>14. /\ Contains(th, Local(n)) => Contains(t2, Stored(n))
       /\ \A m \in Messages : /\ Contains(th, Stored(m)) => Contains(t2, Stored(m))
                              /\ m # n /\ Contains(th, Local(m)) => Contains(t2, Local(m))
  <2>1. ASSUME NEW e, Contains(th, e), e # Local(n) PROVE Contains(t2, e)
    BY <2>1, <1>7 DEF Contains
  <2>2. Contains(th, Local(n)) => Contains(t2, Stored(n))
    BY <1>7 DEF Contains
  <2>3. \A m \in Messages : Stored(m) # Local(n) /\ (m # n => Local(m) # Local(n))
    BY <1>1, <1>4
  <2> QED
    BY <2>1, <2>2, <2>3
<1> QED
  BY <1>13, <1>14 DEF t2, o2, l2, n

(* One element is taken out of a sequence, the rest moves up.               *)
LEMMA TakenOut ==
    ASSUME NEW S, NEW s \in Seq(S), NEW i \in 1..Len(s)
    PROVE  /\ RemoveAt(s, i) \in Seq(S) /\ Len(RemoveAt(s, i)) = Len(s) - 1
           /\ \A k \in 1..(Len(s) - 1) : RemoveAt(s, i)[k] = s[IF k < i THEN k ELSE k + 1]
<1> DEFINE a == SubSeq(s, 1, i - 1)
           b == SubSeq(s, i + 1, Len(s))
<1>1. Len(s) \in Nat /\ i \in Int /\ \A j \in 1..Len(s) : s[j] \in S
  OBVIOUS
<1>2. a \in Seq(S) /\ Len(a) = i - 1 /\ \A k \in 1..(i - 1) : a[k] = s[k]
  <2>1. \A j \in 1..(i - 1) : s[j] \in S
    BY <1>1
  <2>2. /\ a \in Seq(S) /\ Len(a) = IF 1 <= i - 1 THEN (i - 1) - 1 + 1 ELSE 0
        /\ \A k \in 1..((i - 1) - 1 + 1) : a[k] = s[1 + k - 1]
    BY <1>1, <2>1, SubSeqProperties
  <2> HIDE DEF a
  <2> QED
    BY <1>1, <2>2
<1>3. b \in Seq(S) /\ Len(b) = Len(s) - i /\ \A k \in 1..(Len(s) - i) : b[k] = s[i + k]
  <2>1. \A j \in (i + 1)..Len(s) : s[j] \in S
    BY <1>1
  <2>2. /\ b \in Seq(S) /\ Len(b) = IF i + 1 <= Len(s) THEN Len(s) - (i + 1) + 1 ELSE 0
        /\ \A k \in 1..(Len(s) - (i + 1) + 1) : b[k] = s[(i + 1) + k - 1]
    BY <1>1, <2>1, SubSeqProperties
  <2> HIDE DEF b
  <2> QED
    BY <1>1, <2>2
<1> HIDE DEF a, b
<1>4. /\ a \o b \in Seq(S) /\ Len(a \o b) = Len(a) + Len(b)
      /\ \A k \in 1..(Len(a) + Len(b)) : (a \o b)[k] = IF k <= Len(a) THEN a[k] ELSE b[k - Len(a)]
  BY <1>2, <1>3, ConcatProperties
<1>5. RemoveAt(s, i) = a \o b
  BY DEF RemoveAt, a, b
<1>6. ASSUME NEW k \in 1..(Len(s) - 1) PROVE (a \o b)[k] = s[IF k < i THEN k ELSE k + 1]
  <2>1. CASE k < i
    BY <1>1, <1>2, <1>3, <1>4, <2>1
  <2>2. CASE ~(k < i)
    <3>1. k - (i - 1) \in 1..(Len(s) - i) /\ ~(k <= i - 1) /\ i + (k - (i - 1)) = k + 1
      BY <1>1, <2>2
    <3>2. (a \o b)[k] = b[k - (i - 1)]
      BY <1>1, <1>2, <1>3, <1>4, <3>1
    <3>3. b[k - (i - 1)] = s[k + 1]
      BY <1>3, <3>1
    <3> QED
      BY <2>2, <3>2, <3>3
  <2> QED
    BY <2>1, <2>2
<1> QED
  BY <1>1, <1>2, <1>3, <1>4, <1>5, <1>6

(* The first message under way is taken out: nothing else changes its order. *)
LEMMA ThreadTaken ==
    ASSUME NEW th, NEW ob, NEW lg, NEW l0, NEW ty \in Nat, ThreadGood(th, ob, lg),
           BoxGood(ob, l0, ty), ob # <<>>
    PROVE  LET n == ob[1].n  t2 == TakeOut(th, n) IN
           /\ ThreadGood(t2, Tail(ob), lg)
           /\ \A m \in Messages : /\ Contains(th, Stored(m)) => Contains(t2, Stored(m))
                                  /\ m # n /\ Contains(th, Local(m)) => Contains(t2, Local(m))
<1> DEFINE n == ob[1].n
           t2 == TakeOut(th, n)
           o2 == Tail(ob)
<1>1. n \in Messages /\ \A m : InBox(o2, m) <=> InBox(ob, m) /\ m # n
  BY BoxTail
<1>2. /\ \A m \in Messages : /\ Local(m) \in Entry /\ Local(m).local /\ Local(m).n = m
                             /\ Stored(m) \in Entry /\ ~Stored(m).local /\ Stored(m).n = m
      /\ \A e \in Entry : e.local /\ e.n = n => e = Local(n)
  BY <1>1, Entries
<1>3. th \in Seq(Entry) /\ Len(th) \in Nat /\ \A i \in 1..Len(th) : th[i] \in Entry
  BY DEF ThreadGood
<1> HIDE DEF n
<1>4. \A m \in Messages : Stored(m) # Local(n) /\ (m # n => Local(m) # Local(n))
  BY <1>1, <1>2
<1>5. CASE ~Contains(th, Local(n))
  <2>1. t2 = th
    BY <1>5 DEF TakeOut
  <2> HIDE DEF t2, o2
  <2>2. ASSUME NEW i \in 1..Len(th) PROVE th[i].local => th[i].n # n
    BY <1>2, <1>3, <1>5, <2>2 DEF Contains
  <2>3. ASSUME NEW i \in 1..Len(th)
        PROVE  IF th[i].local THEN InBox(o2, th[i].n) ELSE InLog(lg, th[i].n)
    BY <1>1, <2>2 DEF ThreadGood
  <2>4. ThreadGood(th, o2, lg)
    BY <2>3 DEF ThreadGood
  <2> QED
    BY <2>1, <2>4 DEF t2, o2, n
<1>6. CASE Contains(th, Local(n))
  <2> DEFINE i == CHOOSE i \in DOMAIN th : th[i] = Local(n)
             g(k) == IF k < i THEN k ELSE k + 1
  <2>1. i \in 1..Len(th) /\ th[i] = Local(n)
    BY <1>3, <1>6 DEF Contains
  <2>2. t2 = RemoveAt(th, i)
    BY <1>6 DEF TakeOut
  <2> HIDE DEF i, t2, o2
  <2>3. /\ t2 \in Seq(Entry) /\ Len(t2) = Len(th) - 1
        /\ \A k \in 1..(Len(th) - 1) : t2[k] = th[g(k)]
    BY <1>3, <2>1, <2>2, TakenOut
  <2>4. /\ \A k \in 1..(Len(th) - 1) : g(k) \in 1..Len(th) /\ g(k) # i
        /\ \A j, k \in 1..(Len(th) - 1) : j < k => g(j) < g(k)
        /\ \A j \in 1..Len(th) : j # i => \E k \in 1..(Len(th) - 1) : g(k) = j
    <3>1. ASSUME NEW j \in 1..Len(th), j # i PROVE \E k \in 1..(Len(th) - 1) : g(k) = j
      <4>1. CASE j < i
        BY <1>3, <2>1, <4>1
      <4>2. CASE ~(j < i)
        <5>1. j - 1 \in 1..(Len(th) - 1) /\ g(j - 1) = j
          BY <1>3, <2>1, <3>1, <4>2
        <5> QED
          BY <5>1
      <4> QED
        BY <4>1, <4>2
    <3> QED
      BY <1>3, <2>1, <3>1
  <2> HIDE DEF g
  <2>5. \A j \in 1..Len(th) : j # i /\ th[j].local => th[j].n # n
    <3>1. th[i].local /\ th[i].n = n /\ n \in Nat
      BY <1>1, <1>2, <2>1, NumbersAre
    <3>2. \A j \in 1..Len(th) : th[j].n \in Nat
      BY <1>3, NumbersAre DEF Entry
    <3>3. \A j \in 1..Len(th) : j < i /\ th[j].local => th[j].n < n
      BY <2>1, <3>1 DEF ThreadGood
    <3>4. \A j \in 1..Len(th) : i < j => n < th[j].n
      BY <2>1, <3>1 DEF ThreadGood
    <3>5. \A j \in 1..Len(th) : j < i \/ j = i \/ i < j
      BY <2>1
    <3> QED
      BY <3>1, <3>2, <3>3, <3>4, <3>5
  <2>6. ASSUME NEW k \in 1..Len(t2)
        PROVE  IF t2[k].local THEN InBox(o2, t2[k].n) ELSE InLog(lg, t2[k].n)
    <3>1. t2[k] = th[g(k)] /\ g(k) \in 1..Len(th) /\ g(k) # i
      BY <2>3, <2>4
    <3>2. IF th[g(k)].local THEN InBox(ob, th[g(k)].n) ELSE InLog(lg, th[g(k)].n)
      BY <3>1 DEF ThreadGood
    <3> QED
      BY <1>1, <2>5, <3>1, <3>2
  <2>7. ASSUME NEW j \in 1..Len(t2), NEW k \in 1..Len(t2), j < k, t2[j].local
        PROVE  t2[k].local /\ t2[j].n < t2[k].n
    <3>1. /\ t2[j] = th[g(j)] /\ t2[k] = th[g(k)] /\ g(j) < g(k)
          /\ g(j) \in 1..Len(th) /\ g(k) \in 1..Len(th)
      BY <2>3, <2>4, <2>7
    <3> QED
      BY <2>7, <3>1 DEF ThreadGood
  <2>8. ASSUME NEW j \in 1..Len(t2), NEW k \in 1..Len(t2), j < k, ~t2[j].local, ~t2[k].local,
               NEW x \in 1..Len(lg), NEW y \in 1..Len(lg), lg[x] = t2[j].n, lg[y] = t2[k].n
        PROVE  x < y
    <3>1. /\ t2[j] = th[g(j)] /\ t2[k] = th[g(k)] /\ g(j) < g(k)
          /\ g(j) \in 1..Len(th) /\ g(k) \in 1..Len(th)
      BY <2>3, <2>4, <2>8
    <3> QED
      BY <2>8, <3>1 DEF ThreadGood
  <2>9. ThreadGood(t2, o2, lg)
    BY <2>3, <2>6, <2>7, <2>8 DEF ThreadGood
  <2>10. ASSUME NEW e, Contains(th, e), e # Local(n) PROVE Contains(t2, e)
    <3>1. PICK j \in 1..Len(th) : th[j] = e
      BY <2>10 DEF Contains
    <3>2. PICK k \in 1..(Len(th) - 1) : g(k) = j
      BY <2>1, <2>4, <2>10, <3>1
    <3> QED
      BY <2>3, <3>1, <3>2 DEF Contains
  <2> QED
    BY <1>4, <2>9, <2>10 DEF t2, o2, n
<1> QED
  BY <1>5, <1>6

-----------------------------------------------------------------------------
(* Steps *)

LEMMA ChatInitInv == ChatInit => ChatInv
<1> SUFFICES ASSUME ChatInit PROVE ChatInv
  OBVIOUS
<1>1. /\ view = [t \in ChatTabs |-> Away] /\ outbox = [t \in ChatTabs |-> <<>>]
      /\ log = <<>> /\ answered = {} /\ typed = 0 /\ opens = 0 /\ chatMisses = 0
  BY DEF ChatInit
<1>2. Away \in ViewRow /\ Away.thread = <<>> /\ Away.mine = {}
  BY DEF Away, ViewRow, Reads, Steps
<1>3. LogGood(<<>>, 0) /\ BoxGood(<<>>, <<>>, 0)
  BY DEF LogGood, BoxGood
<1>4. \A t \in ChatTabs : TabInv(t)
  BY <1>1, <1>2, <1>3, ThreadEmpty DEF TabInv, MineGood
<1>5. \A t, u \in ChatTabs : Apart(t, u)
  BY <1>1 DEF Apart, InBox
<1>6. status \in Steps
  BY DEF ChatInit, Steps
<1> QED
  BY <1>1, <1>2, <1>3, <1>4, <1>5, <1>6, NumbersAre DEF ChatInv

LEMMA ChatCounts ==
    ASSUME ChatInv
    PROVE  /\ OpenOne => opens' \in 0..MaxOpens
           /\ ChatMiss => chatMisses' \in 0..MaxChatMisses
           /\ opens \in 0..MaxOpens /\ chatMisses \in 0..MaxChatMisses
BY NumbersAre DEF ChatInv, OpenOne, ChatMiss

(* A tab that shows another page, or more of one, and of which nothing was  *)
(* typed yet; a tab that only its flags change.                             *)
LEMMA PageTurns ==
    ASSUME ChatInv, NEW t \in ChatTabs, NEW v \in ViewRow, NEW ob \in Seq(Send),
           view' = [view EXCEPT ![t] = v], outbox' = [outbox EXCEPT ![t] = ob],
           UNCHANGED <<status, log, answered, typed>>,
           opens' \in 0..MaxOpens, chatMisses' \in 0..MaxChatMisses,
           ThreadGood(v.thread, ob, log), BoxGood(ob, log, typed),
           MineGood(v.mine, v.thread, ob, typed, answered),
           v.at = "loading" => v.mine = {}, v.mine \subseteq view[t].mine,
           \A n \in Messages : InBox(ob, n) => InBox(outbox[t], n)
    PROVE  ChatInv'
<1>1. /\ view' \in [ChatTabs -> ViewRow] /\ outbox' \in [ChatTabs -> Seq(Send)]
      /\ view'[t] = v /\ outbox'[t] = ob
      /\ \A u \in ChatTabs : u # t => view'[u] = view[u] /\ outbox'[u] = outbox[u]
  BY DEF ChatInv
<1>2. ASSUME NEW u \in ChatTabs PROVE TabInv(u)'
  <2>1. CASE u = t
    BY <1>1, <2>1 DEF TabInv
  <2>2. CASE u # t
    BY <1>1, <2>2 DEF TabInv, ChatInv
  <2> QED
    BY <2>1, <2>2
<1>3. ASSUME NEW u \in ChatTabs, NEW w \in ChatTabs, u # w PROVE Apart(u, w)'
  <2>1. Apart(u, w)
    BY <1>3 DEF ChatInv
  <2>2. /\ view'[u].mine \subseteq view[u].mine
        /\ \A n \in Messages : InBox(outbox'[u], n) => InBox(outbox[u], n)
        /\ \A n \in Messages : InBox(outbox'[w], n) => InBox(outbox[w], n)
    BY <1>1
  <2> QED
    BY <2>1, <2>2 DEF Apart
<1> QED
  BY <1>1, <1>2, <1>3 DEF ChatInv

(* A page with nothing on it.                                               *)
LEMMA AwayIs ==
    /\ \A at \in {"loading", "not found", "error"} :
          [Away EXCEPT !.at = at] \in {v \in ViewRow : v.thread = <<>> /\ v.mine = {}}
    /\ \A at \in {"list", "inactive"}, s \in Steps :
          [Away EXCEPT !.at = at, !.status = s] \in {v \in ViewRow : v.thread = <<>> /\ v.mine = {}}
<1>1. /\ Away \in ViewRow /\ Away.thread = <<>> /\ Away.mine = {}
  BY DEF Away, ViewRow, Reads, Steps
<1>2. ASSUME NEW at \in {"loading", "not found", "error"}
      PROVE  [Away EXCEPT !.at = at] \in {v \in ViewRow : v.thread = <<>> /\ v.mine = {}}
  BY <1>1 DEF ViewRow
<1>3. ASSUME NEW at \in {"list", "inactive"}, NEW s \in Steps
      PROVE  [Away EXCEPT !.at = at, !.status = s]
                \in {v \in ViewRow : v.thread = <<>> /\ v.mine = {}}
  BY <1>1 DEF ViewRow
<1> QED
  BY <1>2, <1>3

LEMMA PageLeft ==
    ASSUME ChatInv, NEW t \in ChatTabs, NEW v \in {v \in ViewRow : v.thread = <<>> /\ v.mine = {}},
           See(t, v), UNCHANGED <<status, log, outbox, answered, typed>>,
           opens' \in 0..MaxOpens, chatMisses' \in 0..MaxChatMisses
    PROVE  ChatInv'
<1>1. v \in ViewRow /\ v.thread = <<>> /\ v.mine = {}
  OBVIOUS
<1>2. view' = [view EXCEPT ![t] = v] /\ outbox' = [outbox EXCEPT ![t] = outbox[t]]
  BY DEF See, ChatInv
<1>3. BoxGood(outbox[t], log, typed) /\ outbox[t] \in Seq(Send)
  BY DEF ChatInv, TabInv
<1>4. ThreadGood(v.thread, outbox[t], log) /\ MineGood(v.mine, v.thread, outbox[t], typed, answered)
  BY <1>1, ThreadEmpty DEF MineGood
<1>5. v.mine \subseteq view[t].mine
  BY <1>1
<1> QED
  BY <1>1, <1>2, <1>3, <1>4, <1>5, PageTurns

LEMMA OpenPagesInv == ASSUME ChatInv, NEW t \in ChatTabs, BookingsPage(t) \/ OpenBooking(t)
                      PROVE  ChatInv'
<1>1. opens' \in 0..MaxOpens /\ chatMisses' \in 0..MaxChatMisses
  BY ChatCounts DEF BookingsPage, OpenBooking
<1>2. UNCHANGED <<status, log, outbox, answered, typed>> /\ status \in Steps
  BY DEF BookingsPage, OpenBooking, ChatInv
<1>3. PICK v \in {v \in ViewRow : v.thread = <<>> /\ v.mine = {}} : See(t, v)
  <2>1. CASE BookingsPage(t)
    BY <1>2, <2>1, AwayIs DEF BookingsPage
  <2>2. CASE OpenBooking(t)
    BY <2>2, AwayIs DEF OpenBooking
  <2> QED
    BY <2>1, <2>2
<1> QED
  BY <1>1, <1>2, <1>3, PageLeft

(* What a page is rendered to keeps its thread or leaves it altogether.     *)
LEMMA RenderedIs ==
    ASSUME NEW v \in ViewRow
    PROVE  /\ Rendered(v) \in ViewRow
           /\ Rendered(v).at # "loading"
           /\ \/ Rendered(v).thread = v.thread /\ Rendered(v).mine = v.mine
              \/ Rendered(v).thread = <<>> /\ Rendered(v).mine = {}
<1>1. CASE v.status = "active"
  BY <1>1 DEF Rendered, ViewRow
<1>2. CASE v.status # "active"
  <2>1. v.status \in Steps
    BY DEF ViewRow
  <2> DEFINE w == [Away EXCEPT !.at = "inactive", !.status = v.status]
  <2>2. w \in ViewRow /\ w.thread = <<>> /\ w.mine = {}
    BY <2>1, AwayIs
  <2>3. w.at = "inactive"
    BY <2>2 DEF ViewRow, Away
  <2> HIDE DEF w
  <2> QED
    BY <1>2, <2>2, <2>3 DEF Rendered, w
<1> QED
  BY <1>1, <1>2

LEMMA ReadInv ==
    ASSUME ChatInv, NEW t \in ChatTabs, NEW r \in Reads, BookingDetailRead(t, r) PROVE ChatInv'
<1> DEFINE v == view[t]
           thread == [i \in DOMAIN log |-> Stored(log[i])]
           w == IF r = "booking" THEN [v EXCEPT !.status = status] ELSE [v EXCEPT !.thread = thread]
<1>1. /\ v \in ViewRow /\ status \in Steps /\ LogGood(log, typed) /\ TabInv(t)
      /\ UNCHANGED <<status, log, outbox, answered, typed>>
      /\ opens' \in 0..MaxOpens /\ chatMisses' \in 0..MaxChatMisses
  BY ChatCounts DEF ChatInv, BookingDetailRead
<1>2. CASE See(t, [Away EXCEPT !.at = "error"])
  BY <1>1, <1>2, AwayIs, PageLeft
<1>3. CASE See(t, Arrived(w, r))
  <2>1. ThreadGood(thread, outbox[t], log) /\ thread \in Seq(Entry)
    BY <1>1, ThreadLoaded DEF ThreadGood
  <2> DEFINE x == [w EXCEPT !.got = @ \cup {r}]
             y == Arrived(w, r)
  <2> HIDE DEF thread
  <2>2. w \in ViewRow /\ w.mine = v.mine /\ w.thread \in {v.thread, thread}
    BY <1>1, <2>1 DEF ViewRow
  <2> HIDE DEF w
  <2>3. x \in ViewRow /\ x.mine = v.mine /\ x.thread \in {v.thread, thread}
    BY <2>2 DEF ViewRow
  <2>4. y = IF x.got = Reads THEN Rendered(x) ELSE x
    BY DEF Arrived
  <2> HIDE DEF x, y
  <2>5. y \in ViewRow /\ \/ y.mine = v.mine /\ y.thread \in {v.thread, thread}
                         \/ y.mine = {} /\ y.thread = <<>>
    BY <2>3, <2>4, RenderedIs
  <2>6. ThreadGood(y.thread, outbox[t], log)
    BY <1>1, <2>1, <2>5, ThreadEmpty DEF TabInv
  <2>7. v.mine = {}
    BY <1>1 DEF BookingDetailRead, TabInv
  <2>8. y.mine = {} /\ MineGood(y.mine, y.thread, outbox[t], typed, answered)
    BY <2>5, <2>7 DEF MineGood
  <2>9. view' = [view EXCEPT ![t] = y] /\ outbox' = [outbox EXCEPT ![t] = outbox[t]]
    BY <1>1, <1>3 DEF See, ChatInv, y
  <2>10. BoxGood(outbox[t], log, typed) /\ outbox[t] \in Seq(Send)
    BY DEF ChatInv, TabInv
  <2>11. y.mine \subseteq view[t].mine
    BY <2>8
  <2> QED
    BY <1>1, <2>5, <2>6, <2>8, <2>9, <2>10, <2>11, PageTurns
<1> QED
  BY <1>2, <1>3 DEF BookingDetailRead

-----------------------------------------------------------------------------
(* Sends *)

LEMMA LogLater ==
    ASSUME NEW lg, NEW ty \in Nat, LogGood(lg, ty), NEW ty2 \in Nat, ty <= ty2 PROVE LogGood(lg, ty2)
<1>1. \A j \in 1..Len(lg) : lg[j] \in Nat /\ lg[j] <= ty
  BY NumbersAre DEF LogGood
<1>2. \A j \in 1..Len(lg) : lg[j] <= ty2
  BY <1>1
<1> QED
  BY <1>2 DEF LogGood

LEMMA BoxNumbers ==
    ASSUME NEW ob, NEW lg, NEW ty \in Nat, BoxGood(ob, lg, ty)
    PROVE  /\ Len(ob) \in Nat
           /\ \A i \in 1..Len(ob) : ob[i] \in Send /\ ob[i].n \in Messages /\ ob[i].n \in Nat
           /\ \A m : InBox(ob, m) => m \in Messages /\ m \in Nat /\ m <= ty /\ ~InLog(lg, m)
<1>1. Len(ob) \in Nat /\ \A i \in 1..Len(ob) : ob[i] \in Send
  BY DEF BoxGood
<1>2. \A i \in 1..Len(ob) : ob[i].n \in Messages
  BY <1>1 DEF Send
<1>3. \A i \in 1..Len(ob) : ob[i].n \in Nat
  BY <1>2, NumbersAre
<1> QED
  BY <1>1, <1>2, <1>3 DEF BoxGood, InBox

(* A later count of what was typed, or a longer log.                        *)
LEMMA BoxLater ==
    ASSUME NEW ob, NEW lg, NEW ty \in Nat, BoxGood(ob, lg, ty), NEW ty2 \in Nat, ty <= ty2,
           NEW l2, \A m : InBox(ob, m) /\ InLog(l2, m) => InLog(lg, m)
    PROVE  BoxGood(ob, l2, ty2)
<1>1. \A i \in 1..Len(ob) : InBox(ob, ob[i].n)
  BY DEF InBox
<1>2. \A i \in 1..Len(ob) : ob[i].n <= ty2 /\ ~InLog(l2, ob[i].n)
  BY <1>1, BoxNumbers, SMTT(30) DEF BoxGood
<1> QED
  BY <1>2 DEF BoxGood

LEMMA MineLater ==
    ASSUME NEW mine \in SUBSET Messages, NEW th, NEW ob, NEW ty \in Nat, NEW ans,
           MineGood(mine, th, ob, ty, ans),
           NEW ty2 \in Nat, ty <= ty2, NEW a2, \A m \in mine : m \in a2 => m \in ans
    PROVE  MineGood(mine, th, ob, ty2, a2)
<1>1. \A m \in mine : m \in Nat /\ m <= ty
  BY NumbersAre DEF MineGood
<1>2. \A m \in mine : m <= ty2
  BY <1>1
<1> QED
  BY <1>2 DEF MineGood

(* A tab sees a message stored that none of its sends is about.             *)
LEMMA OthersSee ==
    ASSUME ChatInv, NEW u \in ChatTabs, view'[u] = view[u], outbox'[u] = outbox[u],
           NEW n \in Messages, ~InLog(log, n), log' = Append(log, n),
           typed' \in Nat, typed <= typed', n <= typed',
           answered' \subseteq answered \cup {n}, ~InBox(outbox[u], n), n \notin view[u].mine
    PROVE  TabInv(u)'
<1>1. TabInv(u) /\ LogGood(log, typed) /\ typed \in Nat /\ view[u].mine \in SUBSET Messages
  <2>1. view[u] \in ViewRow /\ TabInv(u) /\ LogGood(log, typed) /\ typed \in 0..MaxMessages
    BY DEF ChatInv
  <2>2. view[u].mine \in SUBSET Messages
    BY <2>1 DEF ViewRow
  <2>3. typed \in Nat
    BY <2>1, NumbersAre
  <2> QED
    BY <2>1, <2>2, <2>3
<1>2. \A m : InLog(log', m) <=> InLog(log, m) \/ m = n
  BY <1>1, LogAppend
<1>3. ThreadGood(view[u].thread, outbox[u], log')
  BY <1>1, ThreadSeesLog DEF TabInv
<1>4. BoxGood(outbox[u], log', typed')
  <2>1. BoxGood(outbox[u], log, typed)
    BY <1>1 DEF TabInv
  <2>2. \A m : InBox(outbox[u], m) /\ InLog(log', m) => InLog(log, m)
    BY <1>2
  <2> QED
    BY <1>1, <2>1, <2>2, BoxLater
<1>5. MineGood(view[u].mine, view[u].thread, outbox[u], typed', answered')
  <2>1. MineGood(view[u].mine, view[u].thread, outbox[u], typed, answered)
    BY <1>1 DEF TabInv
  <2>2. \A m \in view[u].mine : m \in answered' => m \in answered
    OBVIOUS
  <2> QED
    BY <1>1, <2>1, <2>2, MineLater
<1> QED
  BY <1>1, <1>3, <1>4, <1>5 DEF TabInv

(* The first message under way from a tab is stored.                        *)
LEMMA SendStored ==
    ASSUME ChatInv, NEW t \in ChatTabs, outbox[t] # <<>>, NEW v \in ViewRow,
           view' = [view EXCEPT ![t] = v], outbox' = [outbox EXCEPT ![t] = Tail(@)],
           log' = Append(log, outbox[t][1].n), UNCHANGED <<status, typed, opens>>,
           chatMisses' \in 0..MaxChatMisses,
           answered' \in {answered, answered \cup {outbox[t][1].n}},
           ThreadGood(v.thread, Tail(outbox[t]), log'),
           MineGood(v.mine, v.thread, Tail(outbox[t]), typed, answered'),
           v.at = "loading" => v.mine = {}, v.mine \subseteq view[t].mine
    PROVE  ChatInv'
<1> DEFINE n == outbox[t][1].n
           ob == Tail(outbox[t])
<1>1. /\ BoxGood(outbox[t], log, typed) /\ LogGood(log, typed) /\ typed \in Nat
      /\ typed \in 0..MaxMessages
  BY NumbersAre DEF ChatInv, TabInv
<1>2. /\ BoxGood(ob, log, typed)
      /\ \A m : InBox(ob, m) <=> InBox(outbox[t], m) /\ m # n
      /\ n \in Messages /\ ~InLog(log, n) /\ InBox(outbox[t], n) /\ n <= typed
  BY <1>1, BoxTail
<1> HIDE DEF n, ob
<1>3. /\ log' = Append(log, n) /\ answered' \subseteq answered \cup {n}
      /\ view' = [view EXCEPT ![t] = v] /\ outbox' = [outbox EXCEPT ![t] = ob]
  BY DEF n, ob
<1>4. LogGood(log', typed) /\ \A m : InLog(log', m) <=> InLog(log, m) \/ m = n
  BY <1>1, <1>2, <1>3, LogAppend
<1>5. ob \in Seq(Send)
  BY <1>2 DEF BoxGood
<1>6. /\ view' \in [ChatTabs -> ViewRow] /\ outbox' \in [ChatTabs -> Seq(Send)]
      /\ view'[t] = v /\ outbox'[t] = ob
      /\ \A u \in ChatTabs : u # t => view'[u] = view[u] /\ outbox'[u] = outbox[u]
  BY <1>3, <1>5 DEF ChatInv
<1>7. \A u \in ChatTabs : u # t => ~InBox(outbox[u], n) /\ n \notin view[u].mine
  BY <1>2 DEF ChatInv, Apart
<1>8. ASSUME NEW u \in ChatTabs PROVE TabInv(u)'
  <2>1. CASE u = t
    <3>1. BoxGood(ob, log', typed)
      <4>1. \A m : InBox(ob, m) /\ InLog(log', m) => InLog(log, m)
        BY <1>2, <1>4
      <4> QED
        BY <1>1, <1>2, <4>1, BoxLater
    <3> QED
      BY <1>6, <2>1, <3>1 DEF TabInv, ob
  <2>2. CASE u # t
    BY <1>1, <1>2, <1>3, <1>6, <1>7, <2>2, OthersSee, SMTT(30)
  <2> QED
    BY <2>1, <2>2
<1>9. ASSUME NEW u \in ChatTabs, NEW w \in ChatTabs, u # w PROVE Apart(u, w)'
  <2>1. Apart(u, w)
    BY <1>9 DEF ChatInv
  <2>2. /\ view'[u].mine \subseteq view[u].mine
        /\ \A m \in Messages : InBox(outbox'[u], m) => InBox(outbox[u], m)
        /\ \A m \in Messages : InBox(outbox'[w], m) => InBox(outbox[w], m)
    BY <1>2, <1>6
  <2> QED
    BY <2>1, <2>2 DEF Apart
<1>10. answered' \subseteq Messages /\ \A m \in answered' : InLog(log', m)
  BY <1>2, <1>3, <1>4 DEF ChatInv
<1> QED
  BY <1>1, <1>4, <1>6, <1>8, <1>9, <1>10 DEF ChatInv

(* What is left of a thread after its first send: nothing of it is missing. *)
LEMMA FailKeeps ==
    ASSUME ChatInv, NEW t \in ChatTabs, outbox[t] # <<>>, NEW lg, ThreadGood(view[t].thread, outbox[t], lg),
           Fail(t)
    PROVE  \E v \in ViewRow :
              /\ view' = [view EXCEPT ![t] = v]
              /\ ThreadGood(v.thread, Tail(outbox[t]), lg)
              /\ MineGood(v.mine, v.thread, Tail(outbox[t]), typed, answered)
              /\ v.mine = view[t].mine /\ v.at = view[t].at
<1> DEFINE n == outbox[t][1].n
           t2 == TakeOut(view[t].thread, n)
           err == view[t].error \/ n \in view[t].mine
           v == [view[t] EXCEPT !.thread = t2, !.error = err]
<1>1. /\ BoxGood(outbox[t], log, typed) /\ typed \in Nat /\ view[t] \in ViewRow
      /\ MineGood(view[t].mine, view[t].thread, outbox[t], typed, answered)
  BY NumbersAre DEF ChatInv, TabInv
<1>2. /\ ThreadGood(t2, Tail(outbox[t]), lg)
      /\ \A m \in Messages : /\ Contains(view[t].thread, Stored(m)) => Contains(t2, Stored(m))
                             /\ m # n /\ Contains(view[t].thread, Local(m)) => Contains(t2, Local(m))
  BY <1>1, ThreadTaken
<1>3. \A m : InBox(Tail(outbox[t]), m) <=> InBox(outbox[t], m) /\ m # n
  BY <1>1, BoxTail
<1>4. err \in BOOLEAN /\ t2 \in Seq(Entry)
  BY <1>2 DEF ThreadGood
<1>5. view' = [view EXCEPT ![t] = v]
  BY DEF Fail, See
<1> HIDE DEF t2, err, n
<1>6. v \in ViewRow /\ v.thread = t2 /\ v.mine = view[t].mine /\ v.at = view[t].at
  BY <1>1, <1>4 DEF ViewRow
<1> HIDE DEF v
<1>7. MineGood(v.mine, t2, Tail(outbox[t]), typed, answered)
  <2>1. view[t].mine \subseteq Messages
    BY <1>1 DEF ViewRow
  <2> QED
    BY <1>1, <1>2, <1>3, <1>6, <2>1 DEF MineGood
<1> QED
  BY <1>2, <1>5, <1>6, <1>7

LEMMA CheckInv == ASSUME ChatInv, NEW t \in ChatTabs, CheckActive(t) PROVE ChatInv'
<1>1. /\ BoxGood(outbox[t], log, typed) /\ outbox[t] # <<>> /\ typed \in Nat
      /\ TabInv(t) /\ view[t] \in ViewRow
      /\ UNCHANGED <<status, log, answered, typed, opens>>
      /\ chatMisses' \in 0..MaxChatMisses /\ opens' \in 0..MaxOpens
  BY NumbersAre, ChatCounts DEF ChatInv, TabInv, CheckActive
<1>2. CASE Fail(t)
  <2>1. PICK v \in ViewRow :
              /\ view' = [view EXCEPT ![t] = v]
              /\ ThreadGood(v.thread, Tail(outbox[t]), log)
              /\ MineGood(v.mine, v.thread, Tail(outbox[t]), typed, answered)
              /\ v.mine = view[t].mine /\ v.at = view[t].at
    BY <1>1, <1>2, FailKeeps DEF TabInv
  <2>2. /\ BoxGood(Tail(outbox[t]), log, typed) /\ Tail(outbox[t]) \in Seq(Send)
        /\ \A m \in Messages : InBox(Tail(outbox[t]), m) => InBox(outbox[t], m)
    BY <1>1, BoxTail DEF BoxGood
  <2>3. outbox' = [outbox EXCEPT ![t] = Tail(outbox[t])]
    BY <1>2 DEF Fail
  <2>4. v.at = "loading" => v.mine = {}
    BY <1>1, <2>1 DEF TabInv
  <2> HIDE DEF ChatInv
  <2> QED
    BY <1>1, <2>1, <2>2, <2>3, <2>4, PageTurns
<1>3. CASE outbox' = [outbox EXCEPT ![t][1].checked = TRUE] /\ UNCHANGED <<view, chatMisses>>
  <2> DEFINE e == [outbox[t][1] EXCEPT !.checked = TRUE]
             ob == [outbox[t] EXCEPT ![1] = e]
  <2>1. 1 \in 1..Len(outbox[t]) /\ Len(outbox[t]) \in Nat /\ outbox[t] \in Seq(Send)
        /\ outbox[t][1] \in Send
    <3>1. outbox[t] \in Seq(Send)
      BY <1>1 DEF BoxGood
    <3>2. Len(outbox[t]) \in Nat /\ Len(outbox[t]) # 0
      BY <1>1, <3>1
    <3> QED
      BY <3>1, <3>2
  <2>2. e \in Send /\ e.n = outbox[t][1].n
    BY <2>1 DEF Send
  <2>3. outbox' = [outbox EXCEPT ![t] = ob]
    BY <1>3
  <2> HIDE DEF e
  <2>4. /\ ob \in Seq(Send) /\ Len(ob) = Len(outbox[t])
        /\ \A i \in 1..Len(ob) : ob[i] = IF i = 1 THEN e ELSE outbox[t][i]
    BY <2>1, <2>2
  <2> HIDE DEF ob
  <2>5. \A i \in 1..Len(ob) : ob[i].n = outbox[t][i].n
    BY <2>2, <2>4
  <2>6. \A m : InBox(ob, m) <=> InBox(outbox[t], m)
    BY <2>4, <2>5 DEF InBox
  <2>7. BoxGood(ob, log, typed)
    BY <1>1, <2>4, <2>5 DEF BoxGood
  <2>8. ThreadGood(view[t].thread, ob, log)
    BY <1>1, <2>6 DEF TabInv, ThreadGood
  <2>9. MineGood(view[t].mine, view[t].thread, ob, typed, answered)
    BY <1>1, <2>6 DEF TabInv, MineGood
  <2>10. view' = [view EXCEPT ![t] = view[t]]
    BY <1>3 DEF ChatInv
  <2>11. view[t].at = "loading" => view[t].mine = {}
    BY <1>1 DEF TabInv
  <2> QED
    BY <1>1, <2>3, <2>4, <2>6, <2>7, <2>8, <2>9, <2>10, <2>11, PageTurns
<1> QED
  BY <1>2, <1>3 DEF CheckActive

LEMMA StoreInvariantly == ASSUME ChatInv, NEW t \in ChatTabs, StoreMessage(t) PROVE ChatInv'
<1> DEFINE n == outbox[t][1].n
<1>1. /\ BoxGood(outbox[t], log, typed) /\ outbox[t] # <<>> /\ typed \in Nat
      /\ TabInv(t) /\ view[t] \in ViewRow /\ LogGood(log, typed) /\ status \in Steps
      /\ log' = Append(log, n) /\ UNCHANGED <<status, typed, opens>>
      /\ chatMisses' \in 0..MaxChatMisses
  BY NumbersAre, ChatCounts DEF ChatInv, TabInv, StoreMessage
<1>2. /\ n \in Messages /\ ~InLog(log, n) /\ InBox(outbox[t], n)
      /\ \A m : InBox(Tail(outbox[t]), m) <=> InBox(outbox[t], m) /\ m # n
  BY <1>1, BoxTail
<1>3. CASE Fail(t) /\ UNCHANGED answered
  <2>1. ThreadGood(view[t].thread, outbox[t], log')
    BY <1>1, <1>2, ThreadSeesLog DEF TabInv
  <2>2. PICK v \in ViewRow :
              /\ view' = [view EXCEPT ![t] = v]
              /\ ThreadGood(v.thread, Tail(outbox[t]), log')
              /\ MineGood(v.mine, v.thread, Tail(outbox[t]), typed, answered)
              /\ v.mine = view[t].mine /\ v.at = view[t].at
    BY <1>1, <1>3, <2>1, FailKeeps
  <2>3. outbox' = [outbox EXCEPT ![t] = Tail(@)]
    BY <1>3 DEF Fail
  <2>4. v.at = "loading" => v.mine = {}
    BY <1>1, <2>2 DEF TabInv
  <2> QED
    BY <1>1, <1>3, <2>2, <2>3, <2>4, SendStored
<1>4. CASE /\ answered' = answered \cup {n}
           /\ LET v == [view[t] EXCEPT !.thread = PutInPlace(@, n)] IN
              See(t, IF v.at = "chat" THEN Rendered([v EXCEPT !.status = status]) ELSE v)
           /\ outbox' = [outbox EXCEPT ![t] = Tail(@)]
  <2> DEFINE t2 == PutInPlace(view[t].thread, n)
             v == [view[t] EXCEPT !.thread = t2]
             w == [v EXCEPT !.status = status]
             y == IF v.at = "chat" THEN Rendered(w) ELSE v
  <2>1. /\ ThreadGood(t2, Tail(outbox[t]), log')
        /\ Contains(view[t].thread, Local(n)) => Contains(t2, Stored(n))
        /\ \A m \in Messages : /\ Contains(view[t].thread, Stored(m)) => Contains(t2, Stored(m))
                               /\ m # n /\ Contains(view[t].thread, Local(m)) => Contains(t2, Local(m))
    BY <1>1, ThreadSettled DEF TabInv
  <2>2. view' = [view EXCEPT ![t] = y]
    BY <1>4 DEF See
  <2> HIDE DEF t2, n
  <2>3. t2 \in Seq(Entry)
    BY <2>1 DEF ThreadGood
  <2>4. v \in ViewRow /\ v.thread = t2 /\ v.mine = view[t].mine /\ v.at = view[t].at
    BY <1>1, <2>3 DEF ViewRow
  <2> HIDE DEF v
  <2>5. w \in ViewRow /\ w.thread = t2 /\ w.mine = view[t].mine
    BY <1>1, <2>4 DEF ViewRow
  <2> HIDE DEF w
  <2>6. /\ y \in ViewRow
        /\ \/ y.thread = t2 /\ y.mine = view[t].mine
           \/ y.thread = <<>> /\ y.mine = {}
        /\ y.at = "loading" => y = v
    <3>1. CASE v.at = "chat"
      <4>1. y = Rendered(w)
        BY <3>1
      <4> HIDE DEF y
      <4> QED
        BY <2>5, <4>1, RenderedIs
    <3>2. CASE v.at # "chat"
      <4>1. y = v
        BY <3>2
      <4> HIDE DEF y
      <4> QED
        BY <2>4, <4>1
    <3> QED
      BY <3>1, <3>2
  <2> HIDE DEF y
  <2>7. MineGood(view[t].mine, t2, Tail(outbox[t]), typed, answered')
    <3>1. MineGood(view[t].mine, view[t].thread, outbox[t], typed, answered)
      BY <1>1 DEF TabInv
    <3>2. view[t].mine \subseteq Messages
      BY <1>1 DEF ViewRow
    <3> QED
      BY <1>2, <1>4, <2>1, <3>1, <3>2 DEF MineGood
  <2>8. /\ ThreadGood(y.thread, Tail(outbox[t]), log')
        /\ MineGood(y.mine, y.thread, Tail(outbox[t]), typed, answered')
    BY <2>1, <2>6, <2>7, ThreadEmpty DEF MineGood
  <2>9. (y.at = "loading" => y.mine = {}) /\ y.mine \subseteq view[t].mine
    BY <1>1, <2>4, <2>6 DEF TabInv
  <2> QED
    BY <1>1, <1>4, <2>2, <2>6, <2>8, <2>9, SendStored DEF n
<1> QED
  BY <1>3, <1>4 DEF StoreMessage

LEMMA PostInv == ASSUME ChatInv, PostAssistantMessage PROVE ChatInv'
<1> DEFINE n == typed + 1
<1>1. /\ typed \in Nat /\ typed < MaxMessages /\ typed' = n /\ log' = Append(log, n)
      /\ UNCHANGED <<status, view, outbox, answered, opens, chatMisses>> /\ LogGood(log, typed)
  BY NumbersAre DEF ChatInv, PostAssistantMessage
<1>2. n \in Messages /\ n \in 0..MaxMessages /\ typed <= n /\ n \in Nat /\ n <= n
  BY <1>1, NumbersAre DEF Messages
<1>3. ~InLog(log, n)
  <2>1. \A j \in 1..Len(log) : log[j] \in Nat /\ log[j] <= typed
    BY <1>1, NumbersAre DEF LogGood
  <2> QED
    BY <1>1, <2>1 DEF InLog
<1>4. LogGood(log', n) /\ \A m : InLog(log', m) <=> InLog(log, m) \/ m = n
  BY <1>1, <1>2, <1>3, LogAppend
<1>5. ASSUME NEW u \in ChatTabs PROVE TabInv(u)'
  <2>1. BoxGood(outbox[u], log, typed) /\ MineGood(view[u].mine, view[u].thread, outbox[u], typed, answered)
    BY DEF ChatInv, TabInv
  <2>2. ~InBox(outbox[u], n)
    BY <1>1, <2>1, BoxNumbers
  <2>3. n \notin view[u].mine
    BY <1>1, <2>1 DEF MineGood
  <2> QED
    BY <1>1, <1>2, <1>3, <2>2, <2>3, OthersSee
<1>6. \A u, w \in ChatTabs : u # w => Apart(u, w)'
  BY <1>1 DEF ChatInv, Apart
<1> QED
  BY <1>1, <1>2, <1>4, <1>5, <1>6 DEF ChatInv

LEMMA SubmitInv == ASSUME ChatInv, NEW t \in ChatTabs, OnSubmit(t) PROVE ChatInv'
<1> DEFINE n == typed + 1
           e == [n |-> n, checked |-> FALSE]
           ob == Append(outbox[t], e)
           th == Append(view[t].thread, Local(n))
           mine == view[t].mine \cup {n}
           v == [view[t] EXCEPT !.thread = th, !.mine = mine, !.error = FALSE]
<1>1. /\ typed \in Nat /\ typed < MaxMessages /\ typed' = typed + 1
      /\ UNCHANGED <<status, log, answered, opens, chatMisses>> /\ LogGood(log, typed)
      /\ TabInv(t) /\ view[t] \in ViewRow /\ BoxGood(outbox[t], log, typed) /\ view[t].at = "chat"
  BY NumbersAre DEF ChatInv, TabInv, OnSubmit
<1>2. n \in Messages /\ n \in 0..MaxMessages /\ n \in Nat /\ typed <= n
  BY <1>1, NumbersAre DEF Messages
<1>3. view' = [view EXCEPT ![t] = v] /\ outbox' = [outbox EXCEPT ![t] = ob]
  BY DEF OnSubmit, See
<1>4. BoxGood(ob, log, n) /\ \A m : InBox(ob, m) <=> InBox(outbox[t], m) \/ m = n
  BY <1>1, <1>2, BoxAppend
<1>5. ob \in Seq(Send)
  BY <1>4 DEF BoxGood
<1> HIDE DEF ob
<1>6. /\ ThreadGood(th, ob, log) /\ Contains(th, Local(n))
      /\ \A d : Contains(view[t].thread, d) => Contains(th, d)
  BY <1>1, <1>2, <1>4, ThreadAppend DEF TabInv
<1>7. th \in Seq(Entry)
  BY <1>6 DEF ThreadGood
<1> HIDE DEF th
<1>8. mine \subseteq Messages /\ mine \in SUBSET Messages
  BY <1>1, <1>2 DEF ViewRow
<1>9. MineGood(mine, th, ob, n, answered)
  <2>1. MineGood(view[t].mine, view[t].thread, outbox[t], typed, answered)
    BY <1>1 DEF TabInv
  <2>2. ASSUME NEW m \in view[t].mine
        PROVE  m <= n /\ (InBox(ob, m) => Contains(th, Local(m)))
               /\ (m \in answered => Contains(th, Stored(m)))
    <3>1. m \in Nat /\ m <= typed
      BY <1>1, <2>1, NumbersAre DEF MineGood, ViewRow
    <3>2. m # n /\ m <= n
      BY <1>1, <3>1
    <3> QED
      BY <1>4, <1>6, <2>1, <3>2 DEF MineGood
  <2>3. n \notin answered
    <3>1. \A m \in answered : InLog(log, m)
      BY DEF ChatInv
    <3>2. \A j \in 1..Len(log) : log[j] \in Nat /\ log[j] <= typed
      BY <1>1, NumbersAre DEF LogGood
    <3> QED
      BY <1>1, <3>1, <3>2 DEF InLog
  <2>4. n <= n
    BY <1>2
  <2> QED
    BY <1>6, <2>2, <2>3, <2>4 DEF MineGood
<1> HIDE DEF mine
<1>10. v \in ViewRow /\ v.thread = th /\ v.mine = mine /\ v.at = "chat"
  BY <1>1, <1>7, <1>8 DEF ViewRow
<1> HIDE DEF v
<1>11. /\ view' \in [ChatTabs -> ViewRow] /\ outbox' \in [ChatTabs -> Seq(Send)]
       /\ view'[t] = v /\ outbox'[t] = ob
       /\ \A u \in ChatTabs : u # t => view'[u] = view[u] /\ outbox'[u] = outbox[u]
  BY <1>3, <1>5, <1>10 DEF ChatInv
<1>12. ASSUME NEW u \in ChatTabs PROVE TabInv(u)'
  <2>1. CASE u = t
    BY <1>1, <1>4, <1>6, <1>9, <1>10, <1>11, <2>1 DEF TabInv
  <2>2. CASE u # t
    <3>1. TabInv(u) /\ view[u].mine \in SUBSET Messages
      BY DEF ChatInv, ViewRow
    <3>2. BoxGood(outbox[u], log, n)
      BY <1>1, <1>2, <3>1, BoxLater DEF TabInv
    <3>3. MineGood(view[u].mine, view[u].thread, outbox[u], n, answered)
      BY <1>1, <1>2, <3>1, MineLater DEF TabInv
    <3> QED
      BY <1>1, <1>11, <2>2, <3>1, <3>2, <3>3 DEF TabInv
  <2> QED
    BY <2>1, <2>2
<1>13. \A u \in ChatTabs : ~InBox(outbox[u], n) /\ n \notin view[u].mine
  <2>1. ASSUME NEW u \in ChatTabs PROVE ~InBox(outbox[u], n) /\ n \notin view[u].mine
    <3>1. BoxGood(outbox[u], log, typed) /\ MineGood(view[u].mine, view[u].thread, outbox[u], typed, answered)
      BY DEF ChatInv, TabInv
    <3>2. ~InBox(outbox[u], n)
      BY <1>1, <3>1, BoxNumbers
    <3> QED
      BY <1>1, <3>1, <3>2 DEF MineGood
  <2> QED
    BY <2>1
<1>14. ASSUME NEW u \in ChatTabs, NEW w \in ChatTabs, u # w PROVE Apart(u, w)'
  <2>1. Apart(u, w)
    BY <1>14 DEF ChatInv
  <2>2. /\ \A m \in Messages : InBox(outbox'[w], m) => InBox(outbox[w], m) \/ (w = t /\ m = n)
        /\ \A m \in Messages : InBox(outbox'[u], m) => InBox(outbox[u], m) \/ (u = t /\ m = n)
        /\ \A m \in Messages : m \in view'[u].mine => m \in view[u].mine \/ (u = t /\ m = n)
    BY <1>4, <1>10, <1>11 DEF mine
  <2> QED
    BY <1>13, <1>14, <2>1, <2>2 DEF Apart
<1>15. LogGood(log, n)
  BY <1>1, <1>2, LogLater
<1> QED
  BY <1>1, <1>2, <1>11, <1>12, <1>14, <1>15 DEF ChatInv

LEMMA ChatStep == ASSUME ChatInv, [ChatNext]_chatVars PROVE ChatInv'
<1>1. CASE BookingMoves
  <2>1. /\ UNCHANGED <<log, view, outbox, answered, typed, opens, chatMisses>> /\ status' \in Steps
    BY <1>1 DEF BookingMoves, Steps
  <2>2. \A t \in ChatTabs : TabInv(t)'
    BY <2>1 DEF ChatInv, TabInv
  <2>3. \A t, u \in ChatTabs : t # u => Apart(t, u)'
    BY <2>1 DEF ChatInv, Apart
  <2> QED
    BY <2>1, <2>2, <2>3 DEF ChatInv
<1>2. CASE UNCHANGED chatVars
  <2>1. UNCHANGED <<status, log, view, outbox, answered, typed, opens, chatMisses>>
    BY <1>2 DEF chatVars
  <2>2. \A t \in ChatTabs : TabInv(t)'
    BY <2>1 DEF ChatInv, TabInv
  <2>3. \A t, u \in ChatTabs : t # u => Apart(t, u)'
    BY <2>1 DEF ChatInv, Apart
  <2> QED
    BY <2>1, <2>2, <2>3 DEF ChatInv
<1> QED
  BY <1>1, <1>2, OpenPagesInv, ReadInv, SubmitInv, CheckInv, StoreInvariantly, PostInv DEF ChatNext

(* The invariant of the threads holds in every state they reach.            *)
THEOREM ChatInvariant == ChatSpec => []ChatInv
BY ChatInitInv, ChatStep, PTL DEF ChatSpec

(* The log, the pages and what is under way keep their types.               *)
THEOREM ChatTypeCorrect == ChatSpec => []ChatTypeOK
<1>1. ASSUME ChatInv PROVE ChatTypeOK
  <2>1. log \in Seq(Messages) /\ IsInjective(log)
    BY <1>1 DEF ChatInv, LogGood, IsInjective
  <2>2. ASSUME NEW t \in ChatTabs
        PROVE  /\ \A i \in DOMAIN view[t].thread : view[t].thread[i] \in Entry
               /\ IsInjective(view[t].thread)
    <3> DEFINE th == view[t].thread
    <3>1. ThreadGood(th, outbox[t], log)
      BY <1>1 DEF ChatInv, TabInv
    <3> HIDE DEF th
    <3>2. th \in Seq(Entry) /\ DOMAIN th = 1..Len(th) /\ \A i \in 1..Len(th) : th[i] \in Entry
      BY <3>1 DEF ThreadGood
    <3>3. ASSUME NEW i \in 1..Len(th), NEW k \in 1..Len(th), i < k PROVE th[i] # th[k]
      <4>1. CASE th[i].local
        <5>1. th[i].n < th[k].n /\ th[i].n \in Nat
          BY <3>1, <3>2, <3>3, <4>1, NumbersAre DEF ThreadGood, Entry
        <5> QED
          BY <5>1
      <4>2. CASE ~th[i].local
        <5>1. SUFFICES ASSUME th[i] = th[k] PROVE FALSE
          OBVIOUS
        <5>2. PICK x \in 1..Len(log) : log[x] = th[i].n
          BY <3>1, <4>2 DEF ThreadGood, InLog
        <5>3. x < x
          BY <3>1, <3>3, <4>2, <5>1, <5>2 DEF ThreadGood
        <5> QED
          BY <5>3
      <4> QED
        BY <4>1, <4>2
    <3>4. \A i, k \in 1..Len(th) : i < k \/ i = k \/ k < i
      OBVIOUS
    <3> QED
      BY <3>2, <3>3, <3>4 DEF IsInjective, th
  <2>3. \A t \in ChatTabs : outbox[t] \in Seq(Send) /\ view[t] \in ViewRow
    BY <1>1 DEF ChatInv
  <2> QED
    BY <1>1, <2>1, <2>2, <2>3 DEF ChatInv, ChatTypeOK, ViewRow, Entry, Send
<1> QED
  BY <1>1, ChatInvariant, PTL

(* A thread at rest is what the backend has, in the backend's order, and a   *)
(* message whose sender was told it is accepted is in the thread it was typed *)
(* into (components/dashboard/ChatThread.tsx and its server action).         *)
THEOREM ThreadsAlwaysAgree == ChatSpec => []ThreadAgrees
<1>1. ASSUME ChatInv PROVE ThreadAgrees
  <2>1. ASSUME NEW t \in ChatTabs, outbox[t] = <<>>
        PROVE  LET place == [i \in DOMAIN view[t].thread |->
                         {j \in DOMAIN log : Stored(log[j]) = view[t].thread[i]}]
               IN /\ \A i \in DOMAIN place : place[i] # {}
                  /\ \A i, k \in DOMAIN place : i < k =>
                       \A x \in place[i], y \in place[k] : x < y
    <3> DEFINE th == view[t].thread
               place == [i \in DOMAIN th |-> {j \in DOMAIN log : Stored(log[j]) = th[i]}]
    <3>1. ThreadGood(th, outbox[t], log) /\ log \in Seq(Messages)
      BY <1>1 DEF ChatInv, TabInv, LogGood
    <3> HIDE DEF th
    <3>2. /\ DOMAIN th = 1..Len(th) /\ \A i \in 1..Len(th) : th[i] \in Entry
          /\ DOMAIN log = 1..Len(log) /\ \A j \in 1..Len(log) : log[j] \in Messages
      BY <3>1 DEF ThreadGood
    <3>3. \A i \in 1..Len(th) : ~th[i].local /\ InLog(log, th[i].n)
      BY <2>1, <3>1 DEF ThreadGood, InBox
    <3>4. \A i \in 1..Len(th) : th[i] = Stored(th[i].n)
      BY <3>2, <3>3 DEF Entry, Stored
    <3>5. \A n : Stored(n).n = n
      BY DEF Stored
    <3>6. ASSUME NEW i \in 1..Len(th) PROVE place[i] # {}
      <4>1. PICK j \in 1..Len(log) : log[j] = th[i].n
        BY <3>3 DEF InLog
      <4>2. j \in place[i]
        BY <3>2, <3>4, <4>1
      <4> QED
        BY <4>2
    <3>7. ASSUME NEW i \in 1..Len(th), NEW x \in place[i]
          PROVE  x \in 1..Len(log) /\ log[x] = th[i].n
      <4>1. x \in DOMAIN log /\ Stored(log[x]) = th[i]
        BY <3>2, <3>7
      <4> QED
        BY <3>2, <3>5, <4>1
    <3>8. ASSUME NEW i \in 1..Len(th), NEW k \in 1..Len(th), i < k, NEW x \in place[i], NEW y \in place[k]
          PROVE  x < y
      <4>1. x \in 1..Len(log) /\ y \in 1..Len(log) /\ log[x] = th[i].n /\ log[y] = th[k].n
        BY <3>7, <3>8
      <4>2. ~th[i].local /\ ~th[k].local
        BY <3>3
      <4> HIDE DEF place
      <4> QED
        BY <3>1, <3>8, <4>1, <4>2 DEF ThreadGood
    <3>9. DOMAIN place = 1..Len(th)
      BY <3>2
    <3> HIDE DEF place
    <3>10. /\ \A i \in DOMAIN place : place[i] # {}
           /\ \A i, k \in DOMAIN place : i < k => \A x \in place[i], y \in place[k] : x < y
      BY <3>6, <3>8, <3>9
    <3> QED
      BY <3>10 DEF place, th
  <2>2. AcceptedIsShown
    BY <1>1 DEF ChatInv, TabInv, MineGood, AcceptedIsShown
  <2>3. ThreadIsTrue
    BY <2>1 DEF ThreadIsTrue
  <2> QED
    BY <2>2, <2>3 DEF ThreadAgrees
<1> QED
  BY <1>1, ChatInvariant, PTL
=============================================================================
