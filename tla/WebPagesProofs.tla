-------------------------- MODULE WebPagesProofs ---------------------------
(*****************************************************************************)
(* The pages with a state of their own: the supplier's console, the          *)
(* offerings and the landing page, each for any number of tabs, clicks and   *)
(* lost answers.                                                             *)
(*****************************************************************************)
EXTENDS SupplierConsole, Storefront, LandingMeter, FiniteSetTheorems, TLAPS

(*****************************************************************************)
(* The console.  RegistersOnce speaks of machines that are through.  What    *)
(* makes it inductive is what the code knows before that: a machine that     *)
(* asked with a token already spent (`late`) still finds its row active,     *)
(* because no operation takes a row back from active, and an active row is   *)
(* not among the pending rows that verify_token is tried on (RegInv).        *)
(*                                                                           *)
(* What a page shows is bounded by what has been committed, for a page in    *)
(* every state it can wait in (GoodPage); and an address has been set no     *)
(* more often than somebody clicked on save, the saves under way counted     *)
(* (ClickedFor).                                                             *)
(*****************************************************************************)
WorkerRow  == [status : {"none", "pending", "active"}, key : Machines \cup {Nobody}]
MachineRow == [at : {"new", "asked", "matched", "registered", "refused", "unanswered"},
               typed : Workers \cup {Nobody}, worker : Workers \cup {Nobody},
               late : BOOLEAN]

RegTypeOK ==
    /\ worker \in [Workers -> WorkerRow]
    /\ machine \in [Machines -> MachineRow]

(* A matched row is the typed one, and the machine was in time.            *)
MatchedIsTyped ==
    \A m \in Machines : machine[m].at \in {"matched", "registered", "unanswered"} =>
        machine[m].worker \in Workers /\ machine[m].worker = machine[m].typed /\ ~machine[m].late

(* The row of a token typed too late is active and stays so.               *)
LateStaysLate ==
    \A m \in Machines : machine[m].at = "asked" =>
        /\ machine[m].typed \in Workers
        /\ machine[m].late => worker[machine[m].typed].status = "active"

RegInv == RegTypeOK /\ MatchedIsTyped /\ LateStaysLate

-----------------------------------------------------------------------------
(* No machine has begun when the console is first opened. *)
LEMMA ConsoleInitInv == ConsoleInit => RegInv
<1> SUFFICES ASSUME ConsoleInit PROVE RegInv
  OBVIOUS
<1>1. RegTypeOK
  BY DEF ConsoleInit, RegTypeOK, WorkerRow, MachineRow, NoWorker, NewMachine
<1>2. \A m \in Machines : machine[m].at = "new"
  BY DEF ConsoleInit, NewMachine
<1> QED
  BY <1>1, <1>2 DEF RegInv, MatchedIsTyped, LateStaysLate

(* What leaves every row where it was or moves it on towards active, and   *)
(* the machines as they were, keeps the invariant.                         *)
LEMMA RowsGoOn ==
    ASSUME RegInv, worker' \in [Workers -> WorkerRow], UNCHANGED machine,
           \A w \in Workers : worker[w].status = "active" => worker'[w].status = "active"
    PROVE  RegInv'
<1>1. RegTypeOK' /\ MatchedIsTyped'
  BY DEF RegInv, RegTypeOK, MatchedIsTyped
<1>2. LateStaysLate'
  BY DEF RegInv, LateStaysLate
<1> QED
  BY <1>1, <1>2 DEF RegInv

(* A machine that is started, matched or turned away.  The rows stay.      *)
LEMMA MachineGoesOn ==
    ASSUME RegInv, NEW m \in Machines, NEW r \in MachineRow,
           machine' = [machine EXCEPT ![m] = r], UNCHANGED worker,
           r.at \in {"matched", "registered", "unanswered"} =>
               r.worker \in Workers /\ r.worker = r.typed /\ ~r.late,
           r.at = "asked" => /\ r.typed \in Workers
                             /\ r.late => worker[r.typed].status = "active"
    PROVE  RegInv'
<1>1. machine'[m] = r /\ \A n \in Machines : n # m => machine'[n] = machine[n]
  BY DEF RegInv, RegTypeOK
<1>2. RegTypeOK'
  BY DEF RegInv, RegTypeOK
<1>3. MatchedIsTyped'
  BY <1>1 DEF RegInv, MatchedIsTyped
<1>4. LateStaysLate'
  BY <1>1 DEF RegInv, LateStaysLate
<1> QED
  BY <1>2, <1>3, <1>4 DEF RegInv

LEMMA IssueInv == ASSUME RegInv, NEW t \in ConsoleTabs, IssueProvisioningToken(t)
                  PROVE  RegInv'
<1>1. UNCHANGED machine
  BY DEF IssueProvisioningToken
<1>2. \/ UNCHANGED worker
      \/ \E w \in Workers : worker[w] = NoWorker /\ worker' = [worker EXCEPT ![w].status = "pending"]
  BY DEF IssueProvisioningToken
<1>3. CASE UNCHANGED worker
  BY <1>1, <1>3, RowsGoOn DEF RegInv, RegTypeOK
<1>4. ASSUME NEW w \in Workers, worker[w] = NoWorker,
             worker' = [worker EXCEPT ![w].status = "pending"]
      PROVE  RegInv'
  <2>1. worker' \in [Workers -> WorkerRow]
    BY <1>4 DEF RegInv, RegTypeOK, WorkerRow
  <2>2. \A v \in Workers : worker[v].status = "active" => worker'[v].status = "active"
    BY <1>4 DEF RegInv, RegTypeOK, NoWorker
  <2> QED
    BY <1>1, <2>1, <2>2, RowsGoOn
<1> QED
  BY <1>2, <1>3, <1>4

LEMMA RegisterInv == ASSUME RegInv, NEW m \in Machines, NEW w \in Workers, Register(m, w)
                     PROVE  RegInv'
<1> DEFINE r == [at |-> "asked", typed |-> w, worker |-> Nobody,
                 late |-> worker[w].status = "active"]
<1>1. r \in MachineRow /\ machine' = [machine EXCEPT ![m] = r] /\ UNCHANGED worker
  BY DEF Register, MachineRow
<1> HIDE DEF r
<1>2. r.at = "asked" /\ r.typed = w /\ (r.late => worker[w].status = "active")
  BY DEF r
<1> QED
  BY <1>1, <1>2, MachineGoesOn

(* The step the argument turns on: a late machine finds no row to match.   *)
LEMMA MatchInv == ASSUME RegInv, NEW m \in Machines, MatchToken(m) PROVE RegInv'
<1>1. machine[m] \in MachineRow /\ machine[m].at = "asked" /\ UNCHANGED worker
  BY DEF RegInv, RegTypeOK, MatchToken
<1>2. ASSUME NEW c \in PendingWith(machine[m].typed),
             machine' = [machine EXCEPT ![m].at = "matched", ![m].worker = c]
      PROVE  RegInv'
  <2>1. c \in Workers /\ worker[c].status = "pending" /\ c = machine[m].typed
    BY <1>2 DEF PendingWith
  <2>2. ~machine[m].late
    BY <1>1, <2>1 DEF RegInv, LateStaysLate
  <2> DEFINE r == [machine[m] EXCEPT !.at = "matched", !.worker = c]
  <2>3. machine' = [machine EXCEPT ![m] = r]
    BY <1>2 DEF RegInv, RegTypeOK
  <2>4. /\ r \in MachineRow
        /\ r.at = "matched" /\ r.worker = c /\ r.typed = c /\ ~r.late
    BY <1>1, <2>1, <2>2 DEF MachineRow
  <2> HIDE DEF r
  <2> QED
    BY <1>1, <2>1, <2>3, <2>4, MachineGoesOn
<1>3. ASSUME machine' = [machine EXCEPT ![m].at = "refused"] PROVE RegInv'
  <2> DEFINE r == [machine[m] EXCEPT !.at = "refused"]
  <2>1. machine' = [machine EXCEPT ![m] = r]
    BY <1>3 DEF RegInv, RegTypeOK
  <2>2. r \in MachineRow /\ r.at = "refused"
    BY <1>1 DEF MachineRow
  <2> HIDE DEF r
  <2> QED
    BY <1>1, <2>1, <2>2, MachineGoesOn
<1> QED
  BY <1>2, <1>3 DEF MatchToken

LEMMA RegisterWorkerInv == ASSUME RegInv, NEW m \in Machines, RegisterWorker(m) PROVE RegInv'
<1> DEFINE w == machine[m].worker
<1>1. /\ machine[m] \in MachineRow /\ machine[m].at = "matched"
      /\ w \in Workers /\ w = machine[m].typed /\ ~machine[m].late
  BY DEF RegInv, RegTypeOK, MatchedIsTyped, RegisterWorker
<1>2. worker' = [worker EXCEPT ![w] = [status |-> "active", key |-> m]]
  BY DEF RegisterWorker
<1>3. PICK at \in {"registered", "unanswered"} : machine' = [machine EXCEPT ![m].at = at]
  BY DEF RegisterWorker
<1>4. worker' \in [Workers -> WorkerRow]
  BY <1>2 DEF RegInv, RegTypeOK, WorkerRow
<1>5. \A v \in Workers : worker[v].status = "active" => worker'[v].status = "active"
  BY <1>2 DEF RegInv, RegTypeOK
<1>6. machine' \in [Machines -> MachineRow]
  <2>1. [machine[m] EXCEPT !.at = at] \in MachineRow
    BY <1>1, <1>3 DEF MachineRow
  <2>2. machine' = [machine EXCEPT ![m] = [machine[m] EXCEPT !.at = at]]
    BY <1>3 DEF RegInv, RegTypeOK
  <2> QED
    BY <2>1, <2>2 DEF RegInv, RegTypeOK
<1>7. /\ machine'[m].worker = w /\ machine'[m].typed = w /\ ~machine'[m].late
      /\ machine'[m].at # "asked"
      /\ \A n \in Machines : n # m => machine'[n] = machine[n]
  BY <1>1, <1>3 DEF RegInv, RegTypeOK, MachineRow
<1>8. MatchedIsTyped'
  BY <1>1, <1>7 DEF RegInv, MatchedIsTyped
<1>9. LateStaysLate'
  BY <1>5, <1>7 DEF RegInv, LateStaysLate
<1> QED
  BY <1>4, <1>6, <1>8, <1>9 DEF RegInv, RegTypeOK

(* The other operations touch neither a row of workers nor a machine.      *)
LEMMA RestInv == ASSUME RegInv, UNCHANGED <<worker, machine>> PROVE RegInv'
BY DEF RegInv, RegTypeOK, MatchedIsTyped, LateStaysLate

LEMMA ConsoleStepInv == ASSUME RegInv, [ConsoleNext]_consoleVars PROVE RegInv'
<1>1. ASSUME NEW t \in ConsoleTabs, IssueProvisioningToken(t) PROVE RegInv'
  BY <1>1, IssueInv
<1>2. ASSUME NEW m \in Machines, NEW w \in Workers, Register(m, w) PROVE RegInv'
  BY <1>2, RegisterInv
<1>3. ASSUME NEW m \in Machines, MatchToken(m) \/ RegisterWorker(m) PROVE RegInv'
  BY <1>3, MatchInv, RegisterWorkerInv
<1>4. ASSUME NEW t \in ConsoleTabs,
             \/ OpenConsole(t)
             \/ \E to \in {"home", "form", "name", "workers", "wallet"} : GoTo(t, to)
             \/ SubmitSupplier(t) \/ ReadSupplier(t) \/ InsertSupplier(t)
             \/ SupplierIndex(t) \/ SubmitName(t)
      PROVE  RegInv'
  BY <1>4, RestInv DEF OpenConsole, GoTo, SubmitSupplier, ReadSupplier, InsertSupplier,
                       SupplierIndex, SubmitName
<1>5. ASSUME NEW t \in ConsoleTabs,
             \/ ReadMe(t) \/ ReadMySupplier(t) \/ SaveWallet(t)
             \/ \E c \in Cards : SubmitWallet(t, c)
      PROVE  RegInv'
  BY <1>5, RestInv DEF ReadMe, ReadMySupplier, SaveWallet, SubmitWallet
<1>6. CASE UNCHANGED consoleVars
  BY <1>6, RestInv DEF consoleVars
<1> QED
  BY <1>1, <1>2, <1>3, <1>4, <1>5, <1>6 DEF ConsoleNext

-----------------------------------------------------------------------------
(* A machine is registered as the worker its token was issued for, and one *)
(* that asks with a spent token is refused, whatever else happens in       *)
(* between (api/v1/workers.py, register_worker).                           *)
THEOREM TokensRegisterOnce == ConsoleSpec => []RegistersOnce
<1>1. RegInv => RegistersOnce
  BY DEF RegInv, MatchedIsTyped, RegistersOnce
<1> QED
  BY <1>1, ConsoleInitInv, ConsoleStepInv, PTL DEF ConsoleSpec

PageRow == [at : Resting \cup Waiting, menu : {"consumer", "supplier"}, told : BOOLEAN,
            issuing : 0..2, token : Workers \cup {Nobody},
            rows : [Workers -> {"none", "pending", "active"}],
            card : Cards, shows : [Cards -> 0..MaxActs], saved : [Cards -> 0..MaxActs],
            payout : BOOLEAN]

(* What is true of a page, whether the account has become a supplier or not *)
(* (s), and however often its addresses have been set (w).                  *)
GoodPage(p, s, w) ==
    /\ p \in PageRow
    /\ p.at = "snippet" => p.token # Nobody
    /\ p.issuing > 0 => p.at \in {"name", "snippet"}
    /\ p.told \/ p.at = "redirected" => s
    /\ p.at = "become first" => ~p.told
    /\ \A c \in Cards : p.saved[c] <= w[c]
    /\ p.at \in {"wallet", "saving"} => \A c \in Cards : p.saved[c] <= p.shows[c]
    /\ p.at = "reading supplier" => p.saved["escrow"] <= p.shows["escrow"]

SavingTabs(c) == {t \in ConsoleTabs : page[t].at = "saving" /\ page[t].card = c}

(* An address has been set no more often than somebody has clicked on save. *)
ClickedFor(c) == /\ IsFiniteSet(SavingTabs(c))
                 /\ wallet[c] + Cardinality(SavingTabs(c)) <= acts

PagesInv ==
    /\ supplier \in BOOLEAN /\ wallet \in [Cards -> 0..MaxActs]
    /\ page \in [ConsoleTabs -> PageRow]
    /\ \A t \in ConsoleTabs : GoodPage(page[t], supplier, wallet)
    /\ shown \subseteq Workers /\ acts \in 0..MaxActs /\ misses \in 0..MaxMisses
    /\ \A c \in Cards : ClickedFor(c)

ConsoleInv == RegInv /\ PagesInv

-----------------------------------------------------------------------------
LEMMA HomeIsGood == GoodPage(Home, FALSE, [c \in Cards |-> 0])
BY ConsoleAssumption DEF GoodPage, PageRow, Home, Resting, Waiting, Cards

LEMMA HomeIs == /\ Home \in PageRow /\ Home.at = "home" /\ Home.issuing = 0 /\ ~Home.told
                /\ Home.saved = [c \in Cards |-> 0]
<1>1. Home \in PageRow
  BY HomeIsGood DEF GoodPage
<1> QED
  BY <1>1 DEF Home

LEMMA PagesInit == ConsoleInit => PagesInv
<1> SUFFICES ASSUME ConsoleInit PROVE PagesInv
  OBVIOUS
<1>1. page = [t \in ConsoleTabs |-> Home] /\ wallet = [c \in Cards |-> 0] /\ supplier \in BOOLEAN
  BY DEF ConsoleInit
<1>2. GoodPage(Home, supplier, wallet)
  BY <1>1, HomeIsGood DEF GoodPage, Home
<1>3. \A c \in Cards : SavingTabs(c) = {}
  BY <1>1 DEF SavingTabs, Home
<1>4. \A c \in Cards : ClickedFor(c)
  BY <1>1, <1>3, FS_EmptySet DEF ClickedFor, ConsoleInit
<1>5. Home \in PageRow
  BY <1>2 DEF GoodPage
<1>6. /\ wallet \in [Cards -> 0..MaxActs] /\ page \in [ConsoleTabs -> PageRow]
      /\ \A t \in ConsoleTabs : GoodPage(page[t], supplier, wallet)
  BY <1>1, <1>2, <1>5, ConsoleAssumption
<1>7. shown \subseteq Workers /\ acts \in 0..MaxActs /\ misses \in 0..MaxMisses
  BY ConsoleAssumption DEF ConsoleInit
<1> QED
  BY <1>1, <1>4, <1>6, <1>7 DEF PagesInv

(* What was true of a page stays true of it when the account becomes a      *)
(* supplier or an address is set.                                           *)
LEMMA GoodPageStays ==
    ASSUME NEW p, NEW s \in BOOLEAN, NEW w \in [Cards -> Nat], GoodPage(p, s, w),
           NEW s2 \in BOOLEAN, s => s2, NEW w2 \in [Cards -> Nat], \A c \in Cards : w[c] <= w2[c]
    PROVE  GoodPage(p, s2, w2)
<1>1. p \in PageRow /\ \A c \in Cards : p.saved[c] <= w[c]
  BY DEF GoodPage
<1>2. p.saved \in [Cards -> 0..MaxActs]
  BY <1>1 DEF PageRow
<1>4. ASSUME NEW c \in Cards PROVE p.saved[c] <= w2[c]
  <2>1. p.saved[c] \in Int /\ w[c] \in Int /\ w2[c] \in Int /\ p.saved[c] <= w[c] /\ w[c] <= w2[c]
    BY <1>1, <1>2, ConsoleAssumption
  <2> QED
    BY <2>1
<1>3. p.told \/ p.at = "redirected" => s2
  BY DEF GoodPage
<1> QED
  BY <1>3, <1>4 DEF GoodPage

LEMMA PageIssues ==
    ASSUME NEW p \in PageRow PROVE p.issuing \in 0..2 /\ (p.issuing > 0 <=> p.issuing # 0)
BY DEF PageRow

(* A page on which nothing about an address is shown.                       *)
LEMMA GoodWithoutWallet ==
    ASSUME NEW q \in PageRow, NEW s \in BOOLEAN, NEW w,
           q.at \notin {"wallet", "saving", "reading supplier"},
           q.at = "snippet" => q.token # Nobody,
           q.issuing = 0 \/ q.at \in {"name", "snippet"},
           q.told => s, q.at = "redirected" => s, q.at = "become first" => ~q.told,
           \A c \in Cards : q.saved[c] <= w[c]
    PROVE  GoodPage(q, s, w)
<1>1. q.issuing > 0 => q.at \in {"name", "snippet"}
  BY PageIssues
<1>2. /\ q.at \in {"wallet", "saving"} => \A c \in Cards : q.saved[c] <= q.shows[c]
      /\ q.at = "reading supplier" => q.saved["escrow"] <= q.shows["escrow"]
  OBVIOUS
<1>3. q.told \/ q.at = "redirected" => s
  OBVIOUS
<1> QED
  BY <1>1, <1>2, <1>3 DEF GoodPage

(* A page that moves on, and is not about a save.                           *)
LEMMA PageMovesOn ==
    ASSUME PagesInv, NEW t \in ConsoleTabs, NEW p, Show(t, p),
           supplier' \in BOOLEAN, supplier => supplier', UNCHANGED wallet,
           GoodPage(p, supplier', wallet), page[t].at # "saving", p.at # "saving",
           shown' \subseteq Workers, acts' \in 0..MaxActs, acts <= acts', misses' \in 0..MaxMisses
    PROVE  PagesInv'
<1>1. p \in PageRow /\ page' = [page EXCEPT ![t] = p]
  BY DEF GoodPage, Show
<1>2. page' \in [ConsoleTabs -> PageRow]
  BY <1>1 DEF PagesInv
<1>3. \A u \in ConsoleTabs : GoodPage(page'[u], supplier', wallet')
  <2>1. wallet \in [Cards -> Nat]
    BY ConsoleAssumption DEF PagesInv
  <2> QED
    BY <1>1, <2>1, GoodPageStays DEF PagesInv
<1>4. \A c \in Cards : SavingTabs(c)' = SavingTabs(c)
  BY <1>1 DEF PagesInv, SavingTabs
<1>5. \A c \in Cards : ClickedFor(c)'
  <2>1. ASSUME NEW c \in Cards PROVE ClickedFor(c)'
    <3>1. IsFiniteSet(SavingTabs(c)) /\ wallet[c] + Cardinality(SavingTabs(c)) <= acts
      BY DEF PagesInv, ClickedFor
    <3>2. Cardinality(SavingTabs(c)) \in Nat /\ wallet[c] \in Nat
      BY <3>1, FS_CardinalityType, ConsoleAssumption DEF PagesInv
    <3>3. acts \in Int /\ acts' \in Int
      BY DEF PagesInv
    <3>4. wallet[c] + Cardinality(SavingTabs(c)) <= acts'
      BY <3>1, <3>2, <3>3
    <3> QED
      BY <1>4, <3>1, <3>4 DEF ClickedFor
  <2> QED
    BY <2>1
<1> QED
  BY <1>2, <1>3, <1>5 DEF PagesInv

(* What does not touch a page, nor what is true of one.                     *)
LEMMA PagesStay ==
    ASSUME PagesInv, UNCHANGED <<supplier, wallet, page, shown>>,
           acts' \in 0..MaxActs, acts <= acts', misses' \in 0..MaxMisses
    PROVE  PagesInv'
<1>1. \A c \in Cards : SavingTabs(c)' = SavingTabs(c)
  BY DEF SavingTabs
<1>2. ASSUME NEW c \in Cards PROVE ClickedFor(c)'
  <2>1. IsFiniteSet(SavingTabs(c)) /\ wallet[c] + Cardinality(SavingTabs(c)) <= acts
    BY DEF PagesInv, ClickedFor
  <2>2. Cardinality(SavingTabs(c)) \in Nat /\ wallet[c] \in Nat
    BY <2>1, FS_CardinalityType, ConsoleAssumption DEF PagesInv
  <2>3. acts \in Int /\ acts' \in Int
    BY DEF PagesInv
  <2>4. wallet[c] + Cardinality(SavingTabs(c)) <= acts'
    BY <2>1, <2>2, <2>3
  <2> QED
    BY <1>1, <2>1, <2>4 DEF ClickedFor
<1> QED
  BY <1>2 DEF PagesInv

LEMMA ConsoleCounts ==
    ASSUME PagesInv
    PROVE  /\ Act => acts' \in 0..MaxActs /\ acts <= acts'
           /\ Miss => misses' \in 0..MaxMisses
           /\ acts \in 0..MaxActs /\ acts <= acts /\ misses \in 0..MaxMisses
BY ConsoleAssumption DEF PagesInv, Act, Miss

LEMMA OpenConsoleInv == ASSUME ConsoleInv, NEW t \in ConsoleTabs, OpenConsole(t) PROVE PagesInv'
<1> DEFINE p == [Home EXCEPT !.menu = MenuOf(supplier), !.told = supplier]
<1>1. supplier \in BOOLEAN /\ wallet \in [Cards -> Nat] /\ PagesInv
  BY ConsoleAssumption DEF ConsoleInv, PagesInv
<1>2. Show(t, p) /\ page[t].at # "saving" /\ UNCHANGED <<supplier, wallet, shown, misses>> /\ Act
  BY DEF OpenConsole, Resting
<1>3. /\ p \in PageRow /\ p.at = "home" /\ p.issuing = 0 /\ p.told = supplier
      /\ p.saved = [c \in Cards |-> 0]
  <2>1. MenuOf(supplier) \in {"consumer", "supplier"}
    BY DEF MenuOf
  <2> QED
    BY <1>1, <2>1, HomeIsGood, HomeIs DEF PageRow
<1> HIDE DEF p
<1>4. \A c \in Cards : p.saved[c] <= wallet[c]
  BY <1>1, <1>3
<1>5. GoodPage(p, supplier, wallet)
  BY <1>1, <1>3, <1>4, GoodWithoutWallet
<1> QED
  BY <1>1, <1>2, <1>3, <1>5, PageMovesOn, ConsoleCounts DEF PagesInv

(* The workers page tells nobody to become a supplier who is one.           *)
LEMMA WorkersPageGood ==
    ASSUME ConsoleInv, NEW p, GoodPage(p, supplier, wallet), p.issuing = 0
    PROVE  /\ GoodPage(WorkersPage(p), supplier, wallet)
           /\ WorkersPage(p).at \in {"workers", "become first"}
<1>1. p \in PageRow /\ supplier \in BOOLEAN /\ wallet \in [Cards -> 0..MaxActs]
  BY DEF GoodPage, ConsoleInv, PagesInv
<1>2. [w \in Workers |-> worker[w].status] \in [Workers -> {"none", "pending", "active"}]
  BY DEF ConsoleInv, RegInv, RegTypeOK, WorkerRow
<1> DEFINE rows == [w \in Workers |-> worker[w].status]
           q == [p EXCEPT !.at = IF supplier THEN "workers" ELSE "become first", !.rows = rows]
<1> HIDE DEF rows
<1>3. rows \in [Workers -> {"none", "pending", "active"}]
  BY <1>2 DEF rows
<1>4. WorkersPage(p) = q
  BY DEF WorkersPage, rows
<1>5. /\ q \in PageRow /\ q.at = (IF supplier THEN "workers" ELSE "become first")
      /\ q.issuing = 0 /\ q.told = p.told /\ q.saved = p.saved /\ q.shows = p.shows
  BY <1>1, <1>3 DEF PageRow, Resting
<1> HIDE DEF q
<1>6. /\ q.told => supplier
      /\ \A c \in Cards : q.saved[c] <= wallet[c]
      /\ q.at \in {"workers", "become first"} /\ (q.at = "become first" => ~supplier)
  BY <1>1, <1>5 DEF GoodPage
<1>7. GoodPage(q, supplier, wallet)
  BY <1>1, <1>5, <1>6, GoodWithoutWallet
<1> QED
  BY <1>1, <1>4, <1>5, <1>7

LEMMA GoToInv ==
    ASSUME ConsoleInv, NEW t \in ConsoleTabs,
           NEW to \in {"home", "form", "name", "workers", "wallet"}, GoTo(t, to)
    PROVE  PagesInv'
<1> DEFINE typed == to \notin Behind(page[t].menu)
           p == [Home EXCEPT !.menu = IF typed THEN MenuOf(supplier) ELSE page[t].menu,
                             !.told = page[t].told \/ (typed /\ supplier)]
           q == IF to = "workers" THEN WorkersPage(p)
                ELSE [p EXCEPT !.at = IF to = "wallet" THEN "reading me" ELSE to]
<1>1. supplier \in BOOLEAN /\ wallet \in [Cards -> Nat] /\ PagesInv
  BY ConsoleAssumption DEF ConsoleInv, PagesInv
<1>2. Show(t, q) /\ page[t].at # "saving" /\ UNCHANGED <<supplier, wallet, shown, misses>> /\ Act
  BY DEF GoTo, Resting
<1>3. GoodPage(page[t], supplier, wallet) /\ page[t] \in PageRow
  BY <1>1 DEF PagesInv
<1>4. typed \in BOOLEAN
  OBVIOUS
<1> HIDE DEF typed
<1> DEFINE told == page[t].told \/ (typed /\ supplier)
           menu == IF typed THEN MenuOf(supplier) ELSE page[t].menu
<1>10. told \in BOOLEAN /\ menu \in {"consumer", "supplier"} /\ (told => supplier)
  BY <1>1, <1>3, <1>4 DEF PageRow, GoodPage, MenuOf
<1> HIDE DEF told, menu
<1>5. /\ p \in PageRow /\ p.at = "home" /\ p.issuing = 0 /\ p.told = told
      /\ p.saved = [c \in Cards |-> 0]
  <2>1. p = [Home EXCEPT !.menu = menu, !.told = told]
    BY DEF told, menu
  <2> HIDE DEF p
  <2> QED
    BY <1>10, <2>1, HomeIs DEF PageRow
<1> HIDE DEF p
<1>11. (p.told => supplier) /\ \A c \in Cards : p.saved[c] <= wallet[c]
  BY <1>1, <1>5, <1>10
<1>6. GoodPage(p, supplier, wallet)
  BY <1>1, <1>5, <1>11, GoodWithoutWallet
<1>7. CASE to = "workers"
  <2>1. GoodPage(q, supplier, wallet) /\ q.at # "saving"
    BY <1>5, <1>6, <1>7, WorkersPageGood
  <2> HIDE DEF q
  <2> QED
    BY <1>1, <1>2, <2>1, PageMovesOn, ConsoleCounts DEF PagesInv
<1>8. CASE to # "workers"
  <2>1. /\ q \in PageRow /\ q.at \in {"home", "form", "name", "reading me"}
        /\ q.issuing = 0 /\ q.told = p.told /\ q.saved = p.saved
    BY <1>5, <1>8, ZenonT(60) DEF PageRow, Resting, Waiting
  <2> HIDE DEF q
  <2>2. GoodPage(q, supplier, wallet)
    BY <1>1, <1>11, <2>1, GoodWithoutWallet
  <2> QED
    BY <1>1, <1>2, <2>1, <2>2, PageMovesOn, ConsoleCounts DEF PagesInv
<1> QED
  BY <1>7, <1>8

(* A page of which only what it is waiting for changes, and which is not    *)
(* one on which an answer about a wallet or a worker is awaited.            *)
LEMMA OnlyAt ==
    ASSUME NEW p, NEW s \in BOOLEAN, NEW w, GoodPage(p, s, w), p.issuing = 0,
           NEW at \in {"asking", "inserting", "redirected", "refused", "error"},
           at = "redirected" => s
    PROVE  GoodPage([p EXCEPT !.at = at], s, w) /\ [p EXCEPT !.at = at].at = at
<1> DEFINE q == [p EXCEPT !.at = at]
<1>1. /\ q \in PageRow /\ q.at = at /\ q.issuing = p.issuing /\ q.told = p.told
      /\ q.saved = p.saved /\ q.shows = p.shows
  BY ZenonT(60) DEF GoodPage, PageRow, Resting, Waiting
<1> HIDE DEF q
<1>2. (q.told => s) /\ \A c \in Cards : q.saved[c] <= w[c]
  BY <1>1 DEF GoodPage
<1>3. GoodPage(q, s, w)
  BY <1>1, <1>2, GoodWithoutWallet
<1> QED
  BY <1>1, <1>3 DEF q

LEMMA BecomeInv ==
    ASSUME ConsoleInv, NEW t \in ConsoleTabs,
           SubmitSupplier(t) \/ ReadSupplier(t) \/ InsertSupplier(t)
    PROVE  PagesInv'
<1>1. /\ supplier \in BOOLEAN /\ wallet \in [Cards -> Nat] /\ PagesInv
      /\ GoodPage(page[t], supplier, wallet)
  BY ConsoleAssumption DEF ConsoleInv, PagesInv
<1>2. page[t].at \in {"form", "refused", "asking", "inserting"} /\ page[t].issuing = 0
  <2>1. page[t].at \in {"form", "refused", "asking", "inserting"}
    BY DEF SubmitSupplier, ReadSupplier, InsertSupplier
  <2>2. ~(page[t].issuing > 0) /\ page[t] \in PageRow
    BY <1>1, <2>1 DEF GoodPage
  <2> QED
    BY <2>1, <2>2, PageIssues
<1>3. supplier' \in BOOLEAN /\ (supplier => supplier') /\ UNCHANGED <<wallet, shown>>
  BY <1>1 DEF SubmitSupplier, ReadSupplier, InsertSupplier
<1>4. PICK at \in {"asking", "inserting", "redirected", "refused", "error"} :
        Show(t, [page[t] EXCEPT !.at = at]) /\ (at = "redirected" => supplier')
  BY <1>1 DEF SubmitSupplier, ReadSupplier, InsertSupplier, AfterBecome
<1>5. GoodPage(page[t], supplier', wallet)
  BY <1>1, <1>3, GoodPageStays
<1>6. GoodPage([page[t] EXCEPT !.at = at], supplier', wallet) /\ [page[t] EXCEPT !.at = at].at = at
  <2> DEFINE s == supplier'  p == page[t]
  <2>1. /\ s \in BOOLEAN /\ GoodPage(p, s, wallet) /\ p.issuing = 0
        /\ at = "redirected" => s
    BY <1>2, <1>3, <1>4, <1>5
  <2> HIDE DEF s, p
  <2>2. GoodPage([p EXCEPT !.at = at], s, wallet) /\ [p EXCEPT !.at = at].at = at
    BY <2>1, OnlyAt, ZenonT(60)
  <2> QED
    BY <2>2 DEF s, p
<1>7. acts' \in 0..MaxActs /\ acts <= acts' /\ misses' \in 0..MaxMisses
  BY <1>1, ConsoleCounts DEF SubmitSupplier, ReadSupplier, InsertSupplier
<1> QED
  BY <1>1, <1>2, <1>3, <1>4, <1>6, <1>7, PageMovesOn DEF PagesInv

LEMMA SupplierIndexInv == ASSUME ConsoleInv, NEW t \in ConsoleTabs, SupplierIndex(t) PROVE PagesInv'
<1>1. /\ supplier \in BOOLEAN /\ wallet \in [Cards -> Nat] /\ PagesInv
      /\ GoodPage(page[t], supplier, wallet) /\ page[t].at = "redirected"
  BY ConsoleAssumption DEF ConsoleInv, PagesInv, SupplierIndex
<1>2. supplier /\ page[t].issuing = 0
  BY <1>1 DEF GoodPage, PageRow
<1>3. /\ UNCHANGED <<supplier, wallet, shown, acts>> /\ misses' \in 0..MaxMisses
      /\ acts' \in 0..MaxActs /\ acts <= acts'
  BY <1>1, ConsoleCounts DEF SupplierIndex
<1>4. CASE Show(t, WorkersPage([page[t] EXCEPT !.told = TRUE]))
  <2> DEFINE p == [page[t] EXCEPT !.told = TRUE]
  <2>1. /\ p \in PageRow /\ p.at = "redirected" /\ p.issuing = 0 /\ p.told
        /\ p.saved = page[t].saved /\ p.shows = page[t].shows
    BY <1>1, <1>2 DEF GoodPage, PageRow
  <2> HIDE DEF p
  <2>2. GoodPage(p, supplier, wallet)
    BY <1>1, <1>2, <2>1 DEF GoodPage
  <2> DEFINE q == WorkersPage(p)
  <2>3. GoodPage(q, supplier, wallet) /\ q.at # "saving"
    BY <2>1, <2>2, WorkersPageGood
  <2>4. Show(t, q)
    BY <1>4 DEF p
  <2> HIDE DEF q
  <2> QED
    BY <1>1, <1>3, <2>3, <2>4, PageMovesOn DEF PagesInv
<1>5. CASE Show(t, [page[t] EXCEPT !.at = "error"])
  <2>1. GoodPage([page[t] EXCEPT !.at = "error"], supplier, wallet)
        /\ [page[t] EXCEPT !.at = "error"].at = "error"
    BY <1>1, <1>2, OnlyAt
  <2> QED
    BY <1>1, <1>3, <1>5, <2>1, PageMovesOn DEF PagesInv
<1> QED
  BY <1>4, <1>5 DEF SupplierIndex

LEMMA SubmitNameInv == ASSUME ConsoleInv, NEW t \in ConsoleTabs, SubmitName(t) PROVE PagesInv'
<1> DEFINE p == [page[t] EXCEPT !.issuing = @ + 1]
<1>1. /\ supplier \in BOOLEAN /\ wallet \in [Cards -> Nat] /\ PagesInv
      /\ GoodPage(page[t], supplier, wallet)
  BY ConsoleAssumption DEF ConsoleInv, PagesInv
<1>2. /\ Show(t, p) /\ page[t].at = "name" /\ page[t].issuing < 2
      /\ UNCHANGED <<supplier, wallet, shown, misses>> /\ Act
  BY DEF SubmitName
<1>3. /\ p \in PageRow /\ p.at = "name" /\ p.told = page[t].told
      /\ p.saved = page[t].saved /\ p.shows = page[t].shows
  BY <1>1, <1>2 DEF GoodPage, PageRow
<1> HIDE DEF p
<1>4. GoodPage(p, supplier, wallet)
  BY <1>1, <1>2, <1>3 DEF GoodPage
<1> QED
  BY <1>1, <1>2, <1>3, <1>4, PageMovesOn, ConsoleCounts DEF PagesInv

(* Whatever a request for a token answers.                                  *)
LEMMA AfterIssueGood ==
    ASSUME NEW p, NEW s, NEW w, GoodPage(p, s, w), p.issuing > 0, NEW c \in Workers \cup {Nobody}
    PROVE  GoodPage(AfterIssue(p, c), s, w) /\ AfterIssue(p, c).at \in {"name", "snippet"}
<1>1. p \in PageRow /\ p.at \in {"name", "snippet"} /\ (p.at = "snippet" => p.token # Nobody)
  BY DEF GoodPage
<1>2. CASE c = Nobody
  <2> DEFINE q == [p EXCEPT !.issuing = @ - 1]
  <2>1. /\ q \in PageRow /\ q.at = p.at /\ q.told = p.told /\ q.token = p.token
        /\ q.saved = p.saved /\ q.shows = p.shows
    BY <1>1 DEF PageRow
  <2> HIDE DEF q
  <2>2. GoodPage(q, s, w)
    BY <1>1, <2>1 DEF GoodPage
  <2> QED
    BY <1>1, <1>2, <2>1, <2>2 DEF AfterIssue, q
<1>3. CASE c # Nobody
  <2> DEFINE i == p.issuing - 1
             q == [p EXCEPT !.issuing = i, !.at = "snippet", !.token = c]
  <2>0. i \in 0..2
    BY <1>1, PageIssues
  <2> HIDE DEF i
  <2>1. /\ q \in PageRow /\ q.at = "snippet" /\ q.told = p.told /\ q.token = c
        /\ q.saved = p.saved /\ q.shows = p.shows
    BY <1>1, <2>0 DEF PageRow, Resting
  <2> HIDE DEF q
  <2>2. GoodPage(q, s, w)
    BY <1>3, <2>1 DEF GoodPage
  <2> QED
    BY <1>3, <2>1, <2>2 DEF AfterIssue, q, i
<1> QED
  BY <1>2, <1>3

LEMMA IssuePages == ASSUME ConsoleInv, NEW t \in ConsoleTabs, IssueProvisioningToken(t)
                    PROVE  PagesInv'
<1>1. /\ supplier \in BOOLEAN /\ wallet \in [Cards -> Nat] /\ PagesInv
      /\ GoodPage(page[t], supplier, wallet) /\ page[t].issuing > 0
  BY ConsoleAssumption DEF ConsoleInv, PagesInv, IssueProvisioningToken
<1>2. PICK c \in Workers \cup {Nobody} : Show(t, AfterIssue(page[t], c))
  BY DEF IssueProvisioningToken
<1>3. UNCHANGED <<supplier, wallet, acts>> /\ shown' \subseteq Workers
  BY <1>1 DEF IssueProvisioningToken, PagesInv
<1>4. misses' \in 0..MaxMisses
  BY <1>1, ConsoleCounts DEF IssueProvisioningToken
<1>5. GoodPage(AfterIssue(page[t], c), supplier, wallet) /\ AfterIssue(page[t], c).at # "saving"
  BY <1>1, <1>2, AfterIssueGood
<1>6. page[t].at # "saving"
  BY <1>1 DEF GoodPage
<1> QED
  BY <1>1, <1>2, <1>3, <1>4, <1>5, <1>6, PageMovesOn, ConsoleCounts

LEMMA ReadMeInv == ASSUME ConsoleInv, NEW t \in ConsoleTabs, ReadMe(t) PROVE PagesInv'
<1>1. /\ supplier \in BOOLEAN /\ wallet \in [Cards -> 0..MaxActs] /\ PagesInv
      /\ GoodPage(page[t], supplier, wallet) /\ page[t].at = "reading me"
  BY DEF ConsoleInv, PagesInv, ReadMe
<1>2. page[t] \in PageRow /\ page[t].issuing = 0 /\ (page[t].told => supplier)
  BY <1>1, PageIssues DEF GoodPage
<1>3. /\ UNCHANGED <<supplier, wallet, shown, acts>> /\ misses' \in 0..MaxMisses
      /\ acts' \in 0..MaxActs /\ acts <= acts'
  BY <1>1, ConsoleCounts DEF ReadMe
<1> DEFINE p == [page[t] EXCEPT !.at = "reading supplier", !.shows["escrow"] = wallet["escrow"]]
<1>4. CASE Show(t, p)
  <2>1. /\ p \in PageRow /\ p.at = "reading supplier" /\ p.issuing = 0 /\ p.told = page[t].told
        /\ p.saved = page[t].saved /\ p.shows["escrow"] = wallet["escrow"]
    BY <1>1, <1>2 DEF PageRow, Waiting, Cards
  <2> HIDE DEF p
  <2>2. GoodPage(p, supplier, wallet)
    BY <1>1, <1>2, <2>1 DEF GoodPage, Cards
  <2> QED
    BY <1>1, <1>3, <1>4, <2>1, <2>2, PageMovesOn DEF PagesInv
<1>5. CASE Show(t, [page[t] EXCEPT !.at = "error"])
  <2>1. GoodPage([page[t] EXCEPT !.at = "error"], supplier, wallet)
        /\ [page[t] EXCEPT !.at = "error"].at = "error"
    BY <1>1, <1>2, OnlyAt
  <2> QED
    BY <1>1, <1>3, <1>5, <2>1, PageMovesOn DEF PagesInv
<1> QED
  BY <1>4, <1>5 DEF ReadMe

LEMMA ReadMySupplierInv == ASSUME ConsoleInv, NEW t \in ConsoleTabs, ReadMySupplier(t)
                           PROVE  PagesInv'
<1>1. /\ supplier \in BOOLEAN /\ wallet \in [Cards -> 0..MaxActs] /\ PagesInv
      /\ GoodPage(page[t], supplier, wallet) /\ page[t].at = "reading supplier"
  BY DEF ConsoleInv, PagesInv, ReadMySupplier
<1>2. page[t] \in PageRow /\ page[t].issuing = 0 /\ (page[t].told => supplier)
      /\ page[t].saved["escrow"] <= page[t].shows["escrow"]
  BY <1>1, PageIssues DEF GoodPage
<1>3. /\ UNCHANGED <<supplier, wallet, shown, acts>> /\ misses' \in 0..MaxMisses
      /\ acts' \in 0..MaxActs /\ acts <= acts'
  BY <1>1, ConsoleCounts DEF ReadMySupplier
<1> DEFINE p == [page[t] EXCEPT !.at = "wallet", !.payout = supplier,
                                !.shows["payout"] = wallet["payout"]]
<1>4. CASE Show(t, p)
  <2>1. /\ p \in PageRow /\ p.at = "wallet" /\ p.issuing = 0 /\ p.told = page[t].told
        /\ p.saved = page[t].saved /\ p.shows["payout"] = wallet["payout"]
        /\ p.shows["escrow"] = page[t].shows["escrow"]
    BY <1>1, <1>2 DEF PageRow, Resting, Cards
  <2> HIDE DEF p
  <2>2. GoodPage(p, supplier, wallet)
    BY <1>1, <1>2, <2>1 DEF GoodPage, Cards
  <2> QED
    BY <1>1, <1>3, <1>4, <2>1, <2>2, PageMovesOn DEF PagesInv
<1>5. CASE Show(t, [page[t] EXCEPT !.at = "error"])
  <2>1. GoodPage([page[t] EXCEPT !.at = "error"], supplier, wallet)
        /\ [page[t] EXCEPT !.at = "error"].at = "error"
    BY <1>1, <1>2, OnlyAt
  <2> QED
    BY <1>1, <1>3, <1>5, <2>1, PageMovesOn DEF PagesInv
<1> QED
  BY <1>4, <1>5 DEF ReadMySupplier

(* One click, one tab more that is saving.                                  *)
LEMMA SubmitWalletInv ==
    ASSUME ConsoleInv, NEW t \in ConsoleTabs, NEW c \in Cards, SubmitWallet(t, c) PROVE PagesInv'
<1> DEFINE p == [page[t] EXCEPT !.at = "saving", !.card = c]
<1>1. /\ supplier \in BOOLEAN /\ wallet \in [Cards -> 0..MaxActs] /\ PagesInv
      /\ page \in [ConsoleTabs -> PageRow]
      /\ GoodPage(page[t], supplier, wallet) /\ page[t].at = "wallet"
  BY DEF ConsoleInv, PagesInv, SubmitWallet
<1>2. page' = [page EXCEPT ![t] = p] /\ UNCHANGED <<supplier, wallet, shown, misses>>
      /\ acts' = acts + 1 /\ acts < MaxActs
  BY DEF SubmitWallet, Show, Act
<1>3. /\ p \in PageRow /\ p.at = "saving" /\ p.card = c /\ p.issuing = page[t].issuing
      /\ p.told = page[t].told /\ p.saved = page[t].saved /\ p.shows = page[t].shows
  BY <1>1 DEF GoodPage, PageRow, Waiting
<1> HIDE DEF p
<1>4. GoodPage(p, supplier, wallet)
  BY <1>1, <1>3 DEF GoodPage, PageRow
<1>5. page' \in [ConsoleTabs -> PageRow] /\ \A u \in ConsoleTabs : GoodPage(page'[u], supplier, wallet)
  BY <1>1, <1>2, <1>3, <1>4 DEF PagesInv
<1>6. ASSUME NEW d \in Cards PROVE ClickedFor(d)'
  <2>1. /\ IsFiniteSet(SavingTabs(d)) /\ wallet[d] + Cardinality(SavingTabs(d)) <= acts
        /\ wallet[d] \in Int /\ acts \in Int
    BY <1>1, ConsoleAssumption DEF PagesInv, ClickedFor
  <2>2. Cardinality(SavingTabs(d)) \in Nat
    BY <2>1, FS_CardinalityType
  <2>3. CASE d = c
    <3>1. SavingTabs(d)' = SavingTabs(d) \cup {t} /\ t \notin SavingTabs(d)
      BY <1>1, <1>2, <1>3, <2>3 DEF SavingTabs
    <3>2. /\ IsFiniteSet(SavingTabs(d)')
          /\ Cardinality(SavingTabs(d)') = Cardinality(SavingTabs(d)) + 1
      BY <2>1, <3>1, FS_AddElement
    <3>3. wallet'[d] + Cardinality(SavingTabs(d)') <= acts'
      BY <1>2, <2>1, <2>2, <3>2
    <3> QED
      BY <3>2, <3>3 DEF ClickedFor
  <2>4. CASE d # c
    <3>1. SavingTabs(d)' = SavingTabs(d)
      BY <1>1, <1>2, <1>3, <2>4 DEF SavingTabs
    <3>2. wallet'[d] + Cardinality(SavingTabs(d)) <= acts'
      BY <1>2, <2>1, <2>2
    <3> QED
      BY <2>1, <3>1, <3>2 DEF ClickedFor
  <2> QED
    BY <2>3, <2>4
<1>7. acts' \in 0..MaxActs
  BY <1>1, <1>2, ConsoleAssumption DEF PagesInv
<1> QED
  BY <1>1, <1>2, <1>5, <1>6, <1>7 DEF PagesInv

(* The save of a tab makes the address at most one newer, and the tab is no *)
(* longer saving.                                                           *)
LEMMA SaveWalletInv == ASSUME ConsoleInv, NEW t \in ConsoleTabs, SaveWallet(t) PROVE PagesInv'
<1> DEFINE c == page[t].card
<1>1. /\ supplier \in BOOLEAN /\ wallet \in [Cards -> 0..MaxActs] /\ PagesInv
      /\ page \in [ConsoleTabs -> PageRow] /\ c \in Cards
      /\ GoodPage(page[t], supplier, wallet) /\ page[t].at = "saving" /\ page[t].issuing = 0
  <2>1. /\ supplier \in BOOLEAN /\ wallet \in [Cards -> 0..MaxActs] /\ PagesInv
        /\ page \in [ConsoleTabs -> PageRow]
        /\ GoodPage(page[t], supplier, wallet) /\ page[t].at = "saving"
    BY DEF ConsoleInv, PagesInv, SaveWallet
  <2>2. page[t].card \in Cards
    BY <2>1 DEF PageRow
  <2>3. page[t].issuing = 0
    BY <2>1, PageIssues DEF GoodPage
  <2> QED
    BY <2>1, <2>2, <2>3
<1>2. UNCHANGED <<supplier, shown, acts>> /\ misses' \in 0..MaxMisses
  BY <1>1, ConsoleCounts DEF SaveWallet
<1>3. PICK p : Show(t, p)
  BY DEF SaveWallet
<1>4. /\ IsFiniteSet(SavingTabs(c)) /\ wallet[c] + Cardinality(SavingTabs(c)) <= acts
      /\ wallet[c] \in Nat /\ acts \in 0..MaxActs /\ t \in SavingTabs(c)
  <2> HIDE DEF c
  <2>1. ClickedFor(c) /\ wallet[c] \in 0..MaxActs /\ acts \in 0..MaxActs
    BY <1>1 DEF PagesInv
  <2>2. t \in SavingTabs(c)
    BY <1>1 DEF SavingTabs, c
  <2> QED
    BY <2>1, <2>2, ConsoleAssumption DEF ClickedFor
<1>5. /\ IsFiniteSet(SavingTabs(c) \ {t})
      /\ Cardinality(SavingTabs(c) \ {t}) = Cardinality(SavingTabs(c)) - 1
  BY <1>4, FS_RemoveElement
<1>6. Cardinality(SavingTabs(c)) \in Nat /\ Cardinality(SavingTabs(c) \ {t}) \in Nat
  BY <1>4, <1>5, FS_CardinalityType
<1>7. wallet[c] + 1 \in 0..MaxActs
  BY <1>4, <1>5, <1>6, ConsoleAssumption
<1>8. wallet' \in {wallet, [wallet EXCEPT ![c] = @ + 1]}
  BY DEF SaveWallet
<1>9. /\ wallet' \in [Cards -> 0..MaxActs]
      /\ \A d \in Cards : wallet[d] <= wallet'[d]
      /\ wallet'[c] <= wallet[c] + 1 /\ \A d \in Cards : d # c => wallet'[d] = wallet[d]
  <2>1. \A d \in Cards : wallet[d] \in 0..MaxActs
    BY <1>1
  <2> QED
    BY <1>1, <1>7, <1>8, <2>1, ConsoleAssumption
<1>10. PICK q : /\ Show(t, q) /\ q \in PageRow /\ q.at # "saving" /\ GoodPage(q, supplier, wallet')
  <2>0. /\ page[t] \in PageRow /\ (page[t].told => supplier)
        /\ \A d \in Cards : page[t].saved[d] <= wallet[d] /\ page[t].saved[d] <= page[t].shows[d]
        /\ page[t].saved \in [Cards -> 0..MaxActs] /\ page[t].shows \in [Cards -> 0..MaxActs]
    BY <1>1 DEF GoodPage, PageRow
  <2>1. CASE /\ wallet' = [wallet EXCEPT ![c] = @ + 1]
             /\ Show(t, [page[t] EXCEPT !.at = AfterSave(page[t]), !.saved[c] = wallet[c] + 1])
    <3> DEFINE q == [page[t] EXCEPT !.at = "reading me", !.saved[c] = wallet[c] + 1]
    <3>1. /\ q \in PageRow /\ q.at = "reading me" /\ q.issuing = 0 /\ q.told = page[t].told
          /\ q.saved = [page[t].saved EXCEPT ![c] = wallet[c] + 1]
      BY <1>1, <1>7, <2>0 DEF PageRow, Waiting
    <3>2. Show(t, q)
      BY <2>1 DEF AfterSave
    <3> HIDE DEF q
    <3>3. \A d \in Cards : q.saved[d] <= wallet'[d]
      BY <1>1, <1>4, <1>9, <2>0, <2>1, <3>1, ConsoleAssumption
    <3>4. GoodPage(q, supplier, wallet')
      BY <1>1, <2>0, <3>1, <3>3, GoodWithoutWallet
    <3> QED
      BY <3>1, <3>2, <3>4
  <2>2. CASE Show(t, [page[t] EXCEPT !.at = "wallet", !.saved[c] = 0])
    <3> DEFINE saved == [page[t].saved EXCEPT ![c] = 0]
               q == [page[t] EXCEPT !.at = "wallet", !.saved = saved]
    <3>2. Show(t, q)
      BY <2>2
    <3>0. saved \in [Cards -> 0..MaxActs]
      BY <1>1, <2>0, ConsoleAssumption
    <3> HIDE DEF saved
    <3>1. /\ q \in PageRow /\ q.at = "wallet" /\ q.issuing = 0 /\ q.told = page[t].told
          /\ q.saved = [page[t].saved EXCEPT ![c] = 0] /\ q.shows = page[t].shows
      BY <1>1, <2>0, <3>0 DEF PageRow, Resting, saved
    <3> HIDE DEF q
    <3>3. \A d \in Cards : q.saved[d] <= wallet'[d] /\ q.saved[d] <= q.shows[d]
      BY <1>1, <1>9, <2>0, <3>1, ConsoleAssumption
    <3>4. GoodPage(q, supplier, wallet')
      BY <2>0, <3>1, <3>3 DEF GoodPage
    <3> QED
      BY <3>1, <3>2, <3>4
  <2> QED
    BY <2>1, <2>2 DEF SaveWallet
<1>11. page' = [page EXCEPT ![t] = q]
  BY <1>10 DEF Show
<1>12. page' \in [ConsoleTabs -> PageRow]
  BY <1>1, <1>10, <1>11
<1>13. \A u \in ConsoleTabs : GoodPage(page'[u], supplier', wallet')
  <2>1. wallet \in [Cards -> Nat] /\ wallet' \in [Cards -> Nat]
    BY <1>1, <1>9, ConsoleAssumption
  <2> QED
    BY <1>1, <1>2, <1>9, <1>10, <1>11, <2>1, GoodPageStays DEF PagesInv
<1>14. ASSUME NEW d \in Cards PROVE ClickedFor(d)'
  <2>1. CASE d = c
    <3>1. SavingTabs(d)' = SavingTabs(c) \ {t}
      BY <1>1, <1>10, <1>11, <2>1 DEF SavingTabs
    <3>2. wallet'[d] + Cardinality(SavingTabs(c) \ {t}) <= acts'
      BY <1>2, <1>4, <1>5, <1>6, <1>9, <2>1, ConsoleAssumption
    <3> QED
      BY <1>5, <3>1, <3>2 DEF ClickedFor
  <2>2. CASE d # c
    <3>1. SavingTabs(d)' = SavingTabs(d)
      BY <1>1, <1>10, <1>11, <2>2 DEF SavingTabs
    <3> QED
      BY <1>1, <1>2, <1>9, <2>2, <3>1 DEF ClickedFor, PagesInv
  <2> QED
    BY <2>1, <2>2
<1> QED
  BY <1>1, <1>2, <1>9, <1>12, <1>13, <1>14 DEF PagesInv

LEMMA ConsolePagesStep == ASSUME ConsoleInv, [ConsoleNext]_consoleVars PROVE PagesInv'
<1>1. ASSUME NEW t \in ConsoleTabs,
             \/ OpenConsole(t)
             \/ \E to \in {"home", "form", "name", "workers", "wallet"} : GoTo(t, to)
             \/ SubmitSupplier(t) \/ ReadSupplier(t) \/ InsertSupplier(t)
             \/ SupplierIndex(t) \/ SubmitName(t)
      PROVE  PagesInv'
  BY <1>1, OpenConsoleInv, GoToInv, BecomeInv, SupplierIndexInv, SubmitNameInv
<1>2. ASSUME NEW t \in ConsoleTabs,
             \/ IssueProvisioningToken(t) \/ ReadMe(t) \/ ReadMySupplier(t) \/ SaveWallet(t)
             \/ \E c \in Cards : SubmitWallet(t, c)
      PROVE  PagesInv'
  BY <1>2, IssuePages, ReadMeInv, ReadMySupplierInv, SaveWalletInv, SubmitWalletInv
<1>3. ASSUME NEW m \in Machines,
             (\E w \in Workers : Register(m, w)) \/ MatchToken(m) \/ RegisterWorker(m)
      PROVE  PagesInv'
  <2>1. UNCHANGED <<supplier, wallet, page, shown>>
    BY <1>3 DEF Register, MatchToken, RegisterWorker
  <2>2. acts' \in 0..MaxActs /\ acts <= acts' /\ misses' \in 0..MaxMisses
    BY <1>3, ConsoleCounts DEF ConsoleInv, Register, MatchToken, RegisterWorker
  <2> QED
    BY <2>1, <2>2, PagesStay DEF ConsoleInv
<1>4. CASE UNCHANGED consoleVars
  BY <1>4, PagesStay, ConsoleCounts DEF ConsoleInv, consoleVars
<1> QED
  BY <1>1, <1>2, <1>3, <1>4 DEF ConsoleNext

(* The invariant of the console holds in every state it reaches.            *)
THEOREM ConsoleInvariant == ConsoleSpec => []ConsoleInv
<1>1. ConsoleInit => ConsoleInv
  BY ConsoleInitInv, PagesInit DEF ConsoleInv
<1>2. ASSUME ConsoleInv, [ConsoleNext]_consoleVars PROVE ConsoleInv'
  BY <1>2, ConsoleStepInv, ConsolePagesStep DEF ConsoleInv
<1> QED
  BY <1>1, <1>2, PTL DEF ConsoleSpec

(* The rows, pages and machines of the console keep their types.            *)
THEOREM ConsoleTypeCorrect == ConsoleSpec => []ConsoleTypeOK
<1>1. ConsoleInv => ConsoleTypeOK
  BY DEF ConsoleInv, RegInv, RegTypeOK, WorkerRow, MachineRow, PagesInv, PageRow, GoodPage,
         ConsoleTypeOK
<1> QED
  BY <1>1, ConsoleInvariant, PTL

(* Nobody is told to become a supplier first who has been told he is one,    *)
(* and the address above "wallet saved" is that save's or a later one's      *)
(* (the supplier's pages under web/src/app/dashboard).                       *)
THEOREM ConsoleTellsTheTruth == ConsoleSpec => []ConsoleIsTrue
<1>1. ASSUME ConsoleInv PROVE ConsoleIsTrue
  <2>1. WelcomeOnlyStrangers
    BY <1>1 DEF ConsoleInv, PagesInv, GoodPage, WelcomeOnlyStrangers
  <2>2. ASSUME NEW t \in ConsoleTabs, NEW c \in Cards, page[t].at = "wallet"
        PROVE  page[t].shows[c] >= page[t].saved[c]
    <3>1. page[t].saved[c] <= page[t].shows[c] /\ page[t] \in PageRow
      BY <1>1, <2>2 DEF ConsoleInv, PagesInv, GoodPage
    <3> QED
      BY <3>1 DEF PageRow
  <2> QED
    BY <2>1, <2>2 DEF ConsoleIsTrue, SavedIsShown
<1> QED
  BY <1>1, ConsoleInvariant, PTL

(*****************************************************************************)
(* The offerings.  What a form sends of a field nobody touched is what it    *)
(* was loaded with, respelt (FormGood), the offering of a booking exists, a  *)
(* visitor misses an offering only if it is gone; seeds never are.           *)
(*****************************************************************************)
OfferingRow == [owner : Suppliers, price : Prices, tags : SUBSET Tags, status : OfferingStatus]
AtOffering == {"edit", "saving", "committing", "archiving", "deleting"}
FormRow == [at : {"list", "new", "edit", "creating", "saving", "committing",
                  "archiving", "deleting", "not found"},
            by : Suppliers \cup {None}, id : Offerings \cup {None},
            base : Values, typed : Values, touched : SUBSET Fields, read : Values]
BookingRow == [at : {"none", "creating", "pending", "active", "closed"},
               offering : Offerings \cup {None},
               quoted : Prices \cup {0}, locked : Prices \cup {0}]
VisitorRow == [at : {"home", "browse", "offering", "not found", "error"},
               items : SUBSET (Offerings \cup Seeds), id : Offerings \cup Seeds \cup {None},
               outage : BOOLEAN]

(* A form that is at an offering knows which, and what it sends of a field  *)
(* nobody touched is what it was loaded with, as the form spells it.        *)
FormGood(f) ==
    /\ f \in FormRow
    /\ f.at \in AtOffering => f.id \in Offerings
    /\ f.at \notin {"list", "not found"} => f.by \in Suppliers
    /\ f.at \in {"saving", "committing"} =>
           \A x \in Fields \ f.touched : f.typed[x] = InitialOf(f.base)[x]

BookingGood(k) == k \in BookingRow /\ (k.at # "none" => k.offering \in Offerings)

StoreInv ==
    /\ row \in [Offerings -> OfferingRow \cup {NoRow}]
    /\ form \in [Forms -> FormRow] /\ \A t \in Forms : FormGood(form[t])
    /\ booking \in [Bookings -> BookingRow] /\ \A b \in Bookings : BookingGood(booking[b])
    /\ visitor \in VisitorRow
    /\ visitor.at = "browse" \/ visitor.at = "home" \/ visitor.id \in Offerings \cup Seeds
    /\ api \in {"up", "failing", "unreachable"}
    /\ lost \in 0..MaxLost /\ clicks \in 0..MaxClicks
    /\ BookedOfferExists
    /\ CardsLead

-----------------------------------------------------------------------------
(* What an empty form holds.                                                *)
LEMMA BlankIs == Blank \in Values
<1>1. (CHOOSE p \in Prices : TRUE) \in Prices
  BY StoreAssumption
<1> QED
  BY <1>1 DEF Blank, Values, OfferingStatus

(* Respelt, tags are words, and those that were words stay what they are.   *)
LEMMA SpelledIs ==
    ASSUME NEW tags \in SUBSET Tags
    PROVE  /\ Spelled(tags) \in SUBSET Words
           /\ Words \cap tags \subseteq Spelled(tags)
           /\ tags \subseteq Words => Spelled(tags) = tags
<1>1. /\ \A g \in tags : WordsOf[g] \subseteq Words
      /\ \A w \in Words : WordsOf[w] = {w}
  BY StoreAssumption
<1>2. \A w : w \in Spelled(tags) <=> \E g \in tags : w \in WordsOf[g]
  BY DEF Spelled
<1> QED
  BY <1>1, <1>2

(* A field of the form before anybody types. *)
LEMMA InitialIs ==
    ASSUME NEW v \in Values
    PROVE  /\ InitialOf(v)["price"] = v["price"] /\ InitialOf(v)["status"] = v["status"]
           /\ InitialOf(v)["tags"] = Spelled(v["tags"])
BY DEF InitialOf, Values

LEMMA OfferedIs ==
    ASSUME NEW s \in Suppliers, NEW v \in Values
    PROVE  OfferedBy(s, v) \in OfferingRow
BY DEF OfferedBy, Values, OfferingRow

(* A row of an offering is not the absence of one. *)
LEMMA RowThere == ASSUME NEW r \in OfferingRow PROVE r # NoRow /\ ValuesOf(r) \in Values
<1>1. r # NoRow
  <2>1. DOMAIN r = {"owner", "price", "tags", "status"} /\ DOMAIN NoRow = {"owner"}
    BY DEF OfferingRow, NoRow
  <2> QED
    BY <2>1
<1>2. ValuesOf(r) = [price |-> r.price, tags |-> r.tags, status |-> r.status]
  BY DEF ValuesOf, Fields
<1> QED
  BY <1>1, <1>2 DEF Values, OfferingRow

LEMMA StoreInitInv == StoreInit => StoreInv
<1> SUFFICES ASSUME StoreInit PROVE StoreInv
  OBVIOUS
<1>1. row \in [Offerings -> OfferingRow \cup {NoRow}]
  <2>1. FirstRows \subseteq OfferingRow
    <3>1. SUFFICES ASSUME NEW r \in FirstRows PROVE r \in OfferingRow
      OBVIOUS
    <3>2. PICK s \in Suppliers, v \in FirstValues : r = OfferedBy(s, v)
      BY DEF FirstRows
    <3> QED
      BY <3>2, OfferedIs DEF FirstValues
  <2>2. row \in [Offerings -> {NoRow} \cup FirstRows]
    BY DEF StoreInit
  <2> QED
    BY <2>1, <2>2
<1>2. Closed \in FormRow /\ FormGood(Closed)
  BY BlankIs DEF Closed, FormGood, FormRow, AtOffering
<1>3. NoBooking \in BookingRow /\ BookingGood(NoBooking)
  BY DEF NoBooking, BookingGood, BookingRow
<1>4. visitor \in VisitorRow /\ visitor.at = "home" /\ CardsLead
  BY DEF StoreInit, VisitorRow, CardsLead
<1>5. BookedOfferExists
  BY DEF StoreInit, BookedOfferExists, Referenced, NoBooking
<1>6. lost \in 0..MaxLost /\ clicks \in 0..MaxClicks /\ api \in {"up", "failing", "unreachable"}
  BY StoreAssumption DEF StoreInit
<1> QED
  BY <1>1, <1>2, <1>3, <1>4, <1>5, <1>6 DEF StoreInv, StoreInit

(* A step of one form that leaves the rows alone.                           *)
LEMMA FormGoesOn ==
    ASSUME StoreInv, NEW t \in Forms, NEW f, FormGood(f), form' = [form EXCEPT ![t] = f],
           UNCHANGED <<row, booking, visitor, api>>,
           lost' \in 0..MaxLost, clicks' \in 0..MaxClicks
    PROVE  StoreInv'
<1>1. f \in FormRow
  BY DEF FormGood
<1>2. form' \in [Forms -> FormRow] /\ \A u \in Forms : FormGood(form'[u])
  BY <1>1 DEF StoreInv
<1>3. BookedOfferExists' /\ CardsLead'
  BY DEF StoreInv, BookedOfferExists, Referenced, Exists, CardsLead
<1> QED
  BY <1>2, <1>3 DEF StoreInv

LEMMA Counted == ASSUME StoreInv
                 PROVE  /\ Click => clicks' \in 0..MaxClicks
                        /\ AnswerLost => lost' \in 0..MaxLost
                        /\ UNCHANGED clicks => clicks' \in 0..MaxClicks
                        /\ UNCHANGED lost => lost' \in 0..MaxLost
BY StoreAssumption DEF StoreInv, Click, AnswerLost

(* What a form becomes when it was refused or is closed.                    *)
LEMMA RefusedGood ==
    ASSUME StoreInv, NEW t \in Forms,
           form[t].at \in {"creating", "saving", "committing"}
    PROVE  /\ FormGood(Closed)
           /\ Refused(t) => \E f : FormGood(f) /\ form' = [form EXCEPT ![t] = f]
<1>1. Closed \in FormRow
  BY BlankIs DEF Closed, FormRow
<1>2. FormGood(Closed)
  BY <1>1 DEF Closed, FormGood, AtOffering
<1>3. FormGood(form[t]) /\ form[t] \in FormRow
  BY DEF StoreInv, FormGood
<1> DEFINE f == [Closed EXCEPT !.at = IF form[t].at = "creating" THEN "new" ELSE "edit",
                               !.by = form[t].by, !.id = form[t].id, !.base = form[t].base]
<1>4. f \in FormRow
  BY <1>1, <1>3 DEF FormRow
<1>5. /\ f.at = IF form[t].at = "creating" THEN "new" ELSE "edit"
      /\ f.by = form[t].by /\ f.id = form[t].id
  BY DEF Closed
<1>6. Refused(t) => form' = [form EXCEPT ![t] = f]
  BY DEF Refused
<1> HIDE DEF f
<1>7. FormGood(f)
  BY <1>3, <1>4, <1>5 DEF FormGood, AtOffering
<1> QED
  BY <1>2, <1>6, <1>7

LEMMA OpenInv ==
    ASSUME StoreInv, NEW t \in Forms, NEW s \in Suppliers,
           OpenNew(t, s) \/ \E o \in Offerings : OpenEdit(t, s, o)
    PROVE  StoreInv'
<1>1. Closed \in FormRow
  BY BlankIs DEF Closed, FormRow
<1>2. CASE OpenNew(t, s)
  <2> DEFINE f == [Closed EXCEPT !.at = "new", !.by = s]
  <2>1. f \in FormRow /\ f.at = "new" /\ f.by = s
    BY <1>1 DEF FormRow, Closed
  <2>2. FormGood(f)
    BY <2>1 DEF FormGood, AtOffering
  <2>3. form' = [form EXCEPT ![t] = f] /\ Click /\ UNCHANGED <<row, booking, visitor, api, lost>>
    BY <1>2 DEF OpenNew
  <2> HIDE DEF f
  <2> QED
    BY <2>2, <2>3, Counted, FormGoesOn
<1>3. ASSUME NEW o \in Offerings, OpenEdit(t, s, o) PROVE StoreInv'
  <2>1. Click /\ UNCHANGED <<row, booking, visitor, api, lost>>
    BY <1>3 DEF OpenEdit
  <2>2. CASE Exists(o)
    <3>1. ValuesOf(row[o]) \in Values
      BY <2>2, RowThere DEF StoreInv, Exists
    <3> DEFINE f == [Closed EXCEPT !.at = "edit", !.by = s, !.id = o, !.base = ValuesOf(row[o])]
    <3>2. f \in FormRow /\ f.at = "edit" /\ f.by = s /\ f.id = o
      BY <1>1, <3>1 DEF FormRow, Closed
    <3>3. FormGood(f)
      BY <3>2 DEF FormGood, AtOffering
    <3>4. form' = [form EXCEPT ![t] = f]
      BY <1>3, <2>2 DEF OpenEdit
    <3> HIDE DEF f
    <3> QED
      BY <2>1, <3>3, <3>4, Counted, FormGoesOn
  <2>3. CASE ~Exists(o)
    <3> DEFINE f == [Closed EXCEPT !.at = "not found"]
    <3>1. f \in FormRow /\ f.at = "not found"
      BY <1>1 DEF FormRow, Closed
    <3>2. FormGood(f)
      BY <3>1 DEF FormGood, AtOffering
    <3>3. form' = [form EXCEPT ![t] = f]
      BY <1>3, <2>3 DEF OpenEdit
    <3> HIDE DEF f
    <3> QED
      BY <2>1, <3>2, <3>3, Counted, FormGoesOn
  <2> QED
    BY <2>2, <2>3
<1> QED
  BY <1>2, <1>3

(* A form is sent: of an untouched field goes what was loaded, respelt.     *)
LEMMA SaveFormInv == ASSUME StoreInv, NEW t \in Forms, Submit(t) PROVE StoreInv'
<1>1. FormGood(form[t]) /\ form[t] \in FormRow /\ form[t].at \in {"new", "edit"}
  BY DEF Submit, StoreInv, FormGood
<1>2. PICK touched \in SUBSET Fields, v \in Body :
        form' = [form EXCEPT
            ![t].at = IF @ = "new" THEN "creating" ELSE "saving",
            ![t].touched = touched,
            ![t].typed = [x \in Fields |-> IF x \in touched THEN v[x] ELSE InitialOf(form[t].base)[x]]]
  BY DEF Submit
<1> DEFINE sent == [x \in Fields |-> IF x \in touched THEN v[x] ELSE InitialOf(form[t].base)[x]]
           at == IF form[t].at = "new" THEN "creating" ELSE "saving"
           f == [form[t] EXCEPT !.at = at, !.touched = touched, !.typed = sent]
<1>3. sent \in Values
  <2>1. sent = [price |-> sent["price"], tags |-> sent["tags"], status |-> sent["status"]]
    BY DEF Fields
  <2>2. form[t].base \in Values
    BY <1>1 DEF FormRow
  <2>3. /\ v["price"] \in Prices /\ v["tags"] \in SUBSET Words /\ v["status"] \in OfferingStatus
        /\ Words \subseteq Tags
    BY <1>2, StoreAssumption DEF Body
  <2>4. /\ form[t].base["price"] \in Prices /\ form[t].base["tags"] \in SUBSET Tags
        /\ form[t].base["status"] \in OfferingStatus
    BY <2>2 DEF Values
  <2>5. sent["price"] \in Prices /\ sent["tags"] \in SUBSET Tags /\ sent["status"] \in OfferingStatus
    BY <2>2, <2>3, <2>4, InitialIs, SpelledIs DEF Fields
  <2> HIDE DEF sent
  <2> QED
    BY <2>1, <2>5 DEF Values
<1>4. \A x \in Fields \ touched : sent[x] = InitialOf(form[t].base)[x]
  OBVIOUS
<1>5. form' = [form EXCEPT ![t] = f]
  BY <1>1, <1>2 DEF StoreInv
<1> HIDE DEF sent
<1>6. at \in {"creating", "saving"} /\ (at = "saving" => form[t].at = "edit")
  BY <1>1
<1> HIDE DEF at
<1>7. /\ f \in FormRow /\ f.at = at /\ f.touched = touched /\ f.typed = sent
      /\ f.base = form[t].base /\ f.by = form[t].by /\ f.id = form[t].id
  BY <1>1, <1>3, <1>6 DEF FormRow
<1> HIDE DEF f
<1>8. FormGood(f)
  BY <1>1, <1>4, <1>6, <1>7 DEF FormGood, AtOffering
<1> QED
  BY <1>5, <1>8, Counted, FormGoesOn DEF Submit

(* What the save of a form that was committed leaves behind.                *)
LEMMA SavedGood ==
    ASSUME StoreInv, NEW t \in Forms, form[t].at \in {"creating", "saving", "committing"}, Saved(t)
    PROVE  lost' \in 0..MaxLost /\ \E f : FormGood(f) /\ form' = [form EXCEPT ![t] = f]
BY RefusedGood, Counted DEF Saved

(* The form goes on, and so may the rows of the offerings: they are there   *)
(* where a booking refers to them, and no page is shown one it missed.      *)
LEMMA RowGoesOn ==
    ASSUME StoreInv, NEW t \in Forms, NEW f, FormGood(f), form' = [form EXCEPT ![t] = f],
           UNCHANGED <<booking, visitor, api>>, row' \in [Offerings -> OfferingRow \cup {NoRow}],
           lost' \in 0..MaxLost, clicks' \in 0..MaxClicks,
           \A o \in Offerings : Referenced(o) => Exists(o)',
           \A o \in Offerings : Exists(o)' => Exists(o) \/ visitor.id # o
    PROVE  StoreInv'
<1>1. f \in FormRow
  BY DEF FormGood
<1>2. form' \in [Forms -> FormRow] /\ \A u \in Forms : FormGood(form'[u])
  BY <1>1 DEF StoreInv
<1>3. BookedOfferExists'
  BY DEF BookedOfferExists, Referenced
<1>4. CardsLead'
  <2>1. SUFFICES ASSUME visitor.at = "not found"
                 PROVE  visitor.id \notin Seeds /\ (visitor.outage \/ ~Exists(visitor.id)')
    BY DEF CardsLead, Exists
  <2>2. visitor.id \in Offerings /\ (visitor.outage \/ ~Exists(visitor.id))
    BY <2>1 DEF StoreInv, CardsLead
  <2> QED
    BY <2>1, <2>2 DEF StoreInv, CardsLead
<1> QED
  BY <1>2, <1>3, <1>4 DEF StoreInv

LEMMA CreateInv == ASSUME StoreInv, NEW t \in Forms, CreateOffering(t) PROVE StoreInv'
<1>1. /\ FormGood(form[t]) /\ form[t] \in FormRow /\ form[t].at = "creating"
      /\ UNCHANGED <<booking, visitor, api, clicks>> /\ clicks' \in 0..MaxClicks
  BY Counted DEF CreateOffering, StoreInv, FormGood
<1>2. CASE Refused(t) /\ UNCHANGED <<row, lost>>
  BY <1>1, <1>2, RefusedGood, FormGoesOn, Counted
<1>3. CASE ~(Refused(t) /\ UNCHANGED <<row, lost>>)
  <2>1. PICK o \in Offerings : /\ ~Exists(o) /\ visitor.id # o
                               /\ row' = [row EXCEPT ![o] = OfferedBy(form[t].by, form[t].typed)]
    BY <1>3 DEF CreateOffering
  <2>2. Saved(t)
    BY <1>3 DEF CreateOffering
  <2>3. OfferedBy(form[t].by, form[t].typed) \in OfferingRow
    BY <1>1, OfferedIs DEF FormGood, FormRow
  <2>4. /\ row' \in [Offerings -> OfferingRow \cup {NoRow}]
        /\ Exists(o)' /\ \A p \in Offerings : p # o => Exists(p)' = Exists(p)
    BY <2>1, <2>3, RowThere DEF StoreInv, Exists
  <2>5. \A p \in Offerings : Referenced(p) => Exists(p)'
    BY <2>4 DEF StoreInv, BookedOfferExists
  <2>6. \A p \in Offerings : Exists(p)' => Exists(p) \/ visitor.id # p
    BY <2>1, <2>4
  <2>7. lost' \in 0..MaxLost /\ \E f : FormGood(f) /\ form' = [form EXCEPT ![t] = f]
    BY <1>1, <2>2, SavedGood
  <2> QED
    BY <1>1, <2>4, <2>5, <2>6, <2>7, RowGoesOn
<1> QED
  BY <1>2, <1>3

LEMMA ReadForUpdateInv == ASSUME StoreInv, NEW t \in Forms, ReadForUpdate(t) PROVE StoreInv'
<1>1. /\ FormGood(form[t]) /\ form[t] \in FormRow /\ form[t].at = "saving"
      /\ UNCHANGED <<row, booking, visitor, api, lost, clicks>>
  BY DEF ReadForUpdate, StoreInv, FormGood
<1>2. CASE Refused(t)
  BY <1>1, <1>2, RefusedGood, FormGoesOn, Counted
<1>3. CASE ~Refused(t)
  <2> DEFINE read == ValuesOf(row[form[t].id])
             f == [form[t] EXCEPT !.at = "committing", !.read = read]
  <2>1. form' = [form EXCEPT ![t] = f] /\ Exists(form[t].id)
    BY <1>1, <1>3 DEF ReadForUpdate, StoreInv
  <2>2. read \in Values
    BY <1>1, <2>1, RowThere DEF FormGood, AtOffering, StoreInv, Exists
  <2> HIDE DEF read
  <2>3. /\ f \in FormRow /\ f.at = "committing" /\ f.touched = form[t].touched
        /\ f.typed = form[t].typed /\ f.base = form[t].base /\ f.by = form[t].by
        /\ f.id = form[t].id
    BY <1>1, <2>2 DEF FormRow
  <2> HIDE DEF f
  <2>4. FormGood(f)
    BY <1>1, <2>3 DEF FormGood, AtOffering
  <2> QED
    BY <1>1, <2>1, <2>4, FormGoesOn, Counted
<1> QED
  BY <1>2, <1>3

(* The row a commit writes has the typed values of the fields in D.         *)
LEMMA Written ==
    ASSUME NEW r \in OfferingRow, NEW v \in Values, NEW D
    PROVE  [x \in DOMAIN r |-> IF x \in D THEN v[x] ELSE r[x]] \in OfferingRow \/ "owner" \in D
<1> SUFFICES ASSUME "owner" \notin D
             PROVE  [x \in DOMAIN r |-> IF x \in D THEN v[x] ELSE r[x]] \in OfferingRow
  OBVIOUS
<1> DEFINE w == [x \in DOMAIN r |-> IF x \in D THEN v[x] ELSE r[x]]
<1>1. DOMAIN r = {"owner", "price", "tags", "status"}
  BY DEF OfferingRow
<1>2. w = [owner |-> w["owner"], price |-> w["price"], tags |-> w["tags"], status |-> w["status"]]
  BY <1>1
<1>3. /\ w["owner"] = r.owner /\ w["price"] \in {r.price, v.price}
      /\ w["tags"] \in {r.tags, v.tags} /\ w["status"] \in {r.status, v.status}
  BY <1>1
<1> HIDE DEF w
<1>4. w \in OfferingRow
  BY <1>2, <1>3 DEF OfferingRow, Values
<1> QED
  BY <1>4 DEF w

LEMMA CommitUpdateInv == ASSUME StoreInv, NEW t \in Forms, CommitUpdate(t) PROVE StoreInv'
<1>1. /\ FormGood(form[t]) /\ form[t] \in FormRow /\ form[t].at = "committing"
      /\ UNCHANGED <<booking, visitor, api, clicks>> /\ clicks' \in 0..MaxClicks
  BY Counted DEF CommitUpdate, StoreInv, FormGood
<1>2. CASE Refused(t) /\ UNCHANGED <<row, lost>>
  BY <1>1, <1>2, RefusedGood, FormGoesOn, Counted
<1>3. CASE ~(Refused(t) /\ UNCHANGED <<row, lost>>)
  <2>1. PICK o \in Offerings : o = form[t].id
    BY <1>1 DEF FormGood, AtOffering
  <2> DEFINE D == {x \in Fields : form[t].typed[x] # form[t].read[x]}
             w == [x \in DOMAIN row[o] |-> IF x \in D THEN form[t].typed[x] ELSE row[o][x]]
  <2>2. Exists(o) /\ Saved(t) /\ row' = [row EXCEPT ![o] = w]
    BY <1>3, <2>1 DEF CommitUpdate, StoreInv
  <2>3. row[o] \in OfferingRow
    BY <2>2 DEF StoreInv, Exists
  <2>4. form[t].typed \in Values /\ "owner" \notin D
    BY <1>1 DEF FormRow, Fields
  <2> HIDE DEF D
  <2>5. w \in OfferingRow
    BY <2>3, <2>4, Written
  <2> HIDE DEF w
  <2>6. /\ row' \in [Offerings -> OfferingRow \cup {NoRow}]
        /\ \A p \in Offerings : Exists(p)' = Exists(p)
    <3>1. row'[o] = w /\ \A p \in Offerings : p # o => row'[p] = row[p]
      BY <2>2 DEF StoreInv
    <3>2. Exists(o)' /\ Exists(o)
      BY <2>2, <2>5, <3>1, RowThere DEF Exists
    <3> QED
      BY <2>2, <2>5, <3>1, <3>2 DEF StoreInv, Exists
  <2>7. \A p \in Offerings : Referenced(p) => Exists(p)'
    BY <2>6 DEF StoreInv, BookedOfferExists
  <2>8. lost' \in 0..MaxLost /\ \E f : FormGood(f) /\ form' = [form EXCEPT ![t] = f]
    BY <1>1, <2>2, SavedGood
  <2> QED
    BY <1>1, <2>6, <2>7, <2>8, RowGoesOn
<1> QED
  BY <1>2, <1>3

LEMMA DeleteInv ==
    ASSUME StoreInv, NEW t \in Forms, Archive(t) \/ ReadForDelete(t) \/ CommitDelete(t)
    PROVE  StoreInv'
<1>1. /\ FormGood(form[t]) /\ form[t] \in FormRow
      /\ form[t].at \in {"edit", "archiving", "deleting"}
  BY DEF Archive, ReadForDelete, CommitDelete, StoreInv, FormGood
<1>2. Closed \in FormRow /\ FormGood(Closed)
  BY BlankIs DEF Closed, FormGood, FormRow, AtOffering
<1>3. ASSUME NEW at \in {"archiving", "deleting"}
      PROVE  FormGood([form[t] EXCEPT !.at = at])
  <2> DEFINE f == [form[t] EXCEPT !.at = at]
  <2>1. f \in FormRow /\ f.at = at /\ f.id = form[t].id /\ f.by = form[t].by
    BY <1>1 DEF FormRow
  <2> HIDE DEF f
  <2>2. FormGood(f)
    BY <1>1, <2>1 DEF FormGood, AtOffering
  <2> QED
    BY <2>2 DEF f
<1>4. CASE Archive(t)
  <2>1. form' = [form EXCEPT ![t] = [form[t] EXCEPT !.at = "archiving"]]
    BY <1>4 DEF Archive, StoreInv
  <2> QED
    BY <1>3, <1>4, <2>1, FormGoesOn, Counted DEF Archive
<1>5. CASE ReadForDelete(t)
  <2>1. \/ form' = [form EXCEPT ![t] = [form[t] EXCEPT !.at = "deleting"]]
        \/ form' = [form EXCEPT ![t] = Closed]
    BY <1>5 DEF ReadForDelete, StoreInv
  <2> QED
    BY <1>2, <1>3, <1>5, <2>1, FormGoesOn, Counted DEF ReadForDelete
<1>6. CASE CommitDelete(t)
  <2>1. PICK o \in Offerings : o = form[t].id
    BY <1>1, <1>6 DEF FormGood, AtOffering, CommitDelete
  <2>2. /\ row' = IF Referenced(o) THEN row ELSE [row EXCEPT ![o] = NoRow]
        /\ form' = [form EXCEPT ![t] = Closed]
        /\ UNCHANGED <<booking, visitor, api, lost, clicks>>
    BY <1>6, <2>1 DEF CommitDelete
  <2>3. row' \in [Offerings -> OfferingRow \cup {NoRow}]
    BY <2>2 DEF StoreInv
  <2>4. \A p \in Offerings : Exists(p)' => Exists(p)
    BY <2>2 DEF Exists, StoreInv
  <2>5. \A p \in Offerings : Referenced(p) => Exists(p)'
    BY <2>2 DEF Exists, StoreInv, BookedOfferExists
  <2> QED
    BY <1>2, <2>2, <2>3, <2>4, <2>5, RowGoesOn, Counted
<1> QED
  BY <1>4, <1>5, <1>6

-----------------------------------------------------------------------------
(* Bookings hold on to offerings that are there.                            *)

LEMMA BookingGoesOn ==
    ASSUME StoreInv, NEW b \in Bookings, NEW k, BookingGood(k),
           booking' = [booking EXCEPT ![b] = k],
           UNCHANGED <<row, form, visitor, api, lost, clicks>>,
           k.at \in {"pending", "active", "closed"} => Exists(k.offering)
    PROVE  StoreInv'
<1>1. /\ booking' \in [Bookings -> BookingRow] /\ \A c \in Bookings : BookingGood(booking'[c])
      /\ booking'[b] = k /\ \A c \in Bookings : c # b => booking'[c] = booking[c]
  BY DEF StoreInv, BookingGood
<1>2. BookedOfferExists'
  BY <1>1 DEF StoreInv, BookedOfferExists, Referenced, Exists
<1>3. CardsLead'
  BY DEF StoreInv, CardsLead, Exists
<1> QED
  BY <1>1, <1>2, <1>3 DEF StoreInv

LEMMA BookingInv ==
    ASSUME StoreInv, NEW b \in Bookings,
           \/ \E o \in Offerings : ReadForBooking(b, o)
           \/ InsertBooking(b) \/ ActivateBooking(b) \/ CloseBooking(b)
    PROVE  StoreInv'
<1>1. BookingGood(booking[b]) /\ booking[b] \in BookingRow
  BY DEF StoreInv, BookingGood
<1>2. booking[b].at \in {"pending", "active"} =>
          /\ booking[b].offering \in Offerings /\ Exists(booking[b].offering)
          /\ row[booking[b].offering] \in OfferingRow
  BY <1>1 DEF BookingGood, StoreInv, BookedOfferExists, Referenced, Exists
<1>3. NoBooking \in BookingRow /\ BookingGood(NoBooking) /\ NoBooking.at = "none"
  BY DEF NoBooking, BookingGood, BookingRow
<1>4. ASSUME NEW o \in Offerings, ReadForBooking(b, o) PROVE StoreInv'
  <2>1. row[o] \in OfferingRow
    BY <1>4 DEF ReadForBooking, Active, Exists, StoreInv
  <2> DEFINE k == [NoBooking EXCEPT !.at = "creating", !.offering = o, !.quoted = row[o].price]
  <2>2. k \in BookingRow /\ k.at = "creating" /\ k.offering = o
    BY <2>1 DEF NoBooking, BookingRow, OfferingRow
  <2>3. booking' = [booking EXCEPT ![b] = k]
    BY <1>4 DEF ReadForBooking
  <2> HIDE DEF k
  <2>4. BookingGood(k)
    BY <2>2 DEF BookingGood
  <2> QED
    BY <1>4, <2>2, <2>3, <2>4, BookingGoesOn DEF ReadForBooking
<1>5. CASE InsertBooking(b)
  <2>1. CASE Exists(booking[b].offering)
    <3> DEFINE k == [booking[b] EXCEPT !.at = "pending"]
    <3>1. k \in BookingRow /\ k.at = "pending" /\ k.offering = booking[b].offering
      BY <1>1 DEF BookingRow
    <3>2. booking' = [booking EXCEPT ![b] = k] /\ booking[b].at = "creating"
      BY <1>5, <2>1 DEF InsertBooking, StoreInv
    <3> HIDE DEF k
    <3>3. BookingGood(k)
      BY <1>1, <3>1, <3>2 DEF BookingGood
    <3> QED
      BY <1>5, <2>1, <3>1, <3>2, <3>3, BookingGoesOn DEF InsertBooking
  <2>2. CASE ~Exists(booking[b].offering)
    <3>1. booking' = [booking EXCEPT ![b] = NoBooking]
      BY <1>5, <2>2 DEF InsertBooking
    <3> QED
      BY <1>3, <1>5, <3>1, BookingGoesOn DEF InsertBooking
  <2> QED
    BY <2>1, <2>2
<1>6. CASE ActivateBooking(b)
  <2> DEFINE k == [booking[b] EXCEPT !.at = "active", !.locked = row[booking[b].offering].price]
  <2>1. booking[b].at = "pending"
    BY <1>6 DEF ActivateBooking
  <2>2. row[booking[b].offering].price \in Prices
    BY <1>2, <2>1 DEF OfferingRow
  <2>3. k \in BookingRow /\ k.at = "active" /\ k.offering = booking[b].offering
    BY <1>1, <2>2 DEF BookingRow
  <2>4. booking' = [booking EXCEPT ![b] = k]
    BY <1>6 DEF ActivateBooking, StoreInv
  <2> HIDE DEF k
  <2>5. BookingGood(k)
    BY <1>2, <2>1, <2>3 DEF BookingGood
  <2> QED
    BY <1>2, <1>6, <2>1, <2>3, <2>4, <2>5, BookingGoesOn DEF ActivateBooking
<1>7. CASE CloseBooking(b)
  <2> DEFINE k == [booking[b] EXCEPT !.at = "closed"]
  <2>1. k \in BookingRow /\ k.at = "closed" /\ k.offering = booking[b].offering
    BY <1>1 DEF BookingRow
  <2>2. booking' = [booking EXCEPT ![b] = k] /\ booking[b].at \in {"pending", "active"}
    BY <1>7 DEF CloseBooking, StoreInv
  <2> HIDE DEF k
  <2>3. BookingGood(k)
    BY <1>2, <2>1, <2>2 DEF BookingGood
  <2> QED
    BY <1>2, <1>7, <2>1, <2>2, <2>3, BookingGoesOn DEF CloseBooking
<1> QED
  BY <1>4, <1>5, <1>6, <1>7

-----------------------------------------------------------------------------
(* The visitor's pages.                                                     *)

LEMMA VisitorInv ==
    ASSUME StoreInv,
           \/ \E g \in Tags \cup {AnyTag} : Browse(g)
           \/ \E id \in Offerings \cup Seeds : FollowCard(id)
           \/ ApiChanges
    PROVE  StoreInv'
<1>1. /\ UNCHANGED <<row, booking, form, lost>> /\ clicks' \in 0..MaxClicks
      /\ api' \in {"up", "failing", "unreachable"}
  BY Counted DEF Browse, FollowCard, ApiChanges, StoreInv
<1>2. BookedOfferExists'
  BY <1>1 DEF StoreInv, BookedOfferExists, Referenced, Exists
<1>3. ASSUME NEW g, Browse(g) PROVE StoreInv'
  <2> DEFINE items == IF api = "up" THEN Matching(g) ELSE SeedsMatching(g)
  <2>1. items \subseteq Offerings \cup Seeds
    BY DEF Matching, SeedsMatching, Active
  <2>2. visitor' = [at |-> "browse", id |-> None, outage |-> FALSE, items |-> items]
    BY <1>3 DEF Browse
  <2> HIDE DEF items
  <2>3. visitor' \in VisitorRow /\ visitor'.at = "browse"
    BY <2>1, <2>2 DEF VisitorRow
  <2> QED
    BY <1>1, <1>2, <2>3 DEF StoreInv, CardsLead
<1>4. ASSUME NEW id \in Offerings \cup Seeds, FollowCard(id) PROVE StoreInv'
  <2>1. /\ visitor' = [visitor EXCEPT !.at = DetailOf(id), !.id = id, !.outage = api # "up"]
        /\ visitor \in VisitorRow
    BY <1>4 DEF FollowCard, StoreInv
  <2>2. DetailOf(id) \in {"error", "offering", "not found"} /\ (api # "up") \in BOOLEAN
    BY DEF DetailOf
  <2>3. /\ visitor' \in VisitorRow /\ visitor'.id = id /\ visitor'.at = DetailOf(id)
        /\ visitor'.outage = (api # "up")
    BY <2>1, <2>2 DEF VisitorRow
  <2>4. DetailOf(id) = "not found" => id \notin Seeds /\ (api # "up" \/ ~Exists(id))
    BY DEF DetailOf
  <2>5. CardsLead'
    BY <1>1, <2>3, <2>4 DEF CardsLead, Exists
  <2> QED
    BY <1>1, <1>2, <2>3, <2>5 DEF StoreInv
<1>5. CASE ApiChanges
  <2>1. UNCHANGED visitor
    BY <1>5 DEF ApiChanges
  <2> QED
    BY <1>1, <1>2, <2>1 DEF StoreInv, CardsLead, Exists
<1> QED
  BY <1>3, <1>4, <1>5

LEMMA StoreStep == ASSUME StoreInv, [StoreNext]_storeVars PROVE StoreInv'
<1>1. CASE UNCHANGED storeVars
  BY <1>1 DEF storeVars, StoreInv, BookedOfferExists, Referenced, Exists, CardsLead
<1> QED
  BY <1>1, OpenInv, SaveFormInv, CreateInv, ReadForUpdateInv, CommitUpdateInv, DeleteInv, BookingInv,
     VisitorInv DEF StoreNext

(* The invariant of the offerings holds in every state they reach.          *)
THEOREM StoreInvariant == StoreSpec => []StoreInv
BY StoreInitInv, StoreStep, PTL DEF StoreSpec

(* The offerings, forms, bookings and pages keep their types.              *)
THEOREM StoreTypeCorrect == StoreSpec => []StoreTypeOK
<1>1. StoreInv => StoreTypeOK
  <2> SUFFICES ASSUME StoreInv PROVE StoreTypeOK
    OBVIOUS
  <2>1. ASSUME NEW o \in Offerings, row[o] # NoRow
        PROVE  row[o].owner \in Suppliers /\ ValuesOf(row[o]) \in Values
    BY <2>1, RowThere DEF StoreInv, OfferingRow
  <2> QED
    BY <2>1 DEF StoreInv, StoreTypeOK, FormRow, BookingRow, VisitorRow
<1> QED
  BY <1>1, StoreInvariant, PTL

(* bookings.offering_id keeps the row it refers to, and a card of the list  *)
(* leads to its offering as long as nobody deletes it.                      *)
THEOREM LinksAreAlive == StoreSpec => []NoDeadLinks
<1>1. StoreInv => NoDeadLinks
  BY DEF StoreInv, NoDeadLinks
<1> QED
  BY <1>1, StoreInvariant, PTL

(* PATCH /offerings writes the fields that differ from the row it read: a   *)
(* field the form did not touch is left to whoever changes it meanwhile,    *)
(* unless the row it read was another than the form was loaded with; and    *)
(* the tags, which the form respells, lose no word they had and have.       *)
THEOREM EditsTouchOnlyTheirs == StoreSpec => UntouchedFieldsStay
<1>1. ASSUME StoreInv, [StoreNext]_storeVars
      PROVE  [\A t \in Forms :
                LET o == form[t].id
                    base == form[t].base
                    untouched == Fields \ form[t].touched
                IN form[t].at = "committing" /\ form'[t].at # "committing" /\ Exists(o) =>
                     /\ \A f \in untouched :
                          form[t].read[f] = base[f] /\ (f = "tags" => base.tags \subseteq Words)
                              => row'[o][f] = row[o][f]
                     /\ "tags" \in untouched =>
                          Words \cap base.tags \cap row[o].tags \subseteq row'[o].tags]_storeVars
  <2> DEFINE base(t) == form[t].base
  <2>1. SUFFICES ASSUME NEW t \in Forms,
                        form[t].at = "committing", form'[t].at # "committing", Exists(form[t].id)
                 PROVE  LET o == form[t].id IN
                        /\ \A f \in Fields \ form[t].touched :
                             form[t].read[f] = base(t)[f] /\ (f = "tags" => base(t).tags \subseteq Words)
                                 => row'[o][f] = row[o][f]
                        /\ "tags" \in Fields \ form[t].touched =>
                             Words \cap base(t).tags \cap row[o].tags \subseteq row'[o].tags
    OBVIOUS
  <2>2. CommitUpdate(t)
    <3>1. ASSUME NEW u \in Forms, u # t,
                 \/ \E s \in Suppliers : OpenNew(u, s) \/ \E o \in Offerings : OpenEdit(u, s, o)
                 \/ Submit(u) \/ CreateOffering(u) \/ ReadForUpdate(u) \/ CommitUpdate(u)
                 \/ Archive(u) \/ ReadForDelete(u) \/ CommitDelete(u)
          PROVE  form'[t] = form[t]
      BY <1>1, <3>1 DEF OpenNew, OpenEdit, Submit, CreateOffering, ReadForUpdate, CommitUpdate,
                        Archive, ReadForDelete, CommitDelete, Saved, Refused, StoreInv
    <3>2. ASSUME \/ \E s \in Suppliers : OpenNew(t, s) \/ \E o \in Offerings : OpenEdit(t, s, o)
                 \/ Submit(t) \/ CreateOffering(t) \/ ReadForUpdate(t)
                 \/ Archive(t) \/ ReadForDelete(t) \/ CommitDelete(t)
          PROVE  FALSE
      BY <2>1, <3>2 DEF OpenNew, OpenEdit, Submit, CreateOffering, ReadForUpdate, Archive,
                        ReadForDelete, CommitDelete
    <3>3. ASSUME NEW b \in Bookings,
                 \/ \E o \in Offerings : ReadForBooking(b, o)
                 \/ InsertBooking(b) \/ ActivateBooking(b) \/ CloseBooking(b)
          PROVE  UNCHANGED form
      BY <3>3 DEF ReadForBooking, InsertBooking, ActivateBooking, CloseBooking
    <3>4. ASSUME \/ \E g \in Tags \cup {AnyTag} : Browse(g)
                 \/ \E id \in Offerings \cup Seeds : FollowCard(id)
                 \/ ApiChanges \/ UNCHANGED storeVars
          PROVE  UNCHANGED form
      BY <3>4 DEF Browse, FollowCard, ApiChanges, storeVars
    <3> QED
      BY <1>1, <2>1, <3>1, <3>2, <3>3, <3>4 DEF StoreNext
  <2>3. FormGood(form[t]) /\ base(t) \in Values
    BY <1>1, <2>1 DEF StoreInv, FormGood, FormRow
  <2>4. PICK o \in Offerings : o = form[t].id
    BY <2>1, <2>3 DEF FormGood, AtOffering
  <2>5. row[o] \in OfferingRow /\ Fields \subseteq DOMAIN row[o]
    BY <1>1, <2>1, <2>4 DEF StoreInv, Exists, OfferingRow, Fields
  <2>6. row' = [row EXCEPT ![o] = [f \in DOMAIN @ |->
                   IF f \in Fields /\ form[t].typed[f] # form[t].read[f]
                   THEN form[t].typed[f] ELSE @[f]]]
    BY <2>1, <2>2, <2>4 DEF CommitUpdate
  <2>7. \A f \in Fields : row'[o][f] = IF form[t].typed[f] # form[t].read[f]
                                      THEN form[t].typed[f] ELSE row[o][f]
    BY <1>1, <2>5, <2>6 DEF StoreInv
  <2>8. \A f \in Fields \ form[t].touched : form[t].typed[f] = InitialOf(base(t))[f]
    BY <2>1, <2>3 DEF FormGood
  <2>9. base(t)["tags"] \in SUBSET Tags
    BY <2>3 DEF Values
  <2>10. \A f \in Fields : (f = "tags" => base(t)["tags"] \subseteq Words) =>
                               InitialOf(base(t))[f] = base(t)[f]
    BY <2>3, <2>9, InitialIs, SpelledIs DEF Fields
  <2>11. Words \cap base(t)["tags"] \subseteq InitialOf(base(t))["tags"]
    BY <2>3, <2>9, InitialIs, SpelledIs
  <2> QED
    BY <2>4, <2>7, <2>8, <2>10, <2>11
<1> QED
  BY <1>1, StoreInvariant, PTL DEF StoreSpec, UntouchedFieldsStay

(*****************************************************************************)
(* The landing page.  There is one frame to cancel, and it is the one        *)
(* pending; the observer's last word is what is the case; and time does not  *)
(* leave a booking before it has been painted.                               *)
(*****************************************************************************)
AddsUp(p) == /\ p.supplierW + p.feeW + p.heldW + p.refundW = p.locked
             /\ p.phase = "settle" => p.supplier + p.fee + p.refund = p.locked

LoopGood == IF running THEN frame \in FrameIds /\ frames = {frame}
            ELSE frame = NoFrame /\ frames = {}

(* There is one frame to cancel, and it is the one pending; the observer's  *)
(* last word is what is the case; and time does not leave a booking before  *)
(* it has been painted.                                                     *)
MeterInv ==
    /\ inView \in BOOLEAN /\ hidden \in BOOLEAN /\ batched \in BOOLEAN /\ running \in BOOLEAN
    /\ records \in Seq(BOOLEAN) /\ Len(records) <= MaxRecords
    /\ records # <<>> => records[Len(records)] = inView
    /\ LoopGood
    /\ index \in Indices /\ header = index
    /\ age \in 0..NotYet
    /\ painted \in Paintings
    /\ index \in {painted.booking, After(painted.booking)}
    /\ age = HOLD => painted.booking = index
    /\ RunsWhenSeen

-----------------------------------------------------------------------------
LEMMA PhasesAre == /\ LOCK \in Nat /\ RUN \in Nat /\ HOLD \in Nat /\ MaxRecords \in Nat
                   /\ 0 < LOCK /\ LOCK < RUN /\ RUN < HOLD /\ 0 < MaxRecords
BY MeterAssumption

LEMMA IndicesAre == Indices = 1..3 /\ \A i \in Indices : After(i) \in Indices
<1>1. Len(BOOKINGS) = 3
  BY DEF BOOKINGS
<1> QED
  BY <1>1 DEF Indices, After

(* The sums of a booking.                                                   *)
LEMMA LedgerAddsUp ==
    ASSUME NEW i \in Indices
    PROVE  LET s == Ledger(BOOKINGS[i]) IN
           /\ s.locked \in Int /\ s.supplier \in Int /\ s.fee \in Int /\ s.refund \in Int
           /\ s.supplier + s.fee + s.refund = s.locked
<1>1. i \in 1..3
  BY IndicesAre
<1> DEFINE b == BOOKINGS[i]
<1>2. b.rate \in Nat /\ b.reserved \in Nat /\ b.used \in Nat
  <2>1. CASE i = 1
    BY <2>1 DEF BOOKINGS
  <2>2. CASE i = 2
    BY <2>2 DEF BOOKINGS
  <2>3. CASE i = 3
    BY <2>3 DEF BOOKINGS
  <2> QED
    BY <1>1, <2>1, <2>2, <2>3
<1> DEFINE locked == (b.rate * b.reserved) \div 60
           cost == (b.rate * b.used) \div 60
           fee == (cost * 15) \div 100
<1>3. locked \in Int /\ cost \in Int
  BY <1>2
<1>4. fee \in Int
  BY <1>3
<1>5. Ledger(b) = [locked |-> locked, supplier |-> cost - fee, fee |-> fee, refund |-> locked - cost]
  BY DEF Ledger
<1> HIDE DEF locked, cost, fee, b
<1>6. LET s == Ledger(b) IN
           /\ s.locked \in Int /\ s.supplier \in Int /\ s.fee \in Int /\ s.refund \in Int
           /\ s.supplier + s.fee + s.refund = s.locked
  BY <1>3, <1>4, <1>5
<1> QED
  BY <1>6 DEF b

(* Whatever is painted adds up, and is of the booking it was painted for.   *)
LEMMA PaintAddsUp ==
    ASSUME NEW i \in Indices, NEW p \in Nat, NEW span \in Nat
    PROVE  /\ AddsUp(Paint(i, "lock", p, span)) /\ Paint(i, "lock", p, span).booking = i
           /\ AddsUp(Paint(i, "run", p, span)) /\ Paint(i, "run", p, span).booking = i
           /\ AddsUp(Paint(i, "settle", 1, 1)) /\ Paint(i, "settle", 1, 1).booking = i
<1> DEFINE s == Ledger(BOOKINGS[i])
<1>1. /\ s.locked \in Int /\ s.supplier \in Int /\ s.fee \in Int /\ s.refund \in Int
      /\ s.supplier + s.fee + s.refund = s.locked
  BY LedgerAddsUp
<1>2. /\ Paint(i, "lock", p, span) =
           [booking |-> i, phase |-> "lock", span |-> span, locked |-> p * s.locked,
            supplier |-> 0, fee |-> 0, refund |-> 0,
            supplierW |-> 0, feeW |-> 0, heldW |-> p * s.locked, refundW |-> 0]
      /\ Paint(i, "run", p, span) =
           [booking |-> i, phase |-> "run", span |-> span, locked |-> span * s.locked,
            supplier |-> p * s.supplier, fee |-> p * s.fee, refund |-> 0,
            supplierW |-> p * s.supplier, feeW |-> p * s.fee,
            heldW |-> span * s.locked - p * (s.supplier + s.fee), refundW |-> 0]
      /\ Paint(i, "settle", 1, 1) =
           [booking |-> i, phase |-> "settle", span |-> 1, locked |-> 1 * s.locked,
            supplier |-> s.supplier, fee |-> s.fee, refund |-> s.refund,
            supplierW |-> s.supplier, feeW |-> s.fee, heldW |-> 0,
            refundW |-> s.locked - s.supplier - s.fee]
  BY DEF Paint
<1> HIDE DEF s
<1>3. AddsUp(Paint(i, "lock", p, span)) /\ Paint(i, "lock", p, span).booking = i
  BY <1>1, <1>2 DEF AddsUp
<1>4. AddsUp(Paint(i, "run", p, span)) /\ Paint(i, "run", p, span).booking = i
  <2>1. p * (s.supplier + s.fee) = p * s.supplier + p * s.fee
    BY <1>1
  <2>2. p * s.supplier \in Int /\ p * s.fee \in Int /\ span * s.locked \in Int
    BY <1>1
  <2> QED
    BY <1>2, <2>1, <2>2 DEF AddsUp
<1>5. AddsUp(Paint(i, "settle", 1, 1)) /\ Paint(i, "settle", 1, 1).booking = i
  BY <1>1, <1>2 DEF AddsUp
<1> QED
  BY <1>3, <1>4, <1>5

LEMMA PaintingsAre ==
    ASSUME NEW i \in Indices
    PROVE  /\ \A p \in 0..(LOCK - 1) : Paint(i, "lock", p, LOCK) \in Paintings
           /\ \A p \in 0..(RUN - LOCK - 1) : Paint(i, "run", p, RUN - LOCK) \in Paintings
           /\ Paint(i, "settle", 1, 1) \in Paintings
<1> DEFINE Of(j) == {Paint(j, "lock", p, LOCK) : p \in 0..(LOCK - 1)}
                         \cup {Paint(j, "run", p, RUN - LOCK) : p \in 0..(RUN - LOCK - 1)}
                         \cup {Paint(j, "settle", 1, 1)}
<1>1. Of(i) \subseteq Paintings
  BY Zenon DEF Paintings
<1>2. /\ \A p \in 0..(LOCK - 1) : Paint(i, "lock", p, LOCK) \in Of(i)
      /\ \A p \in 0..(RUN - LOCK - 1) : Paint(i, "run", p, RUN - LOCK) \in Of(i)
      /\ Paint(i, "settle", 1, 1) \in Of(i)
  OBVIOUS
<1> QED
  BY <1>1, <1>2

LEMMA PaintingsAddUp == ASSUME NEW p \in Paintings PROVE AddsUp(p)
<1>1. CASE p = Unpainted
  BY <1>1 DEF Unpainted, AddsUp
<1>2. ASSUME NEW i \in Indices, NEW q \in 0..(LOCK - 1), p = Paint(i, "lock", q, LOCK)
      PROVE  AddsUp(p)
  <2>1. q \in Nat
    BY PhasesAre
  <2> QED
    BY <1>2, <2>1, PhasesAre, PaintAddsUp
<1>3. ASSUME NEW i \in Indices, NEW q \in 0..(RUN - LOCK - 1), p = Paint(i, "run", q, RUN - LOCK)
      PROVE  AddsUp(p)
  <2>1. q \in Nat /\ RUN - LOCK \in Nat
    BY PhasesAre
  <2> QED
    BY <1>3, <2>1, PaintAddsUp
<1>4. ASSUME NEW i \in Indices, p = Paint(i, "settle", 1, 1) PROVE AddsUp(p)
  BY <1>4, PaintAddsUp
<1> QED
  BY <1>1, <1>2, <1>3, <1>4 DEF Paintings

LEMMA MeterInitInv == MeterInit => MeterInv
<1> SUFFICES ASSUME MeterInit PROVE MeterInv
  OBVIOUS
<1>1. records \in Seq(BOOLEAN) /\ Len(records) = 1 /\ records[1] = inView /\ records # <<>>
  BY DEF MeterInit
<1>2. index \in Indices /\ header = index /\ painted = Unpainted /\ painted.booking = index
  BY IndicesAre DEF MeterInit, Unpainted
<1>3. painted \in Paintings
  BY <1>2 DEF Paintings
<1>4. age \in 0..NotYet /\ age # HOLD
  BY PhasesAre DEF MeterInit, NotYet
<1>5. LoopGood /\ RunsWhenSeen
  BY <1>1 DEF MeterInit, LoopGood, RunsWhenSeen
<1>6. inView \in BOOLEAN /\ hidden \in BOOLEAN /\ batched \in BOOLEAN /\ running \in BOOLEAN
  BY DEF MeterInit
<1>7. Len(records) <= MaxRecords /\ records[Len(records)] = inView
  BY <1>1, PhasesAre
<1> QED
  BY <1>1, <1>2, <1>3, <1>4, <1>5, <1>6, <1>7 DEF MeterInv

-----------------------------------------------------------------------------
LEMMA RequestOne == ASSUME Request({}) PROVE frame' \in FrameIds /\ frames' = {frame'}
<1>1. \E f \in FrameIds : f \notin {}
  BY DEF FrameIds
<1> QED
  BY <1>1 DEF Request

(* Starting and stopping: what becomes of the loop.                         *)
LEMMA LoopAfter ==
    ASSUME MeterInv
    PROVE  /\ Start => /\ running' = TRUE /\ frame' \in FrameIds /\ frames' = {frame'}
                       /\ age' \in {age, NotYet}
           /\ Stop => running' = FALSE /\ frame' = NoFrame /\ frames' = {} /\ age' = age
<1>1. ASSUME Start PROVE /\ running' = TRUE /\ frame' \in FrameIds /\ frames' = {frame'}
                         /\ age' \in {age, NotYet}
  <2>1. CASE running
    BY <1>1, <2>1 DEF Start, MeterInv, LoopGood
  <2>2. CASE ~running
    <3>1. Request({}) /\ running' = TRUE /\ age' = NotYet
      BY <1>1, <2>2 DEF Start, MeterInv, LoopGood
    <3> QED
      BY <3>1, RequestOne
  <2> QED
    BY <2>1, <2>2
<1>2. ASSUME Stop PROVE running' = FALSE /\ frame' = NoFrame /\ frames' = {} /\ age' = age
  BY <1>2 DEF Stop, MeterInv, LoopGood
<1> QED
  BY <1>1, <1>2

(* What starts or stops the loop keeps what it shows.                       *)
LEMMA LoopKeeps ==
    ASSUME MeterInv, Start \/ Stop, UNCHANGED <<index, header, painted>>,
           inView' \in BOOLEAN, hidden' \in BOOLEAN, batched' \in BOOLEAN,
           records' \in Seq(BOOLEAN), Len(records') <= MaxRecords,
           records' # <<>> => records'[Len(records')] = inView',
           RunsWhenSeen'
    PROVE  MeterInv'
<1>1. running' \in BOOLEAN /\ age' \in {age, NotYet} /\ LoopGood'
  BY LoopAfter DEF LoopGood
<1>2. age' \in 0..NotYet /\ (age' = HOLD => age = HOLD)
  BY <1>1, PhasesAre DEF MeterInv, NotYet
<1>3. /\ index' \in Indices /\ header' = index' /\ painted' \in Paintings
      /\ index' \in {painted'.booking, After(painted'.booking)}
      /\ age' = HOLD => painted'.booking = index'
  BY <1>2 DEF MeterInv
<1> QED
  BY <1>1, <1>2, <1>3 DEF MeterInv

LEMMA ObserveInv == ASSUME MeterInv, Observe PROVE MeterInv'
<1>1. /\ records \in Seq(BOOLEAN) /\ records # <<>> /\ Len(records) \in Nat /\ Len(records) > 0
      /\ records[Len(records)] = inView
  BY DEF MeterInv, Observe
<1>2. /\ records' = <<>> /\ batched' = (batched \/ Len(records) > 1)
      /\ UNCHANGED <<inView, hidden, index, header, painted>>
  BY DEF Observe
<1>3. batched' \in BOOLEAN /\ (~batched' => Len(records) = 1)
  <2>1. batched' \in BOOLEAN /\ (~batched' => ~(Len(records) > 1))
    BY <1>2, Zenon
  <2>3. \A n \in Nat : n > 0 /\ ~(n > 1) => n = 1
    OBVIOUS
  <2>2. ~(Len(records) > 1) => Len(records) = 1
    BY <1>1, <2>3, Zenon
  <2> QED
    BY <2>1, <2>2, Zenon
<1>4. CASE records[1]
  <2>1. Start
    BY <1>4 DEF Observe
  <2>2. RunsWhenSeen'
    BY <2>1, LoopAfter DEF RunsWhenSeen
  <2> QED
    BY <1>2, <1>3, <2>1, <2>2, LoopKeeps, PhasesAre DEF MeterInv
<1>5. CASE ~records[1]
  <2>1. Stop
    BY <1>5 DEF Observe
  <2>2. RunsWhenSeen'
    BY <1>1, <1>2, <1>3, <1>5 DEF RunsWhenSeen
  <2> QED
    BY <1>2, <1>3, <2>1, <2>2, LoopKeeps, PhasesAre DEF MeterInv
<1> QED
  BY <1>4, <1>5

LEMMA VisibilityInv == ASSUME MeterInv, ChangeVisibility PROVE MeterInv'
<1>1. /\ hidden' = ~hidden /\ hidden \in BOOLEAN
      /\ UNCHANGED <<inView, records, batched, index, header, painted>>
      /\ IF hidden THEN Start ELSE Stop
  BY DEF ChangeVisibility, OnVisibility, MeterInv
<1>2. RunsWhenSeen'
  BY <1>1, LoopAfter DEF RunsWhenSeen
<1> QED
  BY <1>1, <1>2, LoopKeeps DEF MeterInv

LEMMA CrossInv == ASSUME MeterInv, Cross PROVE MeterInv'
<1>1. /\ inView' = ~inView /\ records' = Append(records, ~inView) /\ Len(records) < MaxRecords
      /\ UNCHANGED <<hidden, batched, running, frames, frame, index, age, header, painted>>
  BY DEF Cross
<1>2. records \in Seq(BOOLEAN) /\ inView \in BOOLEAN
  BY DEF MeterInv
<1>3. /\ records' \in Seq(BOOLEAN) /\ Len(records') = Len(records) + 1
      /\ records'[Len(records')] = inView' /\ records' # <<>>
  BY <1>1, <1>2
<1>4. Len(records') <= MaxRecords
  BY <1>1, <1>2, <1>3, PhasesAre
<1> QED
  BY <1>1, <1>2, <1>3, <1>4 DEF MeterInv, LoopGood, RunsWhenSeen

LEMMA StepOfTimeInv == ASSUME MeterInv, StepOfTime PROVE MeterInv'
<1>1. /\ age' = age + 1 /\ age < HOLD /\ (age = HOLD - 1 => painted.booking = index)
      /\ UNCHANGED <<inView, hidden, records, batched, running, frames, frame, index, header,
                     painted>>
  BY DEF StepOfTime
<1>2. age' \in 0..NotYet /\ (age' = HOLD => age = HOLD - 1)
  BY <1>1, PhasesAre DEF MeterInv, NotYet
<1> QED
  BY <1>1, <1>2 DEF MeterInv, LoopGood, RunsWhenSeen

(* What a frame paints is a painting of the booking whose turn it is.       *)
LEMMA TickPaints ==
    ASSUME MeterInv, NEW t \in Nat, t < HOLD,
           painted' = CASE t < LOCK -> Paint(index, "lock", t, LOCK)
                        [] t >= LOCK /\ t < RUN -> Paint(index, "run", t - LOCK, RUN - LOCK)
                        [] t >= RUN -> Paint(index, "settle", 1, 1)
    PROVE  painted' \in Paintings /\ painted'.booking = index
<1>1. /\ index \in Indices
      /\ \A p \in 0..(LOCK - 1) : Paint(index, "lock", p, LOCK) \in Paintings
      /\ \A p \in 0..(RUN - LOCK - 1) : Paint(index, "run", p, RUN - LOCK) \in Paintings
      /\ Paint(index, "settle", 1, 1) \in Paintings
  BY PaintingsAre DEF MeterInv
<1>2. CASE t < LOCK
  <2>1. painted' = Paint(index, "lock", t, LOCK) /\ t \in 0..(LOCK - 1)
    BY <1>2, PhasesAre
  <2> QED
    BY <1>1, <1>2, <2>1, PhasesAre, PaintAddsUp
<1>3. CASE t >= LOCK /\ t < RUN
  <2>1. /\ painted' = Paint(index, "run", t - LOCK, RUN - LOCK)
        /\ t - LOCK \in 0..(RUN - LOCK - 1) /\ t - LOCK \in Nat /\ RUN - LOCK \in Nat
    BY <1>3, PhasesAre
  <2>2. painted' \in Paintings
    BY <1>1, <2>1
  <2>3. Paint(index, "run", t - LOCK, RUN - LOCK).booking = index
    BY <1>1, <2>1, PaintAddsUp
  <2> QED
    BY <2>1, <2>2, <2>3
<1>4. CASE t >= RUN
  <2>1. painted' = Paint(index, "settle", 1, 1)
    BY <1>4, PhasesAre
  <2> QED
    BY <1>1, <2>1, PhasesAre, PaintAddsUp
<1> QED
  BY <1>2, <1>3, <1>4, PhasesAre

LEMMA TickInv == ASSUME MeterInv, Tick PROVE MeterInv'
<1>1. PICK f \in frames : Request(frames \ {f})
  BY DEF Tick
<1>2. running /\ frames = {frame} /\ UNCHANGED <<inView, hidden, records, batched, running>>
  BY <1>1 DEF Tick, MeterInv, LoopGood
<1>3. frame' \in FrameIds /\ frames' = {frame'}
  <2>1. frames \ {f} = {}
    BY <1>1, <1>2
  <2> QED
    BY <1>1, <2>1, RequestOne
<1> DEFINE t == Elapsed
<1>4. t \in 0..HOLD /\ (t = HOLD => age = HOLD)
  BY PhasesAre DEF Elapsed, MeterInv, NotYet
<1>5. \/ /\ t < HOLD
         /\ painted' = CASE t < LOCK -> Paint(index, "lock", t, LOCK)
                         [] t >= LOCK /\ t < RUN -> Paint(index, "run", t - LOCK, RUN - LOCK)
                         [] t >= RUN -> Paint(index, "settle", 1, 1)
         /\ age' = t
         /\ UNCHANGED <<index, header>>
      \/ t >= HOLD /\ NextBooking(t)
  BY DEF Tick
<1> HIDE DEF t
<1>6. CASE /\ t < HOLD
           /\ painted' = CASE t < LOCK -> Paint(index, "lock", t, LOCK)
                           [] t >= LOCK /\ t < RUN -> Paint(index, "run", t - LOCK, RUN - LOCK)
                           [] t >= RUN -> Paint(index, "settle", 1, 1)
           /\ age' = t
           /\ UNCHANGED <<index, header>>
  <2>1. t \in Nat
    BY <1>4
  <2>2. painted' \in Paintings /\ painted'.booking = index
    BY <1>6, <2>1, TickPaints
  <2>3. age' \in 0..NotYet
    BY <1>4, <1>6, PhasesAre DEF NotYet
  <2> QED
    BY <1>2, <1>3, <1>6, <2>2, <2>3 DEF MeterInv, LoopGood, RunsWhenSeen
<1>7. CASE t >= HOLD /\ NextBooking(t)
  <2>1. age = HOLD
    BY <1>4, <1>7, PhasesAre
  <2>2. painted.booking = index
    BY <2>1 DEF MeterInv
  <2>3. index' = After(index) /\ header' = After(index) /\ age' = 0 /\ painted' = painted
    BY <1>7 DEF NextBooking
  <2>4. index' \in Indices /\ age' \in 0..NotYet /\ age' # HOLD
    BY <2>3, IndicesAre, PhasesAre DEF MeterInv, NotYet
  <2> QED
    BY <1>2, <1>3, <2>2, <2>3, <2>4 DEF MeterInv, LoopGood, RunsWhenSeen
<1> QED
  BY <1>5, <1>6, <1>7

(* The invariant of the meter holds in every state it reaches.              *)
THEOREM MeterInvariant == MeterSpec => []MeterInv
<1>1. ASSUME MeterInv, [MeterNext]_meterVars PROVE MeterInv'
  <2>1. CASE UNCHANGED meterVars
    BY <1>1, <2>1 DEF meterVars, MeterInv, LoopGood, RunsWhenSeen
  <2> QED
    BY <1>1, <2>1, CrossInv, ObserveInv, VisibilityInv, TickInv, StepOfTimeInv DEF MeterNext
<1> QED
  BY <1>1, MeterInitInv, PTL DEF MeterSpec

(* The loop, its frames and what is painted keep their types.                *)
THEOREM MeterTypeCorrect == MeterSpec => []MeterTypeOK
<1>1. ASSUME MeterInv PROVE MeterTypeOK
  <2>1. records \in BoundedSeq(BOOLEAN, MaxRecords)
    <3>1. records \in [1..Len(records) -> BOOLEAN] /\ Len(records) \in 0..MaxRecords
      BY <1>1, PhasesAre DEF MeterInv
    <3> QED
      BY <3>1 DEF BoundedSeq, SeqOf
  <2>2. age \in 0..HOLD \cup {NotYet}
    BY <1>1, PhasesAre DEF MeterInv, NotYet
  <2>3. frames \subseteq FrameIds /\ frame \in FrameIds \cup {NoFrame}
    BY <1>1 DEF MeterInv, LoopGood
  <2> QED
    BY <1>1, <2>1, <2>2, <2>3 DEF MeterInv, MeterTypeOK
<1> QED
  BY <1>1, MeterInvariant, PTL

(* The meter runs once and whenever it is seen, its bar and its payout add up *)
(* to what was locked, and its header names the booking painted below it, but *)
(* for the one frame in which it names the next (landing/assets/meter.js).   *)
THEOREM MeterIsAlwaysSound == MeterSpec => []MeterIsSound
<1>1. ASSUME MeterInv PROVE MeterIsSound
  <2>1. OneLoop
    BY <1>1, FS_EmptySet, FS_Singleton DEF MeterInv, LoopGood, OneLoop
  <2>2. AmountsAddUp
    BY <1>1, PaintingsAddUp DEF MeterInv, AmountsAddUp, AddsUp
  <2>3. RunsWhenSeen /\ HeaderMatches
    BY <1>1 DEF MeterInv, HeaderMatches
  <2> QED
    BY <2>1, <2>2, <2>3 DEF MeterIsSound
<1> QED
  BY <1>1, MeterInvariant, PTL
=============================================================================
