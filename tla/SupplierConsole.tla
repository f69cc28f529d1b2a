--------------------------- MODULE SupplierConsole ---------------------------
(***************************************************************************)
(* The supplier's side of the console: becoming a supplier, naming a       *)
(* machine and being shown its provisioning token, registering the machine *)
(* with `claw-worker register`, and the two wallet forms.  All tabs belong *)
(* to one account; a machine is whoever typed a token that a tab has shown. *)
(***************************************************************************)
EXTENDS Naturals

CONSTANTS ConsoleTabs, Workers, Machines,
          MaxActs,      \* how often a person clicks or types a command
          MaxMisses     \* requests of the console that fail, or whose answer is lost

ASSUME ConsoleAssumption == MaxActs \in Nat /\ MaxMisses \in Nat

VARIABLES
    supplier,   \* whether the account has a row in suppliers
    worker,     \* rows of workers: the status (a pending row keeps its token) and the key
    wallet,     \* how often each of the two addresses has been set
    page,       \* per tab, what it shows or waits for
    machine,    \* per machine, how far its registration is
    shown,      \* history: the tokens some tab has shown
    acts, misses

consoleVars == <<supplier, worker, wallet, page, machine, shown, acts, misses>>

Nobody == "nobody"
Cards  == {"escrow", "payout"}
Resting   == {"home", "form", "refused", "name", "snippet", "workers", "become first",
           "wallet", "error"}
Waiting   == {"asking", "inserting", "redirected", "saving", "reading me", "reading supplier"}

NoWorker  == [status |-> "none", key |-> Nobody]
Home      == [at |-> "home", menu |-> "consumer", told |-> FALSE, issuing |-> 0,
              token |-> Nobody, rows |-> [w \in Workers |-> "none"], card |-> "escrow",
              shows |-> [c \in Cards |-> 0], saved |-> [c \in Cards |-> 0],
              payout |-> FALSE]
NewMachine == [at |-> "new", typed |-> Nobody, worker |-> Nobody, late |-> FALSE]

ConsoleTypeOK ==
    /\ supplier \in BOOLEAN
    /\ worker \in [Workers -> [status : {"none", "pending", "active"},
                               key : Machines \cup {Nobody}]]
    /\ wallet \in [Cards -> 0..MaxActs]
    /\ page \in [ConsoleTabs -> [at : Resting \cup Waiting, menu : {"consumer", "supplier"},
                          told : BOOLEAN, issuing : 0..2, token : Workers \cup {Nobody},
                          rows : [Workers -> {"none", "pending", "active"}],
                          card : Cards, shows : [Cards -> 0..MaxActs],
                          saved : [Cards -> 0..MaxActs], payout : BOOLEAN]]
    /\ \A t \in ConsoleTabs : page[t].at = "snippet" => page[t].token # Nobody
    /\ machine \in [Machines -> [at : {"new", "asked", "matched", "registered", "refused",
                                       "unanswered"},
                                 typed : Workers \cup {Nobody},
                                 worker : Workers \cup {Nobody}, late : BOOLEAN]]
    /\ shown \subseteq Workers
    /\ acts \in 0..MaxActs /\ misses \in 0..MaxMisses

ConsoleInit ==
    /\ supplier \in BOOLEAN
    /\ worker = [w \in Workers |-> NoWorker]
    /\ wallet = [c \in Cards |-> 0]
    /\ page = [t \in ConsoleTabs |-> Home]
    /\ machine = [m \in Machines |-> NewMachine]
    /\ shown = {} /\ acts = 0 /\ misses = 0

Act  == acts < MaxActs /\ acts' = acts + 1
Miss == misses < MaxMisses /\ misses' = misses + 1
Show(t, p) == page' = [page EXCEPT ![t] = p]

-----------------------------------------------------------------------------
(* The menu is the layout's, read when the tab loads the console and kept   *)
(* while it moves about in it.                                              *)
MenuOf(isSupplier) == IF isSupplier THEN "supplier" ELSE "consumer"
Behind(menu) == {"home", "wallet"} \cup IF menu = "supplier" THEN {"name", "workers"}
                                        ELSE {"form"}

OpenConsole(t) ==
    /\ page[t].at \in Resting /\ page[t].issuing = 0
    /\ Show(t, [Home EXCEPT !.menu = MenuOf(supplier), !.told = supplier])
    /\ Act
    /\ UNCHANGED <<supplier, worker, wallet, machine, shown, misses>>

(* The pages a tab moves to: forms start blank, the wallet page asks for the *)
(* account and then for the supplier.                                        *)
WorkersPage(p) ==
    [p EXCEPT !.at = IF supplier THEN "workers" ELSE "become first",
              !.rows = [w \in Workers |-> worker[w].status]]

(* A link of the menu, or an address typed: any page can be asked for.  A   *)
(* typed address loads the layout anew.                                     *)
GoTo(t, to) ==
    LET typed == to \notin Behind(page[t].menu)
        p == [Home EXCEPT !.menu = IF typed THEN MenuOf(supplier) ELSE page[t].menu,
                          !.told = page[t].told \/ (typed /\ supplier)]
    IN
    /\ page[t].at \in Resting /\ page[t].issuing = 0
    /\ Show(t, IF to = "workers" THEN WorkersPage(p)
               ELSE [p EXCEPT !.at = IF to = "wallet" THEN "reading me" ELSE to])
    /\ Act
    /\ UNCHANGED <<supplier, worker, wallet, machine, shown, misses>>

-----------------------------------------------------------------------------
(* Becoming a supplier. *)

SubmitSupplier(t) ==
    /\ page[t].at \in {"form", "refused"}
    /\ Show(t, [page[t] EXCEPT !.at = "asking"])
    /\ Act
    /\ UNCHANGED <<supplier, worker, wallet, machine, shown, misses>>

RedirectAnyway(ok) == "redirected"      \* mutant: the redirect also after an error

(* becomeSupplier redirects after a success and shows any error on the form. *)
AfterBecome(ok) == IF ok THEN "redirected" ELSE "refused"

ReadSupplier(t) ==
    /\ page[t].at = "asking"
    /\ \/ Show(t, [page[t] EXCEPT !.at = IF supplier THEN AfterBecome(FALSE) ELSE "inserting"])
          /\ UNCHANGED misses
       \/ Miss /\ Show(t, [page[t] EXCEPT !.at = AfterBecome(FALSE)])
    /\ UNCHANGED <<supplier, worker, wallet, machine, shown, acts>>

(* suppliers.user_id is unique: the second of two inserts is refused.  The  *)
(* answer to an insert that was committed may be lost.                      *)
InsertSupplier(t) ==
    /\ page[t].at = "inserting"
    /\ supplier' = TRUE
    /\ \/ Show(t, [page[t] EXCEPT !.at = AfterBecome(~supplier)]) /\ UNCHANGED misses
       \/ ~supplier /\ Miss /\ Show(t, [page[t] EXCEPT !.at = AfterBecome(FALSE)])
    /\ UNCHANGED <<worker, wallet, machine, shown, acts>>

(* /dashboard/suppliers sends on to the workers page. *)
SupplierIndex(t) ==
    /\ page[t].at = "redirected"
    /\ \/ Show(t, WorkersPage([page[t] EXCEPT !.told = TRUE])) /\ UNCHANGED misses
       \/ Miss /\ Show(t, [page[t] EXCEPT !.at = "error"])
    /\ UNCHANGED <<supplier, worker, wallet, machine, shown, acts>>

-----------------------------------------------------------------------------
(* Adding a worker. *)

(* Submitting runs inside a transition, which keeps setPending from being   *)
(* painted: the button takes a second click while the first is on its way.  *)
SubmitName(t) ==
    /\ page[t].at = "name" /\ page[t].issuing < 2
    /\ Show(t, [page[t] EXCEPT !.issuing = @ + 1])
    /\ Act
    /\ UNCHANGED <<supplier, worker, wallet, machine, shown, misses>>

ShowAnyway(p, w) ==                     \* mutant: no return after setError
    [p EXCEPT !.issuing = @ - 1, !.at = "snippet", !.token = w]

(* What an answer does to the page: a token is shown, and takes the place of *)
(* the one a first click brought; an error leaves the page where it is.      *)
AfterIssue(p, w) ==
    IF w = Nobody THEN [p EXCEPT !.issuing = @ - 1]
    ELSE [p EXCEPT !.issuing = @ - 1, !.at = "snippet", !.token = w]

IssueProvisioningToken(t) ==
    /\ page[t].issuing > 0
    /\ \/ /\ supplier
          /\ \E w \in Workers :
               /\ worker[w] = NoWorker
               /\ \/ /\ worker' = [worker EXCEPT ![w].status = "pending"]
                     /\ Show(t, AfterIssue(page[t], w)) /\ shown' = shown \cup {w}
                     /\ UNCHANGED misses
                  \/ /\ Miss
                     /\ worker' \in {worker, [worker EXCEPT ![w].status = "pending"]}
                     /\ Show(t, AfterIssue(page[t], Nobody)) /\ UNCHANGED shown
       \/ /\ ~supplier \/ \A w \in Workers : worker[w] # NoWorker
          /\ Show(t, AfterIssue(page[t], Nobody))
          /\ UNCHANGED <<worker, shown, misses>>
    /\ UNCHANGED <<supplier, wallet, machine, acts>>

-----------------------------------------------------------------------------
(* claw-worker register, on the machine. *)

Register(m, w) ==
    /\ machine[m].at \in {"new", "refused", "unanswered"}
    /\ w \in shown
    /\ machine' = [machine EXCEPT ![m] = [at |-> "asked", typed |-> w, worker |-> Nobody,
                                          late |-> worker[w].status = "active"]]
    /\ Act
    /\ UNCHANGED <<supplier, worker, wallet, page, shown, misses>>

AnyPending(w) == {c \in Workers : worker[c].status = "pending"}  \* mutant: no verify_token
SpentToo(w) == {c \in Workers : worker[c] # NoWorker /\ c = w}
                                          \* mutant: the token outlives its first use

(* The pending rows, one of which has the hash of the token. *)
PendingWith(w) == {c \in Workers : worker[c].status = "pending" /\ c = w}

MatchToken(m) ==
    /\ machine[m].at = "asked"
    /\ \/ \E c \in PendingWith(machine[m].typed) :
            /\ machine' = [machine EXCEPT ![m].at = "matched", ![m].worker = c]
            /\ UNCHANGED misses
       \/ /\ (PendingWith(machine[m].typed) = {} /\ UNCHANGED misses) \/ Miss
          /\ machine' = [machine EXCEPT ![m].at = "refused"]
    /\ UNCHANGED <<supplier, worker, wallet, page, shown, acts>>

(* The commit writes the row whatever it has become since it was read; a    *)
(* machine that gets no answer never learns its worker token.               *)
RegisterWorker(m) ==
    /\ machine[m].at = "matched"
    /\ worker' = [worker EXCEPT ![machine[m].worker] = [status |-> "active", key |-> m]]
    /\ \/ machine' = [machine EXCEPT ![m].at = "registered"] /\ UNCHANGED misses
       \/ Miss /\ machine' = [machine EXCEPT ![m].at = "unanswered"]
    /\ UNCHANGED <<supplier, wallet, page, shown, acts>>

-----------------------------------------------------------------------------
(* The wallet page. *)

ReadMe(t) ==
    /\ page[t].at = "reading me"
    /\ \/ /\ Show(t, [page[t] EXCEPT !.at = "reading supplier",
                                     !.shows["escrow"] = wallet["escrow"]])
          /\ UNCHANGED misses
       \/ Miss /\ Show(t, [page[t] EXCEPT !.at = "error"])
    /\ UNCHANGED <<supplier, worker, wallet, machine, shown, acts>>

(* A 404 hides the payout card. *)
ReadMySupplier(t) ==
    /\ page[t].at = "reading supplier"
    /\ \/ /\ Show(t, [page[t] EXCEPT !.at = "wallet", !.payout = supplier,
                                     !.shows["payout"] = wallet["payout"]])
          /\ UNCHANGED misses
       \/ Miss /\ Show(t, [page[t] EXCEPT !.at = "error"])
    /\ UNCHANGED <<supplier, worker, wallet, machine, shown, acts>>

SubmitWallet(t, c) ==
    /\ page[t].at = "wallet" /\ (c = "payout" => page[t].payout)
    /\ Show(t, [page[t] EXCEPT !.at = "saving", !.card = c])
    /\ Act
    /\ UNCHANGED <<supplier, worker, wallet, machine, shown, misses>>

NotRevalidated(p) == "wallet"           \* mutant: no revalidatePath

(* The page is rendered once more along with the answer of the action. *)
AfterSave(p) == "reading me"

(* Every save has a number of its own, standing for the address it sets.    *)
(* "wallet saved" is the form's answer to its last save and no other; one    *)
(* whose answer is lost is an error, and nothing is rendered.                *)
SaveWallet(t) ==
    LET c == page[t].card IN
    /\ page[t].at = "saving"
    /\ \/ /\ wallet' = [wallet EXCEPT ![c] = @ + 1]
          /\ Show(t, [page[t] EXCEPT !.at = AfterSave(page[t]), !.saved[c] = wallet[c] + 1])
          /\ UNCHANGED misses
       \/ /\ Miss
          /\ wallet' \in {wallet, [wallet EXCEPT ![c] = @ + 1]}
          /\ Show(t, [page[t] EXCEPT !.at = "wallet", !.saved[c] = 0])
    /\ UNCHANGED <<supplier, worker, machine, shown, acts>>

-----------------------------------------------------------------------------
ConsoleNext ==
    \/ \E t \in ConsoleTabs :
         \/ OpenConsole(t) \/ \E to \in {"home", "form", "name", "workers", "wallet"} : GoTo(t, to)
         \/ SubmitSupplier(t) \/ ReadSupplier(t) \/ InsertSupplier(t) \/ SupplierIndex(t)
         \/ SubmitName(t) \/ IssueProvisioningToken(t)
         \/ ReadMe(t) \/ ReadMySupplier(t) \/ SaveWallet(t)
         \/ \E c \in Cards : SubmitWallet(t, c)
    \/ \E m \in Machines :
         \/ \E w \in Workers : Register(m, w)
         \/ MatchToken(m) \/ RegisterWorker(m)

ConsoleSpec == ConsoleInit /\ [][ConsoleNext]_consoleVars

-----------------------------------------------------------------------------
(* A machine is registered as the worker its token was issued for, and only  *)
(* if the token was still good when it asked: a token lets in a second       *)
(* machine only if it asked before the first was registered.                 *)
RegistersOnce ==
    \A m \in Machines : machine[m].at \in {"registered", "unanswered"} =>
        machine[m].worker = machine[m].typed /\ ~machine[m].late

(* Nobody is told to become a supplier first who has been told he is one, by *)
(* the redirect of the form or by the menu.                                  *)
WelcomeOnlyStrangers == \A t \in ConsoleTabs : page[t].at = "become first" => ~page[t].told

(* Where the wallet page says "wallet saved", the address above it is that   *)
(* save's or a later one's, whatever other tabs and the other form save.     *)
SavedIsShown ==
    \A t \in ConsoleTabs, c \in Cards :
        page[t].at = "wallet" => page[t].shows[c] >= page[t].saved[c]

(* What the console says of its account is so.                               *)
ConsoleIsTrue == WelcomeOnlyStrangers /\ SavedIsShown
=============================================================================
