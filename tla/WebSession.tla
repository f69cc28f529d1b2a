----------------------------- MODULE WebSession -----------------------------
(***************************************************************************)
(* Signing in and staying signed in: the magic links of the backend        *)
(* (auth/magic_link.py), the cookie of each browser (lib/session.ts), the  *)
(* route handlers that set and clear it and the dashboard, which every     *)
(* request enters through the layout that checks it.                       *)
(*                                                                         *)
(* A tab's request carries the cookie its browser had when the request     *)
(* left, the answer sets or clears the cookie the browser has when the     *)
(* answer arrives, and in between the other tabs go on.  A session token   *)
(* is named by the link it was issued for.                                 *)
(***************************************************************************)
EXTENDS Naturals

CONSTANTS Links, Addresses, AddressOf, Tabs, Browsers, BrowserOf,
          MaxVisits,    \* how often a person navigates, over all tabs
          MaxFaults     \* answers of the backend that fail for no reason of the caller

NoToken == "no token"

ASSUME SessionAssumption ==
    /\ AddressOf \in [Links -> Addresses] /\ NoToken \notin Links
    /\ BrowserOf \in [Tabs -> Browsers]
    /\ MaxVisits \in Nat /\ MaxFaults \in Nat

VARIABLES
    link,      \* rows of magic_link_tokens: none, lost (the mail failed), live, used, old
    users,     \* addresses that have an account
    dead,      \* links whose session token has expired
    cookie,    \* per browser, a link or NoToken
    tab,       \* per tab, what it shows or waits for
    opened,    \* history: the links each browser has opened
    visits, faults

sessionVars == <<link, users, dead, cookie, tab, opened, visits, faults>>

Queries == {"role", "me", "home"}
Rest    == {"home", "login", "invalid link", "session expired", "dashboard", "error"}
Login   == {"login", "invalid link", "session expired"}
Busy    == {"reading link", "reading user", "committing", "signed in", "checking session",
            "loading", "clearing", "signing out"}
Verifying == {"reading link", "reading user", "committing", "signed in"}

Open == [at |-> "home", form |-> "blank", link |-> NoToken, carried |-> NoToken,
         late |-> FALSE, known |-> FALSE, got |-> [q \in Queries |-> "wait"]]

SessionTypeOK ==
    /\ link \in [Links -> {"none", "lost", "live", "used", "old"}]
    /\ users \subseteq Addresses
    /\ dead \subseteq Links
    /\ cookie \in [Browsers -> Links \cup {NoToken}]
    /\ tab \in [Tabs -> [at : Rest \cup Busy, form : {"blank", "pending", "sent", "refused"},
                         link : Links \cup {NoToken}, carried : Links \cup {NoToken},
                         late : BOOLEAN, known : BOOLEAN,
                         got : [Queries -> {"wait", "ok", "no"}]]]
    /\ \A t \in Tabs : tab[t].at \in Verifying => tab[t].link \in Links
    /\ opened \in [Browsers -> SUBSET Links]
    /\ visits \in 0..MaxVisits
    /\ faults \in 0..MaxFaults

SessionInit ==
    /\ link \in [Links -> {"none", "live"}]
    /\ users = {} /\ dead = {}
    /\ cookie = [b \in Browsers |-> NoToken]
    /\ tab = [t \in Tabs |-> Open]
    /\ opened = [b \in Browsers |-> {}]
    /\ visits = 0 /\ faults = 0

Page(at)  == [Open EXCEPT !.at = at]
Failed(l) == [Open EXCEPT !.at = "error", !.link = l]
Visits    == visits < MaxVisits /\ visits' = visits + 1
FaultHits == faults < MaxFaults /\ faults' = faults + 1

(* getToken: the cookie as the request brought it along. *)
GetToken(t) == cookie[BrowserOf[t]]

(* current_user: the token is there, has not expired and names an account. *)
Accepted(k) == k \in Links \ dead /\ AddressOf[k] \in users

-----------------------------------------------------------------------------
(* The login form: requestMagicLink and the backend behind it. *)

SubmitEmail(t, l) ==
    /\ tab[t].at \in Login /\ tab[t].form # "pending"
    /\ link[l] = "none" /\ \A u \in Tabs : tab[u].form = "pending" => tab[u].link # l
    /\ tab' = [tab EXCEPT ![t].form = "pending", ![t].link = l]
    /\ Visits
    /\ UNCHANGED <<link, users, dead, cookie, opened, faults>>

(* The row is committed before the mail is tried: an error on the form may *)
(* stand for a link that exists and was never delivered.                   *)
IssueMagicLink(t) ==
    /\ tab[t].form = "pending"
    /\ \/ /\ link' = [link EXCEPT ![tab[t].link] = "live"]
          /\ tab' = [tab EXCEPT ![t].form = "sent", ![t].link = NoToken]
          /\ UNCHANGED faults
       \/ /\ FaultHits
          /\ \E s \in {"none", "lost", "live"} : link' = [link EXCEPT ![tab[t].link] = s]
          /\ tab' = [tab EXCEPT ![t].form = "refused", ![t].link = NoToken]
    /\ UNCHANGED <<users, dead, cookie, opened, visits>>

LinkExpires(l) ==
    /\ link[l] = "live"
    /\ link' = [link EXCEPT ![l] = "old"]
    /\ UNCHANGED <<users, dead, cookie, tab, opened, visits, faults>>

-----------------------------------------------------------------------------
(* GET /auth/verify: the landing of a link. *)

OpenLink(t, l) ==
    /\ tab[t].at \in Rest /\ tab[t].form # "pending"
    /\ link[l] \in {"live", "used", "old"}
    /\ tab' = [tab EXCEPT ![t] = [Page("reading link") EXCEPT !.link = l,
                                              !.carried = GetToken(t), !.late = link[l] = "used"]]
    /\ opened' = [opened EXCEPT ![BrowserOf[t]] = @ \cup {l}]
    /\ Visits
    /\ UNCHANGED <<link, users, dead, cookie, faults>>

(* The rows that are neither used nor expired, one of which matches the hash. *)
AnyCandidate(l) == {c \in Links : link[c] = "live"}     \* mutant: no verify_token
UsedCandidates(l) == {c \in Links : link[c] \in {"live", "used"} /\ c = l}
                                                       \* mutant: no used_at filter

Candidates(l) == {c \in Links : link[c] = "live" /\ c = l}

NoneMatched == [at |-> "checking session", link |-> NoToken]

ReadLink(t) ==
    /\ tab[t].at = "reading link"
    /\ \/ \E c \in Candidates(tab[t].link) :
            tab' = [tab EXCEPT ![t].at = "reading user", ![t].link = c, ![t].carried = NoToken]
       \/ /\ Candidates(tab[t].link) = {}
          /\ tab' = [tab EXCEPT ![t].at = NoneMatched.at, ![t].link = NoneMatched.link]
    /\ UNCHANGED <<link, users, dead, cookie, opened, visits, faults>>

ReadUser(t) ==
    /\ tab[t].at = "reading user"
    /\ tab' = [tab EXCEPT ![t].at = "committing", ![t].known = AddressOf[tab[t].link] \in users]
    /\ UNCHANGED <<link, users, dead, cookie, opened, visits, faults>>

(* used_at is written whatever it has become since; the account is inserted *)
(* if none was read, and users.email is unique.                             *)
CommitUse(t) ==
    LET l == tab[t].link IN
    /\ tab[t].at = "committing"
    /\ \/ /\ tab[t].known \/ AddressOf[l] \notin users
          /\ link' = [link EXCEPT ![l] = "used"]
          /\ users' = users \cup {AddressOf[l]}
          /\ tab' = [tab EXCEPT ![t].at = "signed in"]
       \/ /\ ~tab[t].known /\ AddressOf[l] \in users
          /\ tab' = [tab EXCEPT ![t] = Failed(l)]
          /\ UNCHANGED <<link, users>>
    /\ UNCHANGED <<dead, cookie, opened, visits, faults>>

(* A request for the dashboard leaves with the cookie of the moment; without *)
(* one the layout redirects to the login page.                               *)
Enter(k) == IF k = NoToken THEN Page("login")
               ELSE [Page("loading") EXCEPT !.carried = k]

(* setToken always overwrites; the redirect follows with the new cookie. *)
SetToken(t) ==
    /\ tab[t].at = "signed in"
    /\ cookie' = [cookie EXCEPT ![BrowserOf[t]] = tab[t].link]
    /\ tab' = [tab EXCEPT ![t] = Enter(tab[t].link)]
    /\ UNCHANGED <<link, users, dead, opened, visits, faults>>

TurnAway(t) ==                          \* mutant: no second chance
    /\ tab[t].at = "checking session"
    /\ tab' = [tab EXCEPT ![t] = Page("invalid link")]
    /\ UNCHANGED <<link, users, dead, cookie, opened, visits, faults>>

(* A consumed link: if the session the request brought still works, the    *)
(* visit goes on to the dashboard with whatever cookie the browser then has. *)
CheckSession(t) ==
    LET k == tab[t].carried IN
    /\ tab[t].at = "checking session"
    /\ \/ Accepted(k) /\ tab' = [tab EXCEPT ![t] = Enter(GetToken(t))] /\ UNCHANGED faults
       \/ ~Accepted(k) /\ tab' = [tab EXCEPT ![t] = Page("invalid link")] /\ UNCHANGED faults
       \/ FaultHits /\ tab' = [tab EXCEPT ![t] = Page("invalid link")]
    /\ UNCHANGED <<link, users, dead, cookie, opened, visits>>

(* The API does not answer, or with neither 200 nor 401: the error page. *)
VerifyFails(t) ==
    /\ tab[t].at = "reading link"
    /\ FaultHits
    /\ tab' = [tab EXCEPT ![t] = Failed(tab[t].link)]
    /\ UNCHANGED <<link, users, dead, cookie, opened, visits>>

-----------------------------------------------------------------------------
(* The dashboard: the layout asks for role and identity, the page for the   *)
(* role once more, all at the same time and with the same token.            *)

GoToDashboard(t) ==
    /\ tab[t].at \in Rest /\ tab[t].form # "pending"
    /\ tab' = [tab EXCEPT ![t] = Enter(GetToken(t))]
    /\ Visits
    /\ UNCHANGED <<link, users, dead, cookie, opened, faults>>

(* Layout and page as they stand once the answer to q is in. *)
Loaded(t, q, ok) ==
    LET got == [tab[t].got EXCEPT ![q] = IF ok THEN "ok" ELSE "no"] IN
    IF got["role"] = "ok" /\ got["me"] = "ok" /\ got["home"] # "wait"
    THEN Page(IF got["home"] = "ok" THEN "dashboard" ELSE "error")
    ELSE [tab[t] EXCEPT !.got = got]

BounceOnAny(status) == TRUE             \* mutant: any error of the API

(* Only a 401 of the layout's own queries bounces the session. *)
BounceOn(status) == status = 401
Bounced(k) == [Page("clearing") EXCEPT !.carried = k]

AfterError(t, q, status) ==
    IF q = "home" THEN Loaded(t, q, FALSE)
    ELSE IF BounceOn(status) THEN Bounced(tab[t].carried) ELSE Page("error")

Answer(t, q) ==
    /\ tab[t].at = "loading" /\ tab[t].got[q] = "wait"
    /\ \/ /\ Accepted(tab[t].carried)
          /\ tab' = [tab EXCEPT ![t] = Loaded(t, q, TRUE)]
          /\ UNCHANGED faults
       \/ \E status \in {401, 500} :
            /\ \/ status = 401 /\ ~Accepted(tab[t].carried) /\ UNCHANGED faults
               \/ status = 500 /\ FaultHits
            /\ tab' = [tab EXCEPT ![t] = AfterError(t, q, status)]
    /\ UNCHANGED <<link, users, dead, cookie, opened, visits>>

ExpiredKeepsCookie(t) ==                \* mutant: back to the dashboard, as it was
    /\ tab[t].at = "clearing"
    /\ tab' = [tab EXCEPT ![t] = Enter(GetToken(t))]
    /\ UNCHANGED <<link, users, dead, cookie, opened, visits, faults>>

(* GET /auth/expired clears the cookie the browser has by now. *)
Expired(t) ==
    /\ tab[t].at = "clearing"
    /\ cookie' = [cookie EXCEPT ![BrowserOf[t]] = NoToken]
    /\ tab' = [tab EXCEPT ![t] = Page("session expired")]
    /\ UNCHANGED <<link, users, dead, opened, visits, faults>>

SignOut(t) ==
    /\ tab[t].at = "dashboard"
    /\ tab' = [tab EXCEPT ![t].at = "signing out"]
    /\ Visits
    /\ UNCHANGED <<link, users, dead, cookie, opened, faults>>

Logout(t) ==
    /\ tab[t].at = "signing out"
    /\ cookie' = [cookie EXCEPT ![BrowserOf[t]] = NoToken]
    /\ tab' = [tab EXCEPT ![t] = Open]
    /\ UNCHANGED <<link, users, dead, opened, visits, faults>>

(* Whether "Try again" reaches the server is up to Next.js: it may, or the  *)
(* visitor goes home.  A failed verification is a bare 500 and only left.   *)
TryAgain(t) ==
    /\ tab[t].at = "error"
    /\ \/ tab[t].link = NoToken /\ tab' = [tab EXCEPT ![t] = Enter(GetToken(t))]
       \/ tab' = [tab EXCEPT ![t] = Open]
    /\ Visits
    /\ UNCHANGED <<link, users, dead, cookie, opened, faults>>

(* The token's 24 hours end a little before the cookie's, which are counted *)
(* from when it is set.                                                     *)
TokenExpires(k) ==
    /\ link[k] = "used" /\ k \notin dead
    /\ dead' = dead \cup {k}
    /\ UNCHANGED <<link, users, cookie, tab, opened, visits, faults>>

CookieExpires(b) ==
    /\ cookie[b] \in dead
    /\ cookie' = [cookie EXCEPT ![b] = NoToken]
    /\ UNCHANGED <<link, users, dead, tab, opened, visits, faults>>

ServerStep(t) ==
    \/ IssueMagicLink(t) \/ ReadLink(t) \/ ReadUser(t) \/ CommitUse(t) \/ SetToken(t)
    \/ CheckSession(t) \/ VerifyFails(t) \/ Expired(t) \/ Logout(t)
    \/ \E q \in Queries : Answer(t, q)

Person(t) ==
    \/ \E l \in Links : SubmitEmail(t, l) \/ OpenLink(t, l)
    \/ GoToDashboard(t) \/ SignOut(t) \/ TryAgain(t)

TimePasses ==
    \/ \E l \in Links : LinkExpires(l) \/ TokenExpires(l)
    \/ \E b \in Browsers : CookieExpires(b)

SessionNext == (\E t \in Tabs : ServerStep(t) \/ Person(t)) \/ TimePasses

(* Next.js and the API answer every request in the end. *)
SessionFairness == \A t \in Tabs : WF_sessionVars(ServerStep(t))
SessionSpec == SessionInit /\ [][SessionNext]_sessionVars /\ SessionFairness

-----------------------------------------------------------------------------
(* A browser is only ever signed in by a link that was opened in it. *)
SignedInByOwnLink == \A b \in Browsers : cookie[b] \in opened[b] \cup {NoToken}

(* A link that was spent when a tab opened it gives that tab no session of  *)
(* its own: two openings of one link can both sign in only if they overlap. *)
LinkIsSpent == \A t \in Tabs : tab[t].at = "signed in" => ~tab[t].late

(* Whoever opens a used link while signed in is not turned away: the error  *)
(* of a bad link is shown only to a request that brought no working session *)
(* or could not have it checked.                                            *)
SecondOpenWelcome ==
    [][\A t \in Tabs :
         (tab[t].at = "checking session" /\ tab'[t].at = "invalid link")
            => ~Accepted(tab[t].carried) \/ faults' # faults]_sessionVars

(* A working session is lost to a sign-out, or to the bounce of a tab whose *)
(* own token had expired, and to nothing else: no failure of the backend    *)
(* signs anybody out.                                                       *)
SessionKept ==
    [][\A b \in Browsers :
         (Accepted(cookie[b]) /\ cookie'[b] = NoToken)
            => \E t \in Tabs : /\ BrowserOf[t] = b
                               /\ \/ tab[t].at = "signing out"
                                  \/ tab[t].at = "clearing" /\ tab[t].carried \in dead]_sessionVars

(* Every visit ends on a page: no chain of redirects among dashboard, verify, *)
(* expired and login goes on for ever.                                       *)
VisitsEnd == \A t \in Tabs : (tab[t].at \in Busy) ~> (tab[t].at \in Rest)

(* Sessions come from links, however tabs and openings overlap.             *)
SessionsComeFromLinks == SignedInByOwnLink /\ LinkIsSpent

(* Who is signed in stays so, whatever the backend and the other tabs do.   *)
SignedInStaysIn == SecondOpenWelcome /\ SessionKept
=============================================================================
