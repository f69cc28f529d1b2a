--------------------------- MODULE WebSessionProofs ---------------------------
(***************************************************************************)
(* Sessions come from links, for every number of links, addresses, tabs    *)
(* and browsers: SessionsComeFromLinks, and the types of the state.        *)
(*                                                                         *)
(* The invariant follows a tab from opening a link to the cookie: as long  *)
(* as it verifies, its link is one its browser has opened, and if the link *)
(* was spent when it was opened it is spent still, so that no row is found *)
(* for it.  That a spent link stays spent is where the login form comes    *)
(* in: what a form has under way is a link that does not exist yet, and no *)
(* other form has the same one under way.                                  *)
(*                                                                         *)
(* Staying signed in (SignedInStaysIn) needs to know where tokens come     *)
(* from: every token a browser or a page has is of an address that has an  *)
(* account, so that a 401 means an expired token (KeptInv).                *)
(***************************************************************************)
EXTENDS WebSession, TLAPS

LinkState == {"none", "lost", "live", "used", "old"}
TabRow == [at : Rest \cup Busy, form : {"blank", "pending", "sent", "refused"},
           link : Links \cup {NoToken}, carried : Links \cup {NoToken},
           late : BOOLEAN, known : BOOLEAN, got : [Queries -> {"wait", "ok", "no"}]]

(* What is so of one tab of a browser that has opened the links in `op`.   *)
TabGood(r, lk, op) ==
    /\ r \in TabRow
    /\ r.at \in Verifying => r.link \in Links /\ r.link \in op /\ lk[r.link] # "none"
    /\ r.at = "reading link" /\ r.late => lk[r.link] = "used"
    /\ r.at \in {"reading user", "committing", "signed in"} => ~r.late
    /\ r.form = "pending" => r.at \in Login /\ r.link \in Links /\ lk[r.link] = "none"

TabsGood == \A t \in Tabs : TabGood(tab[t], link, opened[BrowserOf[t]])
OwnLinks == \A t, u \in Tabs :
    t # u /\ tab[t].form = "pending" /\ tab[u].form = "pending" => tab[t].link # tab[u].link

SessionInv == SessionTypeOK /\ TabsGood /\ OwnLinks /\ SignedInByOwnLink

-----------------------------------------------------------------------------
LEMMA OpenIsGood == \A lk, op : TabGood(Open, lk, op)
BY DEF Open, TabGood, TabRow, Rest, Busy, Verifying, Queries

(* Before anybody has opened a link. *)
LEMMA SessionInitInv == SessionInit => SessionInv
<1> SUFFICES ASSUME SessionInit PROVE SessionInv
  OBVIOUS
<1>1. \A t \in Tabs : tab[t] = Open
  BY DEF SessionInit
<1>2. Open.at = "home" /\ Open.form = "blank" /\ Open \in TabRow
  BY DEF Open, TabRow, Rest, Busy, Queries
<1>3. tab \in [Tabs -> TabRow]
  BY <1>2 DEF SessionInit
<1>4. SessionTypeOK
  <2>1. \A t \in Tabs : tab[t].at \notin Verifying
    BY <1>1, <1>2 DEF Verifying
  <2> QED
    BY <1>3, <2>1, SessionAssumption DEF SessionInit, SessionTypeOK, TabRow
<1>5. TabsGood
  BY <1>1, OpenIsGood DEF TabsGood
<1>6. OwnLinks /\ SignedInByOwnLink
  BY <1>1, <1>2 DEF OwnLinks, SignedInByOwnLink, SessionInit
<1> QED
  BY <1>4, <1>5, <1>6 DEF SessionInv

(* A step of one tab: it is good afterwards, spent links stay spent, and   *)
(* what other forms have under way is left alone.                          *)
LEMMA TabStep ==
    ASSUME SessionInv, NEW t \in Tabs, NEW r,
           tab' = [tab EXCEPT ![t] = r], TabGood(r, link', opened'[BrowserOf[t]]),
           link' \in [Links -> LinkState], opened' \in [Browsers -> SUBSET Links],
           \A l \in Links : /\ link[l] = "used" => link'[l] = "used"
                            /\ link[l] # "none" => link'[l] # "none",
           \A u \in Tabs : u # t /\ tab[u].form = "pending" =>
               link'[tab[u].link] = link[tab[u].link],
           r.form = "pending" =>
               \A u \in Tabs : u # t /\ tab[u].form = "pending" => r.link # tab[u].link,
           \A b \in Browsers : opened[b] \subseteq opened'[b],
           \A b \in Browsers : cookie'[b] \in opened'[b] \cup {NoToken},
           cookie' \in [Browsers -> Links \cup {NoToken}],
           users' \subseteq Addresses, dead' = dead,
           visits' \in 0..MaxVisits, faults' \in 0..MaxFaults
    PROVE  SessionInv'
<1> USE DEF SessionInv
<1>1. /\ tab' \in [Tabs -> TabRow] /\ tab'[t] = r
      /\ \A u \in Tabs : u # t => tab'[u] = tab[u]
  BY DEF SessionTypeOK, TabGood, TabRow
<1>2. \A u \in Tabs : BrowserOf[u] \in Browsers
  BY SessionAssumption
<1>3. TabsGood'
  <2> SUFFICES ASSUME NEW u \in Tabs PROVE TabGood(tab'[u], link', opened'[BrowserOf[u]])
    BY DEF TabsGood
  <2>1. CASE u = t
    BY <1>1, <2>1
  <2>2. CASE u # t
    <3>1. TabGood(tab[u], link, opened[BrowserOf[u]]) /\ tab'[u] = tab[u]
      BY <1>1, <2>2 DEF TabsGood
    <3> DEFINE q == tab[u]
    <3>2. /\ q.at \in Verifying =>
               q.link \in Links /\ q.link \in opened[BrowserOf[u]] /\ link[q.link] # "none"
          /\ q.at = "reading link" /\ q.late =>
               q.at \in Verifying /\ link[q.link] = "used"
          /\ q.form = "pending" => q.at \in Login /\ q.link \in Links /\ link[q.link] = "none"
      BY <3>1 DEF TabGood, Verifying
    <3> HIDE DEF q
    <3>3. q.at \in Verifying =>
            q.link \in Links /\ q.link \in opened'[BrowserOf[u]] /\ link'[q.link] # "none"
      BY <1>2, <3>2
    <3>4. q.at = "reading link" /\ q.late => link'[q.link] = "used"
      BY <3>2
    <3>5. q.form = "pending" => link'[q.link] = "none"
      BY <2>2, <3>2 DEF q
    <3> QED
      BY <3>1, <3>2, <3>3, <3>4, <3>5 DEF TabGood, q
  <2> QED
    BY <2>1, <2>2
<1>4. SessionTypeOK'
  <2>1. \A u \in Tabs : tab'[u].at \in Verifying => tab'[u].link \in Links
    BY <1>3 DEF TabsGood, TabGood
  <2> QED
    BY <1>1, <2>1 DEF SessionTypeOK, TabRow, LinkState
<1>5. OwnLinks'
  BY <1>1 DEF OwnLinks
<1> QED
  BY <1>3, <1>4, <1>5 DEF SignedInByOwnLink

(* The common case: the tab, a counter, nothing else.                      *)
LEMMA TabOnly ==
    ASSUME SessionInv, NEW t \in Tabs, NEW r,
           tab' = [tab EXCEPT ![t] = r], TabGood(r, link, opened[BrowserOf[t]]),
           r.form # "pending",
           UNCHANGED <<link, users, dead, cookie, opened>>,
           visits' \in 0..MaxVisits, faults' \in 0..MaxFaults
    PROVE  SessionInv'
BY TabStep DEF SessionInv, SessionTypeOK, SignedInByOwnLink, LinkState

LEMMA CountersTyped ==
    ASSUME SessionInv
    PROVE  /\ visits \in 0..MaxVisits /\ faults \in 0..MaxFaults
           /\ Visits => visits' \in 0..MaxVisits
           /\ FaultHits => faults' \in 0..MaxFaults
BY SessionAssumption DEF SessionInv, SessionTypeOK, Visits, FaultHits

(* The pages a tab is sent to carry no link.                               *)
LEMMA PageGood ==
    ASSUME NEW at \in (Rest \cup Busy) \ Verifying, NEW lk, NEW op
    PROVE  TabGood(Page(at), lk, op) /\ Page(at).form = "blank"
<1>1. Open \in TabRow /\ Open.form = "blank" /\ Open.late = FALSE
  BY DEF Open, TabRow, Rest, Busy, Queries
<1>2. Page(at) \in TabRow /\ Page(at).at = at /\ Page(at).form = "blank"
  BY <1>1 DEF Page, TabRow
<1> QED
  BY <1>2 DEF TabGood, Verifying

LEMMA EnterGood ==
    ASSUME NEW k \in Links \cup {NoToken}, NEW lk, NEW op
    PROVE  TabGood(Enter(k), lk, op) /\ Enter(k).form = "blank"
<1>1. CASE k = NoToken
  BY <1>1, PageGood DEF Enter, Rest, Busy, Verifying
<1>2. CASE k # NoToken
  <2>1. "loading" \in (Rest \cup Busy) \ Verifying
    BY DEF Rest, Busy, Verifying
  <2> DEFINE p == Page("loading")
  <2>2. TabGood(p, lk, op) /\ p.form = "blank"
    BY <2>1, PageGood
  <2>3. p.at = "loading"
    BY DEF Page, Open
  <2>4. Enter(k) = [p EXCEPT !.carried = k]
    BY <1>2 DEF Enter
  <2> HIDE DEF p
  <2>5. /\ Enter(k) \in TabRow /\ Enter(k).at = "loading" /\ Enter(k).form = "blank"
    BY <2>2, <2>3, <2>4 DEF TabGood, TabRow
  <2> QED
    BY <2>5 DEF TabGood, Verifying
<1> QED
  BY <1>1, <1>2

LEMMA FailedGood ==
    ASSUME NEW l \in Links, NEW lk, NEW op
    PROVE  TabGood(Failed(l), lk, op) /\ Failed(l).form = "blank"
<1>1. Open \in TabRow /\ Open.form = "blank"
  BY DEF Open, TabRow, Rest, Busy, Queries
<1>2. Failed(l) \in TabRow /\ Failed(l).at = "error" /\ Failed(l).form = "blank"
  BY <1>1 DEF Failed, TabRow, Rest
<1> QED
  BY <1>2 DEF TabGood, Verifying

-----------------------------------------------------------------------------
(* The login form. *)

LEMMA FormInv ==
    ASSUME SessionInv, NEW t \in Tabs,
           IssueMagicLink(t) \/ \E l \in Links : SubmitEmail(t, l)
    PROVE  SessionInv'
<1> USE DEF SessionInv
<1>1. tab[t] \in TabRow /\ TabGood(tab[t], link, opened[BrowserOf[t]])
  BY DEF TabsGood, TabGood
<1>2. ASSUME NEW l \in Links, SubmitEmail(t, l) PROVE SessionInv'
  <2> DEFINE r == [tab[t] EXCEPT !.form = "pending", !.link = l]
  <2>1. tab' = [tab EXCEPT ![t] = r]
    BY <1>2 DEF SubmitEmail, SessionTypeOK
  <2>2. /\ r \in TabRow /\ r.at = tab[t].at /\ r.form = "pending" /\ r.link = l
    BY <1>1 DEF TabRow
  <2> HIDE DEF r
  <2>3. TabGood(r, link', opened'[BrowserOf[t]])
    BY <1>2, <2>2 DEF SubmitEmail, TabGood, Login, Verifying
  <2>4. UNCHANGED <<link, users, dead, cookie, opened, faults>> /\ visits' \in 0..MaxVisits
    BY <1>2, CountersTyped DEF SubmitEmail
  <2>5. \A u \in Tabs : tab[u].form = "pending" => tab[u].link # l
    BY <1>2 DEF SubmitEmail
  <2>6. /\ link' \in [Links -> LinkState] /\ opened' \in [Browsers -> SUBSET Links]
        /\ cookie' \in [Browsers -> Links \cup {NoToken}] /\ users' \subseteq Addresses
        /\ \A b \in Browsers : cookie'[b] \in opened'[b] \cup {NoToken}
        /\ faults' \in 0..MaxFaults
    BY <2>4 DEF SessionTypeOK, SignedInByOwnLink, LinkState
  <2>7. /\ \A k \in Links : /\ link[k] = "used" => link'[k] = "used"
                            /\ link[k] # "none" => link'[k] # "none"
        /\ \A b \in Browsers : opened[b] \subseteq opened'[b]
        /\ dead' = dead
    BY <2>4
  <2>8. \A u \in Tabs : tab[u].form = "pending" =>
          link'[tab[u].link] = link[tab[u].link] /\ r.link # tab[u].link
    BY <2>2, <2>4, <2>5
  <2>9. visits' \in 0..MaxVisits
    BY <2>4
  <2> QED
    BY <2>1, <2>3, <2>6, <2>7, <2>8, <2>9, TabStep
<1>3. ASSUME IssueMagicLink(t) PROVE SessionInv'
  <2> DEFINE l == tab[t].link
  <2>1. l \in Links /\ link[l] = "none" /\ tab[t].at \in Login
    BY <1>1, <1>3 DEF TabGood, IssueMagicLink
  <2>2. PICK f \in {"sent", "refused"} :
          tab' = [tab EXCEPT ![t].form = f, ![t].link = NoToken]
    BY <1>3 DEF IssueMagicLink
  <2>3. PICK s \in {"none", "lost", "live"} : link' = [link EXCEPT ![l] = s]
    BY <1>3 DEF IssueMagicLink
  <2> DEFINE r == [tab[t] EXCEPT !.form = f, !.link = NoToken]
  <2>4. tab' = [tab EXCEPT ![t] = r]
    BY <2>2 DEF SessionTypeOK
  <2>5. r \in TabRow /\ r.at = tab[t].at /\ r.form = f
    BY <1>1, <2>2 DEF TabRow
  <2> HIDE DEF r
  <2>6. TabGood(r, link', opened'[BrowserOf[t]])
    BY <2>1, <2>5 DEF TabGood, Login, Verifying
  <2>7. \A u \in Tabs : u # t /\ tab[u].form = "pending" => link'[tab[u].link] = link[tab[u].link]
    BY <1>3, <2>3 DEF OwnLinks, IssueMagicLink, SessionTypeOK
  <2>8. link' \in [Links -> LinkState]
    BY <2>1, <2>3 DEF SessionTypeOK, LinkState
  <2>9. \A k \in Links : /\ link[k] = "used" => link'[k] = "used"
                         /\ link[k] # "none" => link'[k] # "none"
    BY <2>1, <2>3 DEF SessionTypeOK
  <2>10. faults' \in 0..MaxFaults /\ UNCHANGED <<users, dead, cookie, opened, visits>>
    BY <1>3, CountersTyped DEF IssueMagicLink
  <2>11. /\ opened' \in [Browsers -> SUBSET Links] /\ users' \subseteq Addresses
         /\ cookie' \in [Browsers -> Links \cup {NoToken}]
         /\ \A b \in Browsers : cookie'[b] \in opened'[b] \cup {NoToken}
         /\ visits' \in 0..MaxVisits
    BY <2>10 DEF SessionTypeOK, SignedInByOwnLink
  <2>12. r.form # "pending"
    BY <2>2, <2>5
  <2> QED
    BY <2>4, <2>6, <2>7, <2>8, <2>9, <2>10, <2>11, <2>12, TabStep
<1> QED
  BY <1>2, <1>3

-----------------------------------------------------------------------------
(* From the link to the cookie. *)

LEMMA OpenLinkInv == ASSUME SessionInv, NEW t \in Tabs, NEW l \in Links, OpenLink(t, l)
                     PROVE  SessionInv'
<1> USE DEF SessionInv
<1> DEFINE r == [Page("reading link") EXCEPT !.link = l, !.carried = GetToken(t),
                                             !.late = link[l] = "used"]
<1>1. tab' = [tab EXCEPT ![t] = r]
  BY DEF OpenLink
<1>2. BrowserOf[t] \in Browsers /\ GetToken(t) \in Links \cup {NoToken}
  BY SessionAssumption DEF GetToken, SessionTypeOK
<1>3. Page("reading link") \in TabRow /\ Page("reading link").at = "reading link"
      /\ Page("reading link").form = "blank"
  BY DEF Page, Open, TabRow, Rest, Busy, Queries
<1>4. /\ r \in TabRow /\ r.at = "reading link" /\ r.link = l /\ r.form = "blank"
      /\ r.late => link[l] = "used"
  BY <1>2, <1>3 DEF TabRow
<1> HIDE DEF r
<1>5. opened' = [opened EXCEPT ![BrowserOf[t]] = @ \cup {l}]
  BY DEF OpenLink
<1>6. /\ opened' \in [Browsers -> SUBSET Links] /\ l \in opened'[BrowserOf[t]]
      /\ \A b \in Browsers : opened[b] \subseteq opened'[b]
  BY <1>2, <1>5 DEF SessionTypeOK
<1>7. UNCHANGED <<link, users, dead, cookie, faults>> /\ visits' \in 0..MaxVisits
  BY CountersTyped DEF OpenLink
<1>8. TabGood(r, link', opened'[BrowserOf[t]])
  BY <1>4, <1>6, <1>7 DEF TabGood, OpenLink
<1> QED
  BY <1>1, <1>4, <1>6, <1>7, <1>8, TabStep, CountersTyped
     DEF SessionTypeOK, SignedInByOwnLink, LinkState

(* The step the argument turns on: nothing is found for a spent link.      *)
LEMMA ReadLinkInv == ASSUME SessionInv, NEW t \in Tabs, ReadLink(t) PROVE SessionInv'
<1> USE DEF SessionInv
<1>1. /\ TabGood(tab[t], link, opened[BrowserOf[t]]) /\ tab[t] \in TabRow
      /\ tab[t].at = "reading link" /\ tab[t].form # "pending"
  BY DEF TabsGood, TabGood, ReadLink, Login
<1>2. ASSUME NEW c \in Candidates(tab[t].link),
             tab' = [tab EXCEPT ![t].at = "reading user", ![t].link = c, ![t].carried = NoToken]
      PROVE  SessionInv'
  <2>1. c = tab[t].link /\ c \in Links /\ link[c] = "live"
    BY DEF Candidates
  <2>2. ~tab[t].late /\ c \in opened[BrowserOf[t]]
    BY <1>1, <2>1 DEF TabGood, Verifying
  <2> DEFINE r == [tab[t] EXCEPT !.at = "reading user", !.link = c, !.carried = NoToken]
  <2>3. tab' = [tab EXCEPT ![t] = r]
    BY <1>2 DEF SessionTypeOK
  <2>4. /\ r \in TabRow /\ r.at = "reading user" /\ r.link = c /\ ~r.late
        /\ r.form # "pending"
    BY <1>1, <2>1, <2>2 DEF TabRow, Busy
  <2> HIDE DEF r
  <2>5. TabGood(r, link, opened[BrowserOf[t]])
    BY <2>1, <2>2, <2>4 DEF TabGood
  <2> QED
    BY <2>3, <2>4, <2>5, TabOnly, CountersTyped DEF ReadLink
<1>3. ASSUME tab' = [tab EXCEPT ![t].at = NoneMatched.at, ![t].link = NoneMatched.link]
      PROVE  SessionInv'
  <2> DEFINE r == [tab[t] EXCEPT !.at = "checking session", !.link = NoToken]
  <2>1. tab' = [tab EXCEPT ![t] = r]
    BY <1>3 DEF SessionTypeOK, NoneMatched
  <2>2. r \in TabRow /\ r.at = "checking session" /\ r.form # "pending"
    BY <1>1 DEF TabRow, Busy
  <2> HIDE DEF r
  <2>3. TabGood(r, link, opened[BrowserOf[t]])
    BY <2>2 DEF TabGood, Verifying
  <2> QED
    BY <2>1, <2>2, <2>3, TabOnly, CountersTyped DEF ReadLink
<1> QED
  BY <1>2, <1>3 DEF ReadLink

LEMMA ReadUserInv == ASSUME SessionInv, NEW t \in Tabs, ReadUser(t) PROVE SessionInv'
<1> USE DEF SessionInv
<1>1. /\ TabGood(tab[t], link, opened[BrowserOf[t]]) /\ tab[t] \in TabRow
      /\ tab[t].at = "reading user" /\ tab[t].form # "pending"
  BY DEF TabsGood, TabGood, ReadUser, Login
<1> DEFINE known == AddressOf[tab[t].link] \in users
           r == [tab[t] EXCEPT !.at = "committing", !.known = known]
<1>2. tab' = [tab EXCEPT ![t] = r]
  BY DEF ReadUser, SessionTypeOK
<1> known \in BOOLEAN
  OBVIOUS
<1> HIDE DEF known
<1>3. /\ r \in TabRow /\ r.at = "committing" /\ r.link = tab[t].link /\ r.late = tab[t].late
      /\ r.form # "pending"
  BY <1>1 DEF TabRow, Busy
<1> HIDE DEF r
<1>4. TabGood(r, link, opened[BrowserOf[t]])
  BY <1>1, <1>3 DEF TabGood, Verifying
<1> QED
  BY <1>2, <1>3, <1>4, TabOnly, CountersTyped DEF ReadUser

LEMMA CommitUseInv == ASSUME SessionInv, NEW t \in Tabs, CommitUse(t) PROVE SessionInv'
<1> USE DEF SessionInv
<1> DEFINE l == tab[t].link
<1>1. /\ TabGood(tab[t], link, opened[BrowserOf[t]]) /\ tab[t] \in TabRow
      /\ tab[t].at = "committing" /\ tab[t].form # "pending"
      /\ l \in Links /\ AddressOf[l] \in Addresses
  BY SessionAssumption DEF TabsGood, TabGood, CommitUse, Login, Verifying
<1>2. CASE /\ link' = [link EXCEPT ![l] = "used"] /\ users' = users \cup {AddressOf[l]}
           /\ tab' = [tab EXCEPT ![t].at = "signed in"]
  <2> DEFINE r == [tab[t] EXCEPT !.at = "signed in"]
  <2>1. tab' = [tab EXCEPT ![t] = r]
    BY <1>2 DEF SessionTypeOK
  <2>2. /\ r \in TabRow /\ r.at = "signed in" /\ r.link = l /\ r.late = tab[t].late
        /\ r.form # "pending"
    BY <1>1 DEF TabRow, Busy
  <2> HIDE DEF r
  <2>3. TabGood(r, link', opened'[BrowserOf[t]])
    BY <1>1, <1>2, <2>2 DEF TabGood, Verifying, CommitUse, SessionTypeOK
  <2>4. /\ link' \in [Links -> LinkState]
        /\ \A k \in Links : /\ link[k] = "used" => link'[k] = "used"
                            /\ link[k] # "none" => link'[k] # "none"
        /\ users' \subseteq Addresses
    BY <1>1, <1>2 DEF SessionTypeOK, LinkState
  <2>5. ASSUME NEW u \in Tabs, tab[u].form = "pending"
        PROVE  link'[tab[u].link] = link[tab[u].link]
    <3>1. tab[u].link \in Links /\ link[tab[u].link] = "none" /\ link[l] # "none"
      BY <1>1, <2>5 DEF TabsGood, TabGood, Verifying
    <3> QED
      BY <1>2, <3>1 DEF SessionTypeOK
  <2>6. UNCHANGED <<dead, cookie, opened, visits, faults>>
    BY DEF CommitUse
  <2>7. /\ opened' \in [Browsers -> SUBSET Links]
        /\ cookie' \in [Browsers -> Links \cup {NoToken}]
        /\ \A b \in Browsers : cookie'[b] \in opened'[b] \cup {NoToken}
        /\ visits' \in 0..MaxVisits /\ faults' \in 0..MaxFaults
    BY <2>6 DEF SessionTypeOK, SignedInByOwnLink
  <2> QED
    BY <2>1, <2>2, <2>3, <2>4, <2>5, <2>6, <2>7, TabStep
<1>3. CASE tab' = [tab EXCEPT ![t] = Failed(l)] /\ UNCHANGED <<link, users>>
  BY <1>1, <1>3, FailedGood, TabOnly, CountersTyped DEF CommitUse
<1> QED
  BY <1>1, <1>2, <1>3 DEF CommitUse

LEMMA SetTokenInv == ASSUME SessionInv, NEW t \in Tabs, SetToken(t) PROVE SessionInv'
<1> USE DEF SessionInv
<1> DEFINE l == tab[t].link   b == BrowserOf[t]   r == Enter(l)
<1>1. b \in Browsers /\ l \in Links /\ l \in opened[b]
  BY SessionAssumption DEF TabsGood, TabGood, SetToken, Verifying
<1>2. tab' = [tab EXCEPT ![t] = r] /\ cookie' = [cookie EXCEPT ![b] = l]
  BY DEF SetToken
<1>3. TabGood(r, link', opened'[b]) /\ r.form = "blank"
  BY <1>1, EnterGood
<1> HIDE DEF r
<1>4. UNCHANGED <<link, users, dead, opened, visits, faults>>
  BY DEF SetToken
<1>5. /\ cookie' \in [Browsers -> Links \cup {NoToken}]
      /\ \A c \in Browsers : cookie'[c] \in opened'[c] \cup {NoToken}
  BY <1>1, <1>2, <1>4 DEF SessionTypeOK, SignedInByOwnLink
<1>6. /\ link' \in [Links -> LinkState] /\ opened' \in [Browsers -> SUBSET Links]
      /\ users' \subseteq Addresses /\ visits' \in 0..MaxVisits /\ faults' \in 0..MaxFaults
  BY <1>4 DEF SessionTypeOK, LinkState
<1> QED
  BY <1>2, <1>3, <1>4, <1>5, <1>6, TabStep

-----------------------------------------------------------------------------
(* The steps that give no browser a session.                               *)

(* A cookie is dropped, by a tab that goes on to a page without a link.    *)
LEMMA DropInv ==
    ASSUME SessionInv, NEW t \in Tabs, Expired(t) \/ Logout(t) PROVE SessionInv'
<1> USE DEF SessionInv
<1>1. PICK r \in {Open, Page("session expired")} : tab' = [tab EXCEPT ![t] = r]
  BY DEF Expired, Logout
<1>2. TabGood(r, link', opened'[BrowserOf[t]]) /\ r.form = "blank"
  <2>1. "session expired" \in (Rest \cup Busy) \ Verifying
    BY DEF Rest, Busy, Verifying
  <2>2. Open.form = "blank"
    BY DEF Open
  <2> QED
    BY <1>1, <2>1, <2>2, PageGood, OpenIsGood
<1>3. /\ cookie' = [cookie EXCEPT ![BrowserOf[t]] = NoToken]
      /\ UNCHANGED <<link, users, dead, opened, visits, faults>>
  BY DEF Expired, Logout
<1>4. /\ cookie' \in [Browsers -> Links \cup {NoToken}]
      /\ \A c \in Browsers : cookie'[c] \in opened'[c] \cup {NoToken}
  BY <1>3, SessionAssumption DEF SessionTypeOK, SignedInByOwnLink
<1>5. /\ link' \in [Links -> LinkState] /\ opened' \in [Browsers -> SUBSET Links]
      /\ users' \subseteq Addresses /\ visits' \in 0..MaxVisits /\ faults' \in 0..MaxFaults
  BY <1>3 DEF SessionTypeOK, LinkState
<1> QED
  BY <1>1, <1>2, <1>3, <1>4, <1>5, TabStep

LEMMA CheckSessionInv ==
    ASSUME SessionInv, NEW t \in Tabs, CheckSession(t) \/ VerifyFails(t) PROVE SessionInv'
<1> USE DEF SessionInv
<1>1. "invalid link" \in (Rest \cup Busy) \ Verifying
  BY DEF Rest, Busy, Verifying
<1>2. GetToken(t) \in Links \cup {NoToken}
  BY SessionAssumption DEF GetToken, SessionTypeOK
<1>3. VerifyFails(t) => tab[t].link \in Links
  BY DEF VerifyFails, TabsGood, TabGood, Verifying
<1>4. PICK r : /\ tab' = [tab EXCEPT ![t] = r]
               /\ \/ r = Enter(GetToken(t)) \/ r = Page("invalid link")
                  \/ tab[t].link \in Links /\ r = Failed(tab[t].link)
  BY <1>3 DEF CheckSession, VerifyFails
<1>5. TabGood(r, link, opened[BrowserOf[t]]) /\ r.form = "blank"
  BY <1>1, <1>2, <1>4, EnterGood, PageGood, FailedGood
<1> QED
  BY <1>4, <1>5, TabOnly, CountersTyped DEF CheckSession, VerifyFails

LEMMA VisitInv ==
    ASSUME SessionInv, NEW t \in Tabs, GoToDashboard(t) \/ TryAgain(t) PROVE SessionInv'
<1> USE DEF SessionInv
<1>1. GetToken(t) \in Links \cup {NoToken}
  BY SessionAssumption DEF GetToken, SessionTypeOK
<1>2. PICK r : tab' = [tab EXCEPT ![t] = r] /\ (r = Enter(GetToken(t)) \/ r = Open)
  BY DEF GoToDashboard, TryAgain
<1>3. TabGood(r, link, opened[BrowserOf[t]]) /\ r.form = "blank"
  <2>1. Open.form = "blank"
    BY DEF Open
  <2> QED
    BY <1>1, <1>2, <2>1, EnterGood, OpenIsGood
<1> QED
  BY <1>2, <1>3, TabOnly, CountersTyped DEF GoToDashboard, TryAgain

LEMMA SignOutInv == ASSUME SessionInv, NEW t \in Tabs, SignOut(t) PROVE SessionInv'
<1> USE DEF SessionInv
<1>1. /\ TabGood(tab[t], link, opened[BrowserOf[t]]) /\ tab[t] \in TabRow
      /\ tab[t].form # "pending"
  BY DEF TabsGood, TabGood, SignOut, Login
<1> DEFINE r == [tab[t] EXCEPT !.at = "signing out"]
<1>2. tab' = [tab EXCEPT ![t] = r]
  BY DEF SignOut, SessionTypeOK
<1>3. r \in TabRow /\ r.at = "signing out" /\ r.form # "pending"
  BY <1>1 DEF TabRow, Busy
<1> HIDE DEF r
<1>4. TabGood(r, link, opened[BrowserOf[t]])
  BY <1>3 DEF TabGood, Verifying
<1> QED
  BY <1>2, <1>3, <1>4, TabOnly, CountersTyped DEF SignOut

(* What an answer can make of the tab. *)
LEMMA AnswerSteps ==
    ASSUME NEW t \in Tabs, NEW q \in Queries, Answer(t, q)
    PROVE  \/ tab' = [tab EXCEPT ![t] = Loaded(t, q, TRUE)]
           \/ tab' = [tab EXCEPT ![t] = Loaded(t, q, FALSE)]
           \/ tab' = [tab EXCEPT ![t] = Bounced(tab[t].carried)]
           \/ tab' = [tab EXCEPT ![t] = Page("error")]
<1>1. \/ tab' = [tab EXCEPT ![t] = Loaded(t, q, TRUE)]
      \/ tab' = [tab EXCEPT ![t] = AfterError(t, q, 401)]
      \/ tab' = [tab EXCEPT ![t] = AfterError(t, q, 500)]
  BY ZenonT(60) DEF Answer
<1> QED
  BY <1>1 DEF AfterError

(* The session is bounced for a 401, which a working token does not get.   *)
LEMMA BounceIsRefused ==
    ASSUME NEW t \in Tabs, NEW q \in Queries, Answer(t, q)
    PROVE  \/ tab' = [tab EXCEPT ![t] = Loaded(t, q, TRUE)]
           \/ tab' = [tab EXCEPT ![t] = Loaded(t, q, FALSE)]
           \/ tab' = [tab EXCEPT ![t] = Bounced(tab[t].carried)] /\ ~Accepted(tab[t].carried)
           \/ tab' = [tab EXCEPT ![t] = Page("error")]
<1>1. \/ tab' = [tab EXCEPT ![t] = Loaded(t, q, TRUE)]
      \/ tab' = [tab EXCEPT ![t] = AfterError(t, q, 401)] /\ ~Accepted(tab[t].carried)
      \/ tab' = [tab EXCEPT ![t] = AfterError(t, q, 500)]
  BY ZenonT(60) DEF Answer
<1>2. ~BounceOn(500)
  BY DEF BounceOn
<1> QED
  BY <1>1, <1>2 DEF AfterError

(* An answer to the dashboard's queries: a page, the bounce, or the wait   *)
(* for the others.                                                         *)
LEMMA AnswerInv == ASSUME SessionInv, NEW t \in Tabs, NEW q \in Queries, Answer(t, q)
                   PROVE  SessionInv'
<1> USE DEF SessionInv
<1>1. /\ TabGood(tab[t], link, opened[BrowserOf[t]]) /\ tab[t] \in TabRow
      /\ tab[t].at = "loading" /\ tab[t].form # "pending"
  <2>1. TabGood(tab[t], link, opened[BrowserOf[t]])
    BY DEF TabsGood
  <2>2. tab[t].at = "loading"
    BY DEF Answer
  <2>3. tab[t] \in TabRow /\ (tab[t].form = "pending" => tab[t].at \in Login)
    BY <2>1 DEF TabGood
  <2>4. "loading" \notin Login
    BY DEF Login
  <2> QED
    BY <2>1, <2>2, <2>3, <2>4
<1>2. /\ "dashboard" \in (Rest \cup Busy) \ Verifying /\ "error" \in (Rest \cup Busy) \ Verifying
      /\ "clearing" \in (Rest \cup Busy) \ Verifying
  BY DEF Rest, Busy, Verifying
<1>3. ASSUME NEW ok \in BOOLEAN
      PROVE  TabGood(Loaded(t, q, ok), link, opened[BrowserOf[t]])
             /\ Loaded(t, q, ok).form # "pending"
  <2> DEFINE got == [tab[t].got EXCEPT ![q] = IF ok THEN "ok" ELSE "no"]
             r   == [tab[t] EXCEPT !.got = got]
  <2>1. got \in [Queries -> {"wait", "ok", "no"}]
    BY <1>1 DEF TabRow
  <2>2. \/ Loaded(t, q, ok) = r \/ Loaded(t, q, ok) = Page("dashboard")
        \/ Loaded(t, q, ok) = Page("error")
    BY DEF Loaded
  <2> HIDE DEF got
  <2>3. r \in TabRow /\ r.at = "loading" /\ r.form = tab[t].form
    BY <1>1, <2>1 DEF TabRow
  <2> HIDE DEF r
  <2>4. TabGood(r, link, opened[BrowserOf[t]]) /\ r.form # "pending"
    BY <1>1, <2>3 DEF TabGood, Verifying
  <2> QED
    BY <1>2, <2>2, <2>4, PageGood
<1>4. ASSUME NEW k \in Links \cup {NoToken}
      PROVE  TabGood(Bounced(k), link, opened[BrowserOf[t]]) /\ Bounced(k).form # "pending"
  <2> DEFINE p == Page("clearing")   r == [p EXCEPT !.carried = k]
  <2>1. p \in TabRow /\ p.form = "blank" /\ p.at = "clearing"
    BY <1>2, PageGood DEF TabGood, Page, Open
  <2> HIDE DEF p
  <2>2. r \in TabRow /\ r.at = "clearing" /\ r.form = "blank"
    BY <2>1 DEF TabRow
  <2> HIDE DEF r
  <2>3. TabGood(r, link, opened[BrowserOf[t]]) /\ r.form # "pending"
    BY <2>2 DEF TabGood, Verifying
  <2> QED
    BY <2>3 DEF r, p, Bounced
<1>5. PICK r : /\ tab' = [tab EXCEPT ![t] = r]
               /\ \/ \E ok \in BOOLEAN : r = Loaded(t, q, ok)
                  \/ r = Bounced(tab[t].carried)
                  \/ r = Page("error")
  BY AnswerSteps
<1>6. tab[t].carried \in Links \cup {NoToken}
  BY <1>1 DEF TabRow
<1>7. TabGood(r, link, opened[BrowserOf[t]]) /\ r.form # "pending"
  BY <1>2, <1>3, <1>4, <1>5, <1>6, PageGood
<1>8. /\ UNCHANGED <<link, users, dead, cookie, opened, visits>>
      /\ faults' \in 0..MaxFaults
  <2>1. /\ UNCHANGED <<link, users, dead, cookie, opened, visits>>
        /\ UNCHANGED faults \/ FaultHits
    BY DEF Answer
  <2> QED
    BY <2>1, CountersTyped
<1> QED
  BY <1>5, <1>7, <1>8, TabOnly, CountersTyped

(* Time takes sessions and links away and gives none.                      *)
LEMMA TimeInv == ASSUME SessionInv, TimePasses PROVE SessionInv'
<1> USE DEF SessionInv
<1>1. ASSUME NEW l \in Links, LinkExpires(l) PROVE SessionInv'
  <2>1. /\ link[l] = "live" /\ link' = [link EXCEPT ![l] = "old"]
        /\ UNCHANGED <<users, dead, cookie, tab, opened, visits, faults>>
    BY <1>1 DEF LinkExpires
  <2>2. \A t \in Tabs : TabGood(tab[t], link', opened[BrowserOf[t]])
    BY <2>1 DEF TabsGood, TabGood, Verifying, SessionTypeOK
  <2> QED
    BY <2>1, <2>2, ZenonT(60) DEF SessionTypeOK, TabsGood, OwnLinks, SignedInByOwnLink
<1>2. ASSUME NEW l \in Links, TokenExpires(l) PROVE SessionInv'
  BY <1>2 DEF TokenExpires, SessionTypeOK, TabsGood, OwnLinks, SignedInByOwnLink
<1>3. ASSUME NEW b \in Browsers, CookieExpires(b) PROVE SessionInv'
  BY <1>3 DEF CookieExpires, SessionTypeOK, TabsGood, OwnLinks, SignedInByOwnLink
<1> QED
  BY <1>1, <1>2, <1>3 DEF TimePasses

LEMMA SessionStepInv == ASSUME SessionInv, [SessionNext]_sessionVars PROVE SessionInv'
<1>1. ASSUME NEW t \in Tabs, ServerStep(t) PROVE SessionInv'
  BY <1>1, FormInv, ReadLinkInv, ReadUserInv, CommitUseInv, SetTokenInv, DropInv,
     CheckSessionInv, AnswerInv DEF ServerStep
<1>2. ASSUME NEW t \in Tabs, Person(t) PROVE SessionInv'
  BY <1>2, FormInv, OpenLinkInv, VisitInv, SignOutInv DEF Person
<1>3. CASE TimePasses
  BY <1>3, TimeInv
<1>4. CASE UNCHANGED sessionVars
  BY <1>4 DEF sessionVars, SessionInv, SessionTypeOK, TabsGood, OwnLinks, SignedInByOwnLink
<1> QED
  BY <1>1, <1>2, <1>3, <1>4 DEF SessionNext

-----------------------------------------------------------------------------
(* The invariant, without the fairness of the server.                      *)
THEOREM SessionInvariant == SessionSpec => []SessionInv
<1> QED
  BY SessionInitInv, SessionStepInv, PTL DEF SessionSpec

(* Every variable of the session keeps its type. *)
THEOREM SessionTypeCorrect == SessionSpec => []SessionTypeOK
<1>1. SessionInv => SessionTypeOK
  BY DEF SessionInv
<1> QED
  BY <1>1, SessionInvariant, PTL

(* A browser is signed in only by a link opened in it, and never by one    *)
(* that was spent when the tab opened it (auth/magic_link.py, verify).     *)
THEOREM LinksMakeSessions == SessionSpec => []SessionsComeFromLinks
<1>1. SessionInv => SessionsComeFromLinks
  BY DEF SessionInv, TabsGood, TabGood, SessionsComeFromLinks, LinkIsSpent
<1> QED
  BY <1>1, SessionInvariant, PTL

-----------------------------------------------------------------------------
(* Staying signed in.  A token that a browser or a page has is of somebody  *)
(* who has an account, so that a 401 means it has expired, and nothing else. *)

TokenGood(r, us, dd) ==
    /\ r.at = "signed in" => AddressOf[r.link] \in us
    /\ r.at = "loading" => r.carried \in Links /\ AddressOf[r.carried] \in us
    /\ r.at = "clearing" => r.carried \in dd

KeptInv ==
    /\ \A b \in Browsers : cookie[b] # NoToken => AddressOf[cookie[b]] \in users
    /\ \A t \in Tabs : TokenGood(tab[t], users, dead)

(* A step of one tab: accounts stay, expired tokens stay expired.           *)
LEMMA KeptStep ==
    ASSUME SessionInv, KeptInv, NEW t \in Tabs,
           \A u \in Tabs : u # t => tab'[u] = tab[u],
           TokenGood(tab'[t], users', dead'), users \subseteq users', dead \subseteq dead',
           \A b \in Browsers : cookie'[b] = cookie[b] \/ cookie'[b] = NoToken
                               \/ AddressOf[cookie'[b]] \in users'
    PROVE  KeptInv'
<1>1. ASSUME NEW u \in Tabs PROVE TokenGood(tab'[u], users', dead')
  <2>1. CASE u = t
    BY <2>1
  <2>2. CASE u # t
    BY <2>2 DEF KeptInv, TokenGood
  <2> QED
    BY <2>1, <2>2
<1> QED
  BY <1>1 DEF KeptInv

(* Entering the dashboard with the cookie of the browser, or another token. *)
LEMMA EnterKept ==
    ASSUME NEW k \in Links \cup {NoToken}, NEW us, NEW dd, k # NoToken => AddressOf[k] \in us
    PROVE  TokenGood(Enter(k), us, dd)
BY DEF TokenGood, Enter, Page, Open

LEMMA RestKept ==
    ASSUME NEW r, r.at \notin {"signed in", "loading", "clearing"}, NEW us, NEW dd
    PROVE  TokenGood(r, us, dd)
BY DEF TokenGood

LEMMA PageAt == \A at : Page(at).at = at /\ \A l : Failed(l).at = "error"
BY DEF Page, Failed, Open

LEMMA KeptServer ==
    ASSUME SessionInv, KeptInv, NEW t \in Tabs,
           \/ IssueMagicLink(t) \/ ReadLink(t) \/ ReadUser(t) \/ VerifyFails(t)
           \/ Expired(t) \/ Logout(t)
    PROVE  KeptInv'
<1>1. tab \in [Tabs -> TabRow] /\ TabGood(tab[t], link, opened[BrowserOf[t]])
  BY DEF SessionInv, SessionTypeOK, TabRow, TabsGood
<1>2. /\ \A u \in Tabs : u # t => tab'[u] = tab[u]
      /\ users' = users /\ dead' = dead
  BY <1>1 DEF IssueMagicLink, ReadLink, ReadUser, VerifyFails, Expired, Logout
<1>3. tab'[t].at \notin {"signed in", "loading", "clearing"}
  <2>1. CASE IssueMagicLink(t)
    <3>1. tab[t].at \in Login
      BY <1>1, <2>1 DEF IssueMagicLink, TabGood
    <3>2. \E f : tab' = [tab EXCEPT ![t].form = f, ![t].link = NoToken]
      BY <2>1 DEF IssueMagicLink
    <3>3. tab'[t].at = tab[t].at
      BY <1>1, <3>2 DEF TabRow
    <3> QED
      BY <3>1, <3>3 DEF Login
  <2>2. CASE ReadLink(t)
    <3>1. \/ \E c : tab' = [tab EXCEPT ![t].at = "reading user", ![t].link = c, ![t].carried = NoToken]
          \/ tab' = [tab EXCEPT ![t].at = NoneMatched.at, ![t].link = NoneMatched.link]
      BY <2>2 DEF ReadLink
    <3>2. NoneMatched.at = "checking session"
      BY DEF NoneMatched
    <3>3. tab'[t].at = "reading user" \/ tab'[t].at = NoneMatched.at
      <4>1. tab \in [Tabs -> TabRow] /\ tab[t] \in TabRow
        BY <1>1
      <4>2. CASE \E c : tab' = [tab EXCEPT ![t].at = "reading user", ![t].link = c,
                                         ![t].carried = NoToken]
        <5>1. PICK c : tab' = [tab EXCEPT ![t].at = "reading user", ![t].link = c,
                                          ![t].carried = NoToken]
          BY <4>2
        <5>2. tab'[t] = [tab[t] EXCEPT !.at = "reading user", !.link = c, !.carried = NoToken]
          BY <4>1, <5>1
        <5> QED
          BY <4>1, <5>2 DEF TabRow
      <4>3. CASE tab' = [tab EXCEPT ![t].at = NoneMatched.at, ![t].link = NoneMatched.link]
        <5>1. tab'[t] = [tab[t] EXCEPT !.at = NoneMatched.at, !.link = NoneMatched.link]
          BY <4>1, <4>3
        <5> QED
          BY <4>1, <5>1 DEF TabRow
      <4> QED
        BY <3>1, <4>2, <4>3
    <3> QED
      BY <3>2, <3>3
  <2>3. CASE ReadUser(t)
    BY <1>1, <2>3, ZenonT(60) DEF ReadUser, TabRow
  <2>4. CASE VerifyFails(t) \/ Expired(t)
    <3>1. tab'[t] = Failed(tab[t].link) \/ tab'[t] = Page("session expired")
      BY <1>1, <2>4 DEF VerifyFails, Expired
    <3> QED
      BY <3>1, PageAt
  <2>5. CASE Logout(t)
    <3>1. tab'[t] = Open
      BY <1>1, <2>5 DEF Logout
    <3> QED
      BY <3>1 DEF Open
  <2> QED
    BY <2>1, <2>2, <2>3, <2>4, <2>5
<1>4. \A b \in Browsers : cookie'[b] = cookie[b] \/ cookie'[b] = NoToken
  BY DEF SessionInv, SessionTypeOK, IssueMagicLink, ReadLink, ReadUser, VerifyFails, Expired, Logout
<1> QED
  BY <1>2, <1>3, <1>4, RestKept, KeptStep

LEMMA KeptCommit == ASSUME SessionInv, KeptInv, NEW t \in Tabs, CommitUse(t) PROVE KeptInv'
<1>1. tab \in [Tabs -> TabRow]
  BY DEF SessionInv, SessionTypeOK, TabRow
<1>2. /\ \A u \in Tabs : u # t => tab'[u] = tab[u]
      /\ users \subseteq users' /\ dead' = dead /\ cookie' = cookie
  BY <1>1 DEF CommitUse
<1>3. TokenGood(tab'[t], users', dead')
  <2>1. \/ tab'[t].at = "signed in" /\ AddressOf[tab'[t].link] \in users'
        \/ tab'[t].at = "error"
    <3>1. CASE tab' = [tab EXCEPT ![t].at = "signed in"] /\ users' = users \cup {AddressOf[tab[t].link]}
      BY <1>1, <3>1 DEF TabRow
    <3>2. CASE tab' = [tab EXCEPT ![t] = Failed(tab[t].link)]
      <4>1. tab'[t] = Failed(tab[t].link)
        BY <1>1, <3>2
      <4> QED
        BY <4>1, PageAt
    <3> QED
      BY <3>1, <3>2 DEF CommitUse
  <2> QED
    BY <2>1 DEF TokenGood
<1> QED
  BY <1>2, <1>3, KeptStep

LEMMA KeptEnter ==
    ASSUME SessionInv, KeptInv, NEW t \in Tabs,
           SetToken(t) \/ CheckSession(t) \/ GoToDashboard(t) \/ TryAgain(t)
    PROVE  KeptInv'
<1>1. tab \in [Tabs -> TabRow] /\ TabGood(tab[t], link, opened[BrowserOf[t]])
      /\ cookie \in [Browsers -> Links \cup {NoToken}] /\ BrowserOf[t] \in Browsers
  BY SessionAssumption DEF SessionInv, SessionTypeOK, TabRow, TabsGood
<1>2. /\ \A u \in Tabs : u # t => tab'[u] = tab[u]
      /\ users' = users /\ dead' = dead
  BY <1>1 DEF SetToken, CheckSession, GoToDashboard, TryAgain
<1>3. GetToken(t) \in Links \cup {NoToken} /\ (GetToken(t) # NoToken => AddressOf[GetToken(t)] \in users)
  BY <1>1 DEF GetToken, KeptInv
<1>4. TokenGood(Enter(GetToken(t)), users, dead)
  BY <1>3, EnterKept
<1>5. CASE SetToken(t)
  <2>1. tab[t].link \in Links /\ AddressOf[tab[t].link] \in users
    BY <1>1, <1>5 DEF SetToken, TabGood, Verifying, KeptInv, TokenGood
  <2>2. tab'[t] = Enter(tab[t].link) /\ cookie' = [cookie EXCEPT ![BrowserOf[t]] = tab[t].link]
    BY <1>1, <1>5 DEF SetToken
  <2>3. TokenGood(tab'[t], users, dead)
    BY <2>1, <2>2, EnterKept
  <2>4. \A b \in Browsers : cookie'[b] = cookie[b] \/ AddressOf[cookie'[b]] \in users'
    BY <1>1, <1>2, <2>1, <2>2
  <2> QED
    BY <1>2, <2>3, <2>4, KeptStep
<1>6. CASE CheckSession(t) \/ GoToDashboard(t) \/ TryAgain(t)
  <2>1. cookie' = cookie
    BY <1>6 DEF CheckSession, GoToDashboard, TryAgain
  <2>2. tab'[t] \in {Enter(GetToken(t)), Page("invalid link"), Open}
    BY <1>1, <1>6 DEF CheckSession, GoToDashboard, TryAgain
  <2>3. Open.at = "home" /\ Page("invalid link").at = "invalid link"
    BY PageAt DEF Open
  <2>4. TokenGood(tab'[t], users', dead')
    BY <1>2, <1>4, <2>2, <2>3, RestKept
  <2> QED
    BY <1>2, <2>1, <2>4, KeptStep
<1> QED
  BY <1>5, <1>6

(* Of the answers to a page's queries only a 401 clears the session, and it *)
(* is the answer to an expired token.                                       *)
LEMMA KeptAnswer ==
    ASSUME SessionInv, KeptInv, NEW t \in Tabs, NEW q \in Queries, Answer(t, q)
    PROVE  KeptInv'
<1>1. tab \in [Tabs -> TabRow] /\ tab[t].at = "loading"
      /\ TokenGood(tab[t], users, dead)
  BY DEF SessionInv, SessionTypeOK, TabRow, Answer, KeptInv
<1>2. /\ \A u \in Tabs : u # t => tab'[u] = tab[u]
      /\ users' = users /\ dead' = dead /\ cookie' = cookie
  <2>1. users' = users /\ dead' = dead /\ cookie' = cookie
    BY DEF Answer
  <2>2. \E r : tab' = [tab EXCEPT ![t] = r]
    BY AnswerSteps
  <2> QED
    BY <1>1, <2>1, <2>2
<1>3. ASSUME NEW ok PROVE TokenGood(Loaded(t, q, ok), users, dead)
  <2>1. \A g : /\ [tab[t] EXCEPT !.got = g].at = "loading"
               /\ [tab[t] EXCEPT !.got = g].carried = tab[t].carried
    BY <1>1 DEF TabRow
  <2>2. \A g : TokenGood([tab[t] EXCEPT !.got = g], users, dead)
    BY <1>1, <2>1 DEF TokenGood
  <2>3. TokenGood(Page("dashboard"), users, dead) /\ TokenGood(Page("error"), users, dead)
    BY PageAt, RestKept
  <2> QED
    BY <2>2, <2>3 DEF Loaded
<1>4. tab[t].carried \in Links /\ AddressOf[tab[t].carried] \in users
  BY <1>1 DEF TokenGood
<1>5. TokenGood(tab'[t], users, dead)
  <2>1. \/ tab'[t] = Loaded(t, q, TRUE) \/ tab'[t] = Loaded(t, q, FALSE)
        \/ tab'[t] = Bounced(tab[t].carried) /\ ~Accepted(tab[t].carried)
        \/ tab'[t] = Page("error")
    BY <1>1, BounceIsRefused
  <2>2. /\ Bounced(tab[t].carried).at = "clearing"
        /\ Bounced(tab[t].carried).carried = tab[t].carried
    BY DEF Bounced, Page, Open
  <2>3. ~Accepted(tab[t].carried) => TokenGood(Bounced(tab[t].carried), users, dead)
    BY <1>4, <2>2 DEF Accepted, TokenGood
  <2>4. TokenGood(Page("error"), users, dead)
    BY PageAt, RestKept
  <2> QED
    BY <1>3, <2>1, <2>3, <2>4
<1> QED
  BY <1>2, <1>5, KeptStep

LEMMA KeptPerson ==
    ASSUME SessionInv, KeptInv, NEW t \in Tabs,
           (\E l \in Links : SubmitEmail(t, l) \/ OpenLink(t, l)) \/ SignOut(t)
    PROVE  KeptInv'
<1>1. tab \in [Tabs -> TabRow]
  BY DEF SessionInv, SessionTypeOK, TabRow
<1>2. /\ \A u \in Tabs : u # t => tab'[u] = tab[u]
      /\ users' = users /\ dead' = dead /\ cookie' = cookie
  BY <1>1 DEF SubmitEmail, OpenLink, SignOut
<1>3. tab'[t].at \notin {"signed in", "loading", "clearing"}
  <2>1. CASE \E l \in Links : SubmitEmail(t, l)
    <3>1. tab[t].at \in Login /\ \E l : tab' = [tab EXCEPT ![t].form = "pending", ![t].link = l]
      BY <2>1 DEF SubmitEmail
    <3>2. tab'[t].at = tab[t].at
      BY <1>1, <3>1 DEF TabRow
    <3> QED
      BY <3>1, <3>2 DEF Login
  <2>2. CASE \E l \in Links : OpenLink(t, l)
    <3>1. PICK l : tab'[t] = [Page("reading link") EXCEPT !.link = l, !.carried = GetToken(t),
                                                          !.late = link[l] = "used"]
      BY <1>1, <2>2 DEF OpenLink
    <3>2. tab'[t].at = Page("reading link").at
      BY <3>1 DEF Page, Open
    <3> QED
      BY <3>2, PageAt
  <2>3. CASE SignOut(t)
    BY <1>1, <2>3 DEF TabRow, SignOut
  <2> QED
    BY <2>1, <2>2, <2>3
<1> QED
  BY <1>2, <1>3, RestKept, KeptStep

LEMMA KeptNext == ASSUME SessionInv, KeptInv, [SessionNext]_sessionVars PROVE KeptInv'
<1>1. ASSUME NEW t \in Tabs, ServerStep(t) PROVE KeptInv'
  BY <1>1, KeptServer, KeptCommit, KeptEnter, KeptAnswer DEF ServerStep
<1>2. ASSUME NEW t \in Tabs, Person(t) PROVE KeptInv'
  BY <1>2, KeptEnter, KeptPerson DEF Person
<1>3. CASE TimePasses
  <2>1. tab' = tab /\ users' = users /\ dead \subseteq dead'
    BY <1>3 DEF TimePasses, LinkExpires, TokenExpires, CookieExpires
  <2>2. \A b \in Browsers : cookie'[b] = cookie[b] \/ cookie'[b] = NoToken
    BY <1>3 DEF TimePasses, LinkExpires, TokenExpires, CookieExpires, SessionInv, SessionTypeOK
  <2> QED
    BY <2>1, <2>2 DEF KeptInv, TokenGood
<1>4. CASE UNCHANGED sessionVars
  BY <1>4 DEF sessionVars, KeptInv
<1> QED
  BY <1>1, <1>2, <1>3, <1>4 DEF SessionNext

LEMMA KeptInit == SessionInit => KeptInv
<1> SUFFICES ASSUME SessionInit PROVE KeptInv
  OBVIOUS
<1>1. \A t \in Tabs : tab[t].at = "home"
  BY DEF SessionInit, Open
<1> QED
  BY <1>1 DEF SessionInit, KeptInv, TokenGood

(* A step that takes a working session away is a sign-out, or the bounce of *)
(* a token that had expired.                                                *)
LEMMA KeptByStep ==
    ASSUME SessionInv, KeptInv, SessionNext, NEW b \in Browsers,
           Accepted(cookie[b]), cookie'[b] = NoToken
    PROVE  \E t \in Tabs : /\ BrowserOf[t] = b
                           /\ \/ tab[t].at = "signing out"
                              \/ tab[t].at = "clearing" /\ tab[t].carried \in dead
<1>1. cookie[b] # NoToken /\ cookie[b] \notin dead
  BY SessionAssumption DEF Accepted
<1>2. cookie \in [Browsers -> Links \cup {NoToken}] /\ cookie'[b] # cookie[b]
  BY <1>1 DEF SessionInv, SessionTypeOK
<1>3. ASSUME NEW t \in Tabs, ServerStep(t) PROVE SetToken(t) \/ Expired(t) \/ Logout(t)
  BY <1>2, <1>3 DEF ServerStep, IssueMagicLink, ReadLink, ReadUser, CommitUse, CheckSession,
     VerifyFails, Answer
<1>4. ASSUME NEW t \in Tabs PROVE ~Person(t)
  BY <1>2, <1>4 DEF Person, SubmitEmail, OpenLink, GoToDashboard, SignOut, TryAgain
<1>5. ~TimePasses
  BY <1>1, <1>2 DEF TimePasses, LinkExpires, TokenExpires, CookieExpires
<1>6. PICK t \in Tabs : SetToken(t) \/ Expired(t) \/ Logout(t)
  BY <1>3, <1>4, <1>5 DEF SessionNext
<1>7. BrowserOf[t] = b
  BY <1>2, <1>6 DEF SetToken, Expired, Logout
<1>8. ~SetToken(t)
  <2>1. tab[t].at = "signed in" => tab[t].link \in Links
    BY DEF SessionInv, SessionTypeOK, Verifying
  <2> QED
    BY <1>2, <1>7, <2>1, SessionAssumption DEF SetToken
<1>9. tab[t].at = "clearing" => tab[t].carried \in dead
  BY DEF KeptInv, TokenGood
<1> QED
  BY <1>6, <1>7, <1>8, <1>9 DEF Expired, Logout

(* A fault is counted.                                                      *)
LEMMA FaultsCount == ASSUME SessionInv, FaultHits PROVE faults' # faults
BY SessionAssumption DEF SessionInv, SessionTypeOK, FaultHits

(* A step that shows the error of a bad link to a tab whose session was     *)
(* being checked did not find a working one, or could not check.            *)
LEMMA WelcomedByStep ==
    ASSUME SessionInv, SessionNext, NEW t \in Tabs,
           tab[t].at = "checking session", tab'[t].at = "invalid link"
    PROVE  ~Accepted(tab[t].carried) \/ faults' # faults
<1>1. tab \in [Tabs -> TabRow] /\ tab'[t] # tab[t]
  <2>1. tab \in [Tabs -> TabRow]
    BY DEF SessionInv, SessionTypeOK, TabRow
  <2>2. tab'[t] # tab[t]
    OBVIOUS
  <2> QED
    BY <2>1, <2>2
<1>2. tab[t].form # "pending"
  BY DEF SessionInv, TabsGood, TabGood, Login
<1>3. ASSUME NEW u \in Tabs, ServerStep(u) \/ Person(u) PROVE u = t
  BY <1>1, <1>3, ZenonT(60) DEF ServerStep, Person, IssueMagicLink, ReadLink, ReadUser, CommitUse, SetToken,
     CheckSession, VerifyFails, Answer, Expired, Logout, SubmitEmail, OpenLink, GoToDashboard,
     SignOut, TryAgain
<1>4. ~TimePasses
  BY <1>1 DEF TimePasses, LinkExpires, TokenExpires, CookieExpires
<1>5. ~Person(t)
  BY DEF Person, SubmitEmail, OpenLink, GoToDashboard, SignOut, TryAgain, Login, Rest
<1>6. ServerStep(t)
  BY <1>3, <1>4, <1>5 DEF SessionNext
<1>7. CheckSession(t)
  BY <1>2, <1>6 DEF ServerStep, IssueMagicLink, ReadLink, ReadUser, CommitUse, SetToken,
     VerifyFails, Answer, Expired, Logout
<1>8. ASSUME NEW k \in Links \cup {NoToken} PROVE Enter(k).at \in {"login", "loading"}
  BY DEF Enter, Page, Open
<1>9. GetToken(t) \in Links \cup {NoToken}
  BY SessionAssumption DEF GetToken, SessionInv, SessionTypeOK
<1>10. tab' # [tab EXCEPT ![t] = Enter(GetToken(t))]
  BY <1>1, <1>8, <1>9
<1>11. FaultHits => faults' # faults
  BY FaultsCount
<1> QED
  BY <1>7, <1>10, <1>11, Zenon DEF CheckSession

(* Nobody is signed out but by himself or by time, and nobody who is signed *)
(* in is turned away for a used link (auth/verify, auth/expired, lib/api). *)
THEOREM SessionsAreKept == SessionSpec => SignedInStaysIn
<1>1. SessionSpec => [](SessionInv /\ KeptInv)
  <2>1. SessionInit => SessionInv /\ KeptInv
    BY SessionInitInv, KeptInit
  <2>2. (SessionInv /\ KeptInv) /\ [SessionNext]_sessionVars => (SessionInv /\ KeptInv)'
    BY SessionStepInv, KeptNext
  <2> QED
    BY <2>1, <2>2, PTL DEF SessionSpec
<1>2. ASSUME SessionInv /\ KeptInv, [SessionNext]_sessionVars
      PROVE  [\A t \in Tabs :
                (tab[t].at = "checking session" /\ tab'[t].at = "invalid link")
                   => ~Accepted(tab[t].carried) \/ faults' # faults]_sessionVars
  BY <1>2, WelcomedByStep
<1>3. ASSUME SessionInv /\ KeptInv, [SessionNext]_sessionVars
      PROVE  [\A b \in Browsers :
                (Accepted(cookie[b]) /\ cookie'[b] = NoToken)
                   => \E t \in Tabs : /\ BrowserOf[t] = b
                                      /\ \/ tab[t].at = "signing out"
                                         \/ tab[t].at = "clearing" /\ tab[t].carried \in dead
             ]_sessionVars
  BY <1>3, KeptByStep
<1> QED
  BY <1>1, <1>2, <1>3, PTL DEF SessionSpec, SignedInStaysIn, SecondOpenWelcome, SessionKept
=============================================================================
