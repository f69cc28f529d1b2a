----------------------------- MODULE Storefront -----------------------------
(***************************************************************************)
(* Offerings: the rows of the backend (api/v1/offerings.py), the form a    *)
(* supplier edits them with, the pages a visitor browses, which fall back  *)
(* to seed data when the API does not answer, and the bookings that hold   *)
(* on to an offering.                                                      *)
(*                                                                         *)
(* A handler that reads a row, awaits and commits is two actions.  A form  *)
(* keeps what it was loaded with for as long as the tab is open.  The tags *)
(* of an offering are edited as one text, with commas between them.        *)
(***************************************************************************)
EXTENDS Naturals

CONSTANTS Offerings, Seeds, Prices, TagsOfSeed, Suppliers, Forms, Bookings,
          Tags,         \* any text, as the API takes it
          Words,        \* the tags a form can save: not empty, no comma, no outer blank
          WordsOf,      \* the words between the commas of a tag
          MaxClicks,    \* what persons do, and how often the API comes and goes
          MaxLost       \* answers that are lost after the API has committed

ASSUME StoreAssumption ==
    /\ Seeds \cap Offerings = {}
    /\ Prices \subseteq Nat \ {0} /\ Prices # {}
    /\ Words \subseteq Tags
    /\ WordsOf \in [Tags -> SUBSET Words] /\ \A w \in Words : WordsOf[w] = {w}
    /\ TagsOfSeed \in [Seeds -> SUBSET Tags]
    /\ MaxLost \in Nat /\ MaxClicks \in Nat

VARIABLES
    row,        \* the offerings table
    booking,    \* the bookings table, with the price each was made and locked at
    form,       \* per tab of a supplier: what it was loaded with, how far its save is
    visitor,    \* what the visitor's tab shows
    api,        \* whether the API is up, fails (5xx), or cannot be reached
    lost, clicks

storeVars == <<row, booking, form, visitor, api, lost, clicks>>

NoRow  == [owner |-> "none"]
None   == "none"
AnyTag == "any tag"
OfferingStatus == {"draft", "active", "archived"}
Fields == {"price", "tags", "status"}
Values == [price : Prices, tags : SUBSET Tags, status : OfferingStatus]

OfferedBy(s, v) == [owner |-> s, price |-> v.price, tags |-> v.tags, status |-> v.status]
ValuesOf(r) == [f \in Fields |-> r[f]]
Blank == [price |-> CHOOSE p \in Prices : TRUE, tags |-> {}, status |-> "active"]
Closed == [at |-> "list", by |-> None, id |-> None, base |-> Blank, typed |-> Blank,
           touched |-> {}, read |-> Blank]
NoBooking == [at |-> "none", offering |-> None, quoted |-> 0, locked |-> 0]

StoreTypeOK ==
    /\ \A o \in Offerings : row[o] = NoRow \/ /\ row[o].owner \in Suppliers
                                              /\ ValuesOf(row[o]) \in Values
    /\ booking \in [Bookings -> [at : {"none", "creating", "pending", "active", "closed"},
                                 offering : Offerings \cup {None},
                                 quoted : Prices \cup {0}, locked : Prices \cup {0}]]
    /\ form \in [Forms -> [at : {"list", "new", "edit", "creating", "saving", "committing",
                                 "archiving", "deleting", "not found"},
                           by : Suppliers \cup {None}, id : Offerings \cup {None},
                           base : Values, typed : Values, touched : SUBSET Fields,
                           read : Values]]
    /\ visitor \in [at : {"home", "browse", "offering", "not found", "error"},
                    items : SUBSET (Offerings \cup Seeds), id : Offerings \cup Seeds \cup {None},
                    outage : BOOLEAN]
    /\ api \in {"up", "failing", "unreachable"}
    /\ lost \in 0..MaxLost /\ clicks \in 0..MaxClicks

(* Offerings made through the API have whatever tags it was sent. *)
FirstValues == {v \in Values : v.price = Blank.price}
FirstRows == {OfferedBy(s, v) : s \in Suppliers, v \in FirstValues}

StoreInit ==
    /\ row \in [Offerings -> {NoRow} \cup FirstRows]
    /\ booking = [b \in Bookings |-> NoBooking]
    /\ form = [t \in Forms |-> Closed]
    /\ visitor = [at |-> "home", items |-> {}, id |-> None, outage |-> FALSE]
    /\ api \in {"up", "failing", "unreachable"} /\ lost = 0 /\ clicks = 0

Exists(o)    == row[o] # NoRow
Owns(t, o)   == row[o].owner = form[t].by
Active       == {o \in Offerings : Exists(o) /\ row[o].status = "active"}
Click        == clicks < MaxClicks /\ clicks' = clicks + 1
AnswerLost   == lost < MaxLost /\ lost' = lost + 1

-----------------------------------------------------------------------------
(* The supplier's pages. *)

(* The list links to the edit page of every active offering, whoever owns   *)
(* it; any other is opened by its address.  The page loads without asking   *)
(* who is there.                                                            *)
OpenEdit(t, s, o) ==
    /\ form[t].at \in {"list", "new", "edit", "not found"}
    /\ api = "up"
    /\ form' = [form EXCEPT ![t] =
          IF Exists(o) THEN [Closed EXCEPT !.at = "edit", !.by = s, !.id = o,
                                           !.base = ValuesOf(row[o])]
          ELSE [Closed EXCEPT !.at = "not found"]]
    /\ Click
    /\ UNCHANGED <<row, booking, visitor, api, lost>>

OpenNew(t, s) ==
    /\ form[t].at \in {"list", "edit", "not found"}
    /\ form' = [form EXCEPT ![t] = [Closed EXCEPT !.at = "new", !.by = s]]
    /\ Click
    /\ UNCHANGED <<row, booking, visitor, api, lost>>

(* The tags joined with a comma and a blank, and what the server action     *)
(* then makes of the text: it is split at the commas, trimmed, and what is  *)
(* empty is dropped.                                                        *)
Spelled(tags) == UNION {WordsOf[g] : g \in tags}

StartsEmpty(base) == [base EXCEPT !.tags = {}]    \* mutant: no initial text for the tags

(* What the fields of the form stand at before anybody types, as the action *)
(* reads them: the values of the offering as it was loaded.                 *)
InitialOf(base) == [base EXCEPT !.tags = Spelled(@)]

(* What the schema of the server action, and that of the API after it, let  *)
(* through; a form with anything else comes back refused.                   *)
Body == [price : Prices, tags : SUBSET Words, status : OfferingStatus]

(* The whole form is sent, touched fields and untouched ones (a field that  *)
(* is typed as it stood counts as untouched); while it is pending the       *)
(* button is disabled, and a refused form is reset.                         *)
Submit(t) ==
    /\ form[t].at \in {"new", "edit"}
    /\ \E touched \in SUBSET Fields, v \in Body :
         /\ \A f \in touched : v[f] # InitialOf(form[t].base)[f]
         /\ form' = [form EXCEPT
              ![t].at = IF @ = "new" THEN "creating" ELSE "saving",
              ![t].touched = touched,
              ![t].typed = [f \in Fields |->
                 IF f \in touched THEN v[f] ELSE InitialOf(form[t].base)[f]]]
    /\ Click
    /\ UNCHANGED <<row, booking, visitor, api, lost>>

Refused(t) ==
    form' = [form EXCEPT ![t] = [Closed EXCEPT
        !.at = IF form[t].at = "creating" THEN "new" ELSE "edit",
        !.by = form[t].by, !.id = form[t].id, !.base = form[t].base]]

(* A save that was committed ends on the list, or as an error if the answer *)
(* is lost.                                                                 *)
Saved(t) ==
    \/ form' = [form EXCEPT ![t] = Closed] /\ UNCHANGED lost
    \/ AnswerLost /\ Refused(t)

CreateOffering(t) ==
    /\ form[t].at = "creating"
    /\ \/ /\ api = "up"
          /\ \E o \in Offerings :
               /\ ~Exists(o) /\ \A u \in Forms : form[u].id # o
               /\ visitor.id # o /\ o \notin visitor.items
               /\ \A b \in Bookings : booking[b].offering # o
               /\ row' = [row EXCEPT ![o] = OfferedBy(form[t].by, form[t].typed)]
          /\ Saved(t)
       \/ api # "up" /\ Refused(t) /\ UNCHANGED <<row, lost>>
    /\ UNCHANGED <<booking, visitor, api, clicks>>

(* update_offering: only the owner's row is found. *)
ReadForUpdate(t) ==
    LET o == form[t].id IN
    /\ form[t].at = "saving"
    /\ \/ /\ api = "up" /\ Exists(o) /\ Owns(t, o)
          /\ form' = [form EXCEPT ![t].at = "committing", ![t].read = ValuesOf(row[o])]
       \/ /\ ~(api = "up" /\ Exists(o) /\ Owns(t, o))
          /\ Refused(t)
    /\ UNCHANGED <<row, booking, visitor, api, lost, clicks>>

CommitAllFields(t) ==               \* mutant: what did not change is written too
    LET o == form[t].id IN
    /\ form[t].at = "committing"
    /\ \/ /\ Exists(o)
          /\ row' = [row EXCEPT ![o] = OfferedBy(@.owner, form[t].typed)]
          /\ Saved(t)
       \/ ~Exists(o) /\ Refused(t) /\ UNCHANGED <<row, lost>>
    /\ UNCHANGED <<booking, visitor, api, clicks>>

(* The session writes the fields that differ from the row it has read; a    *)
(* row that has gone in the meantime is an error.                           *)
CommitUpdate(t) ==
    LET o == form[t].id IN
    /\ form[t].at = "committing"
    /\ \/ /\ Exists(o)
          /\ row' = [row EXCEPT ![o] = [f \in DOMAIN @ |->
                IF f \in Fields /\ form[t].typed[f] # form[t].read[f]
                THEN form[t].typed[f] ELSE @[f]]]
          /\ Saved(t)
       \/ ~Exists(o) /\ Refused(t) /\ UNCHANGED <<row, lost>>
    /\ UNCHANGED <<booking, visitor, api, clicks>>

(* The Archive button deletes. *)
Archive(t) ==
    /\ form[t].at = "edit"
    /\ form' = [form EXCEPT ![t].at = "archiving"]
    /\ Click
    /\ UNCHANGED <<row, booking, visitor, api, lost>>

ReadForDelete(t) ==
    LET o == form[t].id IN
    /\ form[t].at = "archiving"
    /\ form' = [form EXCEPT ![t] =
          IF api = "up" /\ Exists(o) /\ Owns(t, o) THEN [@ EXCEPT !.at = "deleting"]
          ELSE Closed]
    /\ UNCHANGED <<row, booking, visitor, api, lost, clicks>>

(* bookings.offering_id refers to the row: with a booking the delete fails. *)
Referenced(o) == \E b \in Bookings : booking[b].at \in {"pending", "active", "closed"}
                                     /\ booking[b].offering = o

CommitDelete(t) ==
    LET o == form[t].id IN
    /\ form[t].at = "deleting"
    /\ row' = IF Referenced(o) THEN row ELSE [row EXCEPT ![o] = NoRow]
    /\ form' = [form EXCEPT ![t] = Closed]       \* the error is only logged
    /\ UNCHANGED <<booking, visitor, api, lost, clicks>>

-----------------------------------------------------------------------------
(* Bookings, as far as they hold on to an offering. *)

ReadForBooking(b, o) ==
    /\ booking[b].at = "none" /\ api = "up" /\ o \in Active
    /\ booking' = [booking EXCEPT ![b] = [NoBooking EXCEPT !.at = "creating", !.offering = o,
                                                           !.quoted = row[o].price]]
    /\ UNCHANGED <<row, form, visitor, api, lost, clicks>>

InsertAnyway(b) ==                      \* mutant: no foreign key
    /\ booking[b].at = "creating"
    /\ booking' = [booking EXCEPT ![b].at = "pending"]
    /\ UNCHANGED <<row, form, visitor, api, lost, clicks>>

InsertBooking(b) ==
    /\ booking[b].at = "creating"
    /\ booking' = [booking EXCEPT ![b] = IF Exists(booking[b].offering)
                                         THEN [@ EXCEPT !.at = "pending"] ELSE NoBooking]
    /\ UNCHANGED <<row, form, visitor, api, lost, clicks>>

(* The offering is loaded again at each transition: the lock is taken at    *)
(* the price of that moment.                                                *)
ActivateBooking(b) ==
    /\ booking[b].at = "pending" /\ api = "up"
    /\ booking' = [booking EXCEPT ![b].at = "active",
                                  ![b].locked = row[booking[b].offering].price]
    /\ UNCHANGED <<row, form, visitor, api, lost, clicks>>

CloseBooking(b) ==
    /\ booking[b].at \in {"pending", "active"} /\ api = "up"
    /\ booking' = [booking EXCEPT ![b].at = "closed"]
    /\ UNCHANGED <<row, form, visitor, api, lost, clicks>>

-----------------------------------------------------------------------------
(* The public pages. *)

Matching(g) == {o \in Active : g = AnyTag \/ g \in row[o].tags}
SeedsMatching(g) == {s \in Seeds : g = AnyTag \/ g \in TagsOfSeed[s]}

(* safeGet: the list of the API, or the seeds when it fails or cannot be    *)
(* reached.                                                                 *)
Browse(g) ==
    /\ Click
    /\ visitor' = [at |-> "browse", id |-> None, outage |-> FALSE,
                   items |-> IF api = "up" THEN Matching(g) ELSE SeedsMatching(g)]
    /\ UNCHANGED <<row, booking, form, api, lost>>

NoSeedLookup(id) ==                     \* mutant: a 404 of the API is final
    IF api = "up" THEN IF id \in Offerings /\ Exists(id) THEN "offering" ELSE "not found"
    ELSE IF api = "failing" THEN "error"
    ELSE IF id \in Seeds THEN "offering" ELSE "not found"

(* OfferingDetail: a 404 and an unreachable API send the page to the seeds, *)
(* any other answer to the error page.                                      *)
DetailOf(id) ==
    IF api = "failing" THEN "error"
    ELSE IF (api = "up" /\ id \in Offerings /\ Exists(id)) \/ id \in Seeds THEN "offering"
    ELSE "not found"

FollowCard(id) ==
    /\ visitor.at = "browse" /\ id \in visitor.items
    /\ visitor' = [visitor EXCEPT !.at = DetailOf(id), !.id = id, !.outage = api # "up"]
    /\ Click
    /\ UNCHANGED <<row, booking, form, api, lost>>

ApiChanges ==
    /\ api' \in {"up", "failing", "unreachable"} \ {api}
    /\ Click
    /\ UNCHANGED <<row, booking, form, visitor, lost>>

StoreNext ==
    \/ \E t \in Forms :
         \/ \E s \in Suppliers : OpenNew(t, s) \/ \E o \in Offerings : OpenEdit(t, s, o)
         \/ Submit(t) \/ CreateOffering(t) \/ ReadForUpdate(t) \/ CommitUpdate(t)
         \/ Archive(t) \/ ReadForDelete(t) \/ CommitDelete(t)
    \/ \E b \in Bookings :
         \/ \E o \in Offerings : ReadForBooking(b, o)
         \/ InsertBooking(b) \/ ActivateBooking(b) \/ CloseBooking(b)
    \/ \E g \in Tags \cup {AnyTag} : Browse(g)
    \/ \E id \in Offerings \cup Seeds : FollowCard(id)
    \/ ApiChanges

StoreSpec == StoreInit /\ [][StoreNext]_storeVars

-----------------------------------------------------------------------------
(* Every booking, a closed one included, can still name what was booked,    *)
(* whichever of the delete and the insert came first.                       *)
BookedOfferExists == \A o \in Offerings : Referenced(o) => Exists(o)

(* Saving the edit form leaves a field nobody touched to the others, also   *)
(* to those who change it while the PATCH is at work; but it takes back     *)
(* what they had changed between the load of the form and the read of the   *)
(* PATCH.  Of the tags it respells those that were not words; a word the    *)
(* offering was loaded with and is still found by, it does not lose.        *)
UntouchedFieldsStay ==
    [][\A t \in Forms :
         LET o == form[t].id
             base == form[t].base
             untouched == Fields \ form[t].touched
         IN form[t].at = "committing" /\ form'[t].at # "committing" /\ Exists(o) =>
              /\ \A f \in untouched :
                   form[t].read[f] = base[f] /\ (f = "tags" => base.tags \subseteq Words)
                       => row'[o][f] = row[o][f]
              /\ "tags" \in untouched =>
                   Words \cap base.tags \cap row[o].tags \subseteq row'[o].tags]_storeVars

(* A card leads to its offering: the not-found page is reached only for an  *)
(* offering deleted since the list was made or during an outage, and never  *)
(* from a seed.                                                             *)
CardsLead ==
    visitor.at = "not found" => /\ visitor.id \notin Seeds
                                /\ visitor.outage \/ ~Exists(visitor.id)

(* A booking is locked at the price it was made at:                         *)
(* web/src/app/dashboard/suppliers/offerings/[id]/edit/page.tsx:38-39 says  *)
(* "Edits go live immediately for new bookings. Existing bookings keep      *)
(* their original price."                                                   *)
ExistingBookingsKeepPrice ==
    \A b \in Bookings : booking[b].locked \in {0, booking[b].quoted}

(* Whoever follows a reference to an offering, from a booking or a card,    *)
(* finds it.                                                                *)
NoDeadLinks == BookedOfferExists /\ CardsLead
=============================================================================
