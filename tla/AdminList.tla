----------------------------- MODULE AdminList -----------------------------
(***************************************************************************)
(* The administration's page of tenants in the browser                     *)
(* (frontend/src/views/admin/AdminView.vue): its list is loaded by a timer *)
(* and by a button, ten tenants at a time, while its dialog                *)
(* (components/admin/AddTenantModal.vue) and others add tenants.  An       *)
(* answer may come at any time after it was asked for, or not at all.      *)
(* The pages are those of tenantsBillingHandler, cut at once: that they    *)
(* can be is TenantRegistry's business.  AUTO_INCREMENT numbers the        *)
(* tenants: the newest has the greatest id.                                *)
(***************************************************************************)
EXTENDS Integers, Sequences, FiniteSets, SequencesExt

CONSTANTS
    InitialTenants, \* tenants there are when the page is opened
    PageSize,       \* tenants in an answer, and what the page takes for a full one: 10
    MaxTenant,      \* bound on the tenants
    MaxFetches      \* bound on the requests for a page

AdminListAssumption ==
    /\ InitialTenants \in Nat /\ MaxTenant \in Nat /\ InitialTenants <= MaxTenant
    /\ PageSize \in Nat \ {0} /\ MaxFetches \in Nat

VARIABLES
    lastId,         \* the server: tenants 1..lastId
    tenants,        \* what the page shows, from top to bottom
    beforeCursor,   \* the id the next request starts below, 0 for none
    isLoading,      \* whether the page says so in the button's place
    noMoreLoad,     \* whether the button is gone
    isLoggedIn,     \* whether /api/me has said so
    timer,          \* whether the timer of onMounted is still to come
    fetches,        \* the requests, in the order they were sent
    added           \* the dialog's tenants of which the answer is to come

vars == <<lastId, tenants, beforeCursor, isLoading, noMoreLoad, isLoggedIn, timer, fetches, added>>
server == <<lastId, added>>
login == <<isLoggedIn, timer>>

Id == 1..MaxTenant
Fetch == [before : {0} \cup Id, early : BOOLEAN,
          state : {"sent", "cut", "over"}, page : SeqOf(Id, PageSize)]

Init ==
    /\ lastId = InitialTenants /\ added = {}
    /\ tenants = <<>> /\ beforeCursor = 0
    /\ isLoading = FALSE /\ noMoreLoad = FALSE
    /\ isLoggedIn = FALSE /\ timer = TRUE
    /\ fetches = <<>>

-----------------------------------------------------------------------------
(* Mutant: the tenant the cursor names is sent again. *)
PageInclusive(before) ==
    LET top == IF before = 0 THEN lastId ELSE before
    IN [i \in 1..(IF top < PageSize THEN top ELSE PageSize) |-> top - i + 1]

(* tenantsBillingHandler: from the newest down, those below before if any. *)
Page(before) ==
    LET top == IF before = 0 THEN lastId ELSE before - 1
    IN [i \in 1..(IF top < PageSize THEN top ELSE PageSize) |-> top - i + 1]

(* early: history, sent before the timer went off. *)
Ask(before) ==
    /\ Len(fetches) < MaxFetches
    /\ fetches' = Append(fetches,
                         [before |-> before, early |-> timer, state |-> "sent", page |-> <<>>])
    /\ isLoading' = TRUE

AnswerMe ==
    /\ ~isLoggedIn /\ isLoggedIn' = TRUE
    /\ UNCHANGED <<lastId, tenants, beforeCursor, isLoading, noMoreLoad, timer, fetches, added>>

(* onMounted's timer, 250 ms after the page was opened. *)
Timer ==
    /\ timer /\ timer' = FALSE
    /\ IF isLoggedIn THEN Ask(0) ELSE UNCHANGED <<fetches, isLoading>>
    /\ UNCHANGED <<lastId, tenants, beforeCursor, noMoreLoad, isLoggedIn, added>>

(* The button is there from the start. *)
HandleLoading ==
    /\ ~noMoreLoad /\ ~isLoading
    /\ Ask(beforeCursor)
    /\ UNCHANGED <<tenants, beforeCursor, noMoreLoad, server, login>>

Serve(k) ==
    /\ fetches[k].state = "sent"
    /\ fetches' = [fetches EXCEPT ![k].state = "cut", ![k].page = Page(fetches[k].before)]
    /\ UNCHANGED <<tenants, beforeCursor, isLoading, noMoreLoad, server, login>>

(* The page is kept as history. *)
Over(k, page) ==
    /\ fetches' = [fetches EXCEPT ![k].state = "over", ![k].page = page]
    /\ isLoading' = FALSE

(* Mutant: a full page is taken for the last one. *)
ShowStopsEarly(k) ==
    /\ fetches[k].state = "cut"
    /\ tenants' = tenants \o fetches[k].page
    /\ beforeCursor' = IF fetches[k].page = <<>> THEN beforeCursor ELSE Last(fetches[k].page)
    /\ noMoreLoad' = (noMoreLoad \/ Len(fetches[k].page) <= PageSize)
    /\ Over(k, fetches[k].page)
    /\ UNCHANGED <<server, login>>

Show(k) ==
    /\ fetches[k].state = "cut"
    /\ LET page == fetches[k].page IN
       /\ tenants' = tenants \o page
       /\ beforeCursor' = IF page = <<>> THEN beforeCursor ELSE Last(page)
       /\ noMoreLoad' = (noMoreLoad \/ Len(page) < PageSize)
       /\ Over(k, page)
    /\ UNCHANGED <<server, login>>

(* An error of the server or of the network: an alert. *)
Fail(k) ==
    /\ fetches[k].state \in {"sent", "cut"}
    /\ Over(k, <<>>)
    /\ UNCHANGED <<tenants, beforeCursor, noMoreLoad, server, login>>

(* The dialog's request reaches the server, or another client's does. *)
AddTenant(dialog) ==
    /\ lastId < MaxTenant
    /\ lastId' = lastId + 1
    /\ added' = IF dialog THEN added \cup {lastId + 1} ELSE added
    /\ UNCHANGED <<tenants, beforeCursor, isLoading, noMoreLoad, login, fetches>>

(* handleTenantAdded, or the answer was lost. *)
TenantAdded(t) ==
    /\ added' = added \ {t}
    /\ tenants' \in {<<t>> \o tenants, tenants}
    /\ UNCHANGED <<lastId, beforeCursor, isLoading, noMoreLoad, login, fetches>>

Next ==
    \/ AnswerMe \/ Timer \/ HandleLoading
    \/ \E k \in DOMAIN fetches : Serve(k) \/ Show(k) \/ Fail(k)
    \/ \E dialog \in BOOLEAN : AddTenant(dialog)
    \/ \E t \in added : TenantAdded(t)

Spec == Init /\ [][Next]_vars

-----------------------------------------------------------------------------
TypeOK ==
    /\ lastId \in Id \cup {0} /\ added \subseteq 1..lastId
    /\ tenants \in Seq(Id) /\ beforeCursor \in {0} \cup Id
    /\ {isLoading, noMoreLoad, isLoggedIn, timer} \subseteq BOOLEAN
    /\ fetches \in Seq(Fetch) /\ Len(fetches) <= MaxFetches

(* When the button is gone, every tenant there was when the page was opened is  *)
(* in the list, whatever came late, failed, was asked for twice or was added    *)
(* meanwhile: the cursor, which a late answer may set back, never passes over   *)
(* a tenant.                                                                    *)
NothingMissed == noMoreLoad => 1..InitialTenants \subseteq ToSet(tenants)

(* A user who leaves the button alone until the timer has gone off sees every   *)
(* tenant once, except one the dialog added before the first page was cut: the  *)
(* answer to the dialog puts it on top, and that page or a later one brings it  *)
(* again.  The timer does not look at what the button has loaded or is loading, *)
(* and such tenants are twice in the list.                                      *)
TwiceOnlyIfEarly ==
    \A i, j \in DOMAIN tenants :
       i < j /\ tenants[i] = tenants[j] =>
          \/ \E k \in DOMAIN fetches : fetches[k].early
          \/ /\ tenants[i] > InitialTenants
             /\ \E k \in DOMAIN fetches : /\ fetches[k].before = 0 /\ fetches[k].page # <<>>
                                          /\ tenants[i] <= Head(fetches[k].page)
=============================================================================
