------------------------------ MODULE MCBrowser ------------------------------
(***************************************************************************)
(* The pages of the browser that keep a list, for TLC: the ranking, the    *)
(* administration's tenants and the organizer's competitions.  They share  *)
(* nothing: a behaviour is one of one page, the others stay unopened.      *)
(***************************************************************************)
EXTENDS Ranking

CONSTANTS
    p1, p2, p3, c1, c2, file,
    InitialTenants, TenantsPageSize, MaxTenant, MaxFetches,         \* AdminList
    Competition, InitialCompetition, CSV, NULL, MaxGets, MaxPosts   \* CompetitionList

VARIABLES
    opened,     \* the page
    lastId, tenants, beforeCursor, loading, noMoreTenants, isLoggedIn, timer, fetches, added,
    table, competitions, gets, posts, dialog, uploaded

Tenants == INSTANCE AdminList
           WITH PageSize <- TenantsPageSize, isLoading <- loading, noMoreLoad <- noMoreTenants
Competitions == INSTANCE CompetitionList

ASSUME ListsAssumption == Tenants!AdminListAssumption /\ Competitions!CompetitionListAssumption

PlayerSymmetry == Permutations(Player)

AnyPage ==
    /\ opened \in {"ranking", "tenants", "competitions"}
    /\ Init /\ Tenants!Init /\ Competitions!Init

rankingVars == <<rows, uploads, ranks, nextId, noMoreLoad, isLoading, response, stable>>
tenantsVars == <<lastId, tenants, beforeCursor, loading, noMoreTenants, isLoggedIn, timer, fetches,
                 added>>
competitionsVars == <<table, competitions, gets, posts, dialog, uploaded>>

AnyStep ==
    \/ opened = "ranking" /\ Next /\ UNCHANGED <<tenantsVars, competitionsVars>>
    \/ opened = "tenants" /\ Tenants!Next /\ UNCHANGED <<rankingVars, competitionsVars>>
    \/ opened = "competitions" /\ Competitions!Next /\ UNCHANGED <<rankingVars, tenantsVars>>

PagesSpec ==
    AnyPage /\ [][AnyStep /\ UNCHANGED opened]_<<opened, rankingVars, tenantsVars, competitionsVars>>

(* Every page's variables keep their types. *)
PagesTypeOK == TypeOK /\ Tenants!TypeOK /\ Competitions!TypeOK

(* The properties of AdminList and of CompetitionList, stated there. *)
NothingMissed == Tenants!NothingMissed
TwiceOnlyIfEarly == Tenants!TwiceOnlyIfEarly
ShownFileGoesWhereChosen == Competitions!ShownFileGoesWhereChosen
GoesBackOnlyIfOvertaken == Competitions!GoesBackOnlyIfOvertaken
=============================================================================
