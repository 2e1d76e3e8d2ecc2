------------------------------ MODULE Service ------------------------------
(***************************************************************************)
(* What the web application (webapp/go/isuports.go) answers to one request *)
(* after another, as functions from a tenant's tables and a request to the *)
(* tables afterwards and the answer: who is asking (parseViewer,           *)
(* authorizePlayer, the roles), and what each handler accepts, refuses and *)
(* returns.  TenantApi is about requests that meet; a client that goes     *)
(* through a scenario alone in its tenant sees this.                       *)
(* A tenant is named by its id where it is of the initial data.  Its       *)
(* players and its competitions are numbered in the order they came;       *)
(* dispenseID's numbers are in Identifiers.                                *)
(***************************************************************************)
EXTENDS Integers, Sequences, FiniteSets, SequencesExt

CONSTANTS
    RankLimit,      \* ranks in an answer: 100
    BillingLimit,   \* tenants in an answer: 10
    InitialTenants, \* tenants of the initial data, by id
    NewTenant,      \* names of tenants that clients add
    Admin           \* the name reserved for the administration

InitialId == 1..InitialTenants

(* All that is added is on the first page of the bills: the order of the new   *)
(* ids makes no difference to it.                                              *)
ASSUME ServiceAssumption ==
    /\ RankLimit \in Nat \ {0} /\ BillingLimit \in Nat \ {0} /\ InitialTenants \in Nat
    /\ IsFiniteSet(NewTenant) /\ NewTenant \cap InitialId = {}
    /\ Admin \notin NewTenant \cup InitialId
    /\ Cardinality(NewTenant) <= BillingLimit /\ BillingLimit <= InitialTenants

-----------------------------------------------------------------------------
(* The tables of a tenant.  Of visit_history there is who came first up to    *)
(* finished_at (or while there is none) and who came first after it.           *)
NewCompetition == [finished |-> FALSE, rows |-> <<>>, visitors |-> {}, late |-> {}]
EmptyTenant == [file |-> TRUE, players |-> 0, disqualified |-> {}, competitions |-> <<>>]

Player(t) == 1..t.players
Has(t, c) == c \in DOMAIN t.competitions

Refused(t, status) == [tenant |-> t, answer |-> [status |-> status]]
Done(t, data) == [tenant |-> t, answer |-> [status |-> 200, data |-> data]]

-----------------------------------------------------------------------------
(* Organizer *)

PlayersAdd(t, q) ==
    Done([t EXCEPT !.players = @ + q.n], (t.players + 1)..(t.players + q.n))

PlayersList(t, q) == Done(t, [players |-> Player(t), disqualified |-> t.disqualified])

(* The update of a player who is not there touches no row. *)
PlayerDisqualified(t, q) ==
    IF q.player \notin Player(t) THEN Refused(t, 404)
    ELSE Done([t EXCEPT !.disqualified = @ \cup {q.player}],
              [player |-> q.player, disqualified |-> TRUE])

CompetitionsAdd(t, q) ==
    Done([t EXCEPT !.competitions = Append(@, NewCompetition)], Len(t.competitions) + 1)

(* A second finish moves finished_at behind the visits there were in between. *)
Finish(comp) ==
    [comp EXCEPT !.finished = TRUE, !.visitors = @ \cup comp.late, !.late = {}]

CompetitionFinish(t, q) ==
    IF ~Has(t, q.competition) THEN Refused(t, 404)
    ELSE Done([t EXCEPT !.competitions[q.competition] = Finish(@)], {})

(* The lines before the first that is refused have no effect: the rows are     *)
(* replaced when all have been read.                                           *)
CompetitionScore(t, q) ==
    LET good == {i \in DOMAIN q.rows : q.rows[i].player \in Player(t)}
    IN  IF ~Has(t, q.competition) THEN Refused(t, 404)
        ELSE IF t.competitions[q.competition].finished \/ ~q.header THEN Refused(t, 400)
        ELSE IF q.rows # <<>> /\ q.columns # 2 THEN Refused(t, 500)
        ELSE IF good # DOMAIN q.rows THEN Refused(t, 400)
        ELSE Done([t EXCEPT !.competitions[q.competition].rows = q.rows], Len(q.rows))

Scored(comp) == {comp.rows[i].player : i \in DOMAIN comp.rows}

(* Mutant: a player with a score who looked at the ranking is charged twice. *)
ReportTwice(comp) ==
    LET players == IF comp.finished THEN Cardinality(Scored(comp)) ELSE 0
        visitors == IF comp.finished THEN Cardinality(comp.visitors) ELSE 0
    IN  [players |-> players, visitors |-> visitors, yen |-> 100 * players + 10 * visitors]

(* billingReportByCompetition: nothing is owed for a running competition. *)
Report(comp) ==
    LET players == IF comp.finished THEN Cardinality(Scored(comp)) ELSE 0
        visitors == IF comp.finished THEN Cardinality(comp.visitors \ Scored(comp)) ELSE 0
    IN  [players |-> players, visitors |-> visitors, yen |-> 100 * players + 10 * visitors]

Billing(t, q) == Done(t, [c \in DOMAIN t.competitions |-> Report(t.competitions[c])])

Competitions(t, q) == Done(t, DOMAIN t.competitions)

-----------------------------------------------------------------------------
(* Player *)

(* The row of each player that counts is the last. *)
LastRows(rows) ==
    {i \in DOMAIN rows : \A j \in DOMAIN rows : rows[j].player = rows[i].player => j <= i}

(* The elements of a set in a strict order of theirs.  (The provers know       *)
(* nothing of SortSeq.)                                                        *)
Ordered(S, before) ==
    [n \in 1..Cardinality(S) |->
        CHOOSE x \in S : Cardinality({y \in S : <<y, x>> \in before}) = n - 1]

(* The index of the row comes after the score. *)
Ahead(rows) ==
    {p \in (DOMAIN rows) \X (DOMAIN rows) :
        \/ rows[p[1]].score > rows[p[2]].score
        \/ rows[p[1]].score = rows[p[2]].score /\ p[1] < p[2]}

Standings(rows) ==
    LET order == Ordered(LastRows(rows), Ahead(rows))
    IN  [n \in DOMAIN order |->
            [rank |-> n, player |-> rows[order[n]].player, score |-> rows[order[n]].score]]

Visit(comp, p) ==
    IF p \in comp.visitors \cup comp.late THEN comp
    ELSE IF comp.finished THEN [comp EXCEPT !.late = @ \cup {p}]
    ELSE [comp EXCEPT !.visitors = @ \cup {p}]

CompetitionRanking(t, q) ==
    IF ~Has(t, q.competition) THEN Refused(t, 404)
    ELSE Done([t EXCEPT !.competitions[q.competition] = Visit(@, q.as.player)],
              LET ranks == Standings(t.competitions[q.competition].rows)
                  last == IF q.after + RankLimit < Len(ranks) THEN q.after + RankLimit
                                                              ELSE Len(ranks)
              IN  SubSeq(ranks, q.after + 1, last))

PlayerPage(t, q) ==
    LET scores(comp) == {comp.rows[i].score :
                            i \in {k \in LastRows(comp.rows) : comp.rows[k].player = q.player}}
    IN  IF q.player \notin Player(t) THEN Refused(t, 404)
        ELSE Done(t, [player |-> q.player, disqualified |-> q.player \in t.disqualified,
                      scores |-> [c \in DOMAIN t.competitions |-> scores(t.competitions[c])]])

-----------------------------------------------------------------------------
OrganizerApi == {"players_add", "players", "disqualified", "competitions_add", "finish",
                 "score", "billing", "organizer_competitions"}
PlayerApi == {"ranking", "player", "player_competitions"}
AdminApi == {"tenants_add", "tenants_billing"}
RoleOf(op) == IF op \in OrganizerApi THEN "organizer"
              ELSE IF op \in PlayerApi THEN "player" ELSE "admin"

Handler(t, q) ==
    CASE q.op = "players_add" -> PlayersAdd(t, q)
      [] q.op = "players" -> PlayersList(t, q)
      [] q.op = "disqualified" -> PlayerDisqualified(t, q)
      [] q.op = "competitions_add" -> CompetitionsAdd(t, q)
      [] q.op = "finish" -> CompetitionFinish(t, q)
      [] q.op = "score" -> CompetitionScore(t, q)
      [] q.op = "billing" -> Billing(t, q)
      [] q.op \in {"organizer_competitions", "player_competitions"} -> Competitions(t, q)
      [] q.op = "ranking" -> CompetitionRanking(t, q)
      [] q.op = "player" -> PlayerPage(t, q)

(* parseViewer: the token must be signed with the one key by RS256 and not be  *)
(* expired; its tenant is the one of the host, which must be there.            *)
Unauthorized(as, known) ==
    \/ as.token # "valid"
    \/ as.host # Admin /\ as.host \notin known
    \/ as.host = Admin /\ as.role # "admin"
    \/ as.host # as.tenant

(* A request to a tenant's API, whose tables are t. *)
Answer(t, q, known) ==
    IF Unauthorized(q.as, known) THEN Refused(t, 401)
    ELSE IF q.as.role # RoleOf(q.op) THEN Refused(t, 403)
    ELSE IF ~t.file THEN Refused(t, 500)
    ELSE IF q.op \in PlayerApi /\ q.as.player \notin Player(t) THEN Refused(t, 401)
    ELSE IF q.op \in PlayerApi /\ q.as.player \in t.disqualified THEN Refused(t, 403)
    ELSE Handler(t, q)

-----------------------------------------------------------------------------
(* Administration.  tenants: the tables of the tenants that were added or have *)
(* changed; the others of the initial data are as initial.                     *)

TenantOf(initial, tenants, name) ==
    IF name \in DOMAIN tenants THEN tenants[name]
    ELSE IF name \in InitialId THEN initial ELSE EmptyTenant

(* What tenants/add says before it does anything, 200 if it will. *)
AddStatus(tenants, q) ==
    IF Unauthorized(q.as, DOMAIN tenants) THEN 401
    ELSE IF q.as.host # Admin THEN 404
    ELSE IF q.as.role # "admin" THEN 403
    ELSE IF q.name \notin NewTenant \/ q.name \in DOMAIN tenants THEN 400
    ELSE 200

Put(tenants, name, t) ==
    [n \in DOMAIN tenants \cup {name} |-> IF n = name THEN t ELSE tenants[n]]

(* The row, and then the file. *)
AddRow(tenants, q) == Put(tenants, q.name, [EmptyTenant EXCEPT !.file = FALSE])
AddFile(tenants, q) == [tenants EXCEPT ![q.name].file = TRUE]

Yen(t) == SumFunction([c \in DOMAIN t.competitions |-> Report(t.competitions[c]).yen])

(* The tenants of a page, the newest first. *)
BillingPage(tenants, before) ==
    IF before # 0 THEN {id \in InitialId : id < before /\ id >= before - BillingLimit}
    ELSE LET new == DOMAIN tenants \ InitialId
         IN  new \cup {id \in InitialId : id > InitialTenants - BillingLimit + Cardinality(new)}

(* A tenant whose file is not there yet fails the whole page. *)
TenantsBilling(initial, tenants, q) ==
    LET page == BillingPage(tenants, q.before)
    IN  IF q.as.host # Admin THEN [status |-> 404]
        ELSE IF Unauthorized(q.as, DOMAIN tenants) THEN [status |-> 401]
        ELSE IF q.as.role # "admin" THEN [status |-> 403]
        ELSE IF \E n \in page : ~TenantOf(initial, tenants, n).file THEN [status |-> 500]
        ELSE [status |-> 200, data |-> [n \in page |-> Yen(TenantOf(initial, tenants, n))]]
============================================================================
