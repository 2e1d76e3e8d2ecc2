------------------------------- MODULE Checks -------------------------------
(***************************************************************************)
(* What the benchmarker asks to find out whether a server answers as it    *)
(* should, and what the answers must be: the checks of the validation      *)
(* before the load (bench/scenario_validation.go), and the three workers   *)
(* that check during the load (bench/scenario_tenant_billing_validate.go,  *)
(* scenario_admin_billing_validate.go, scenario_player_validate.go) beside *)
(* the organizer of a popular tenant (scenario_popular_tenant.go), who     *)
(* changes other tenants of the initial data (the ranges in constants.go). *)
(* The check of the static files is left out.                              *)
(***************************************************************************)
EXTENDS InitialData

CONSTANTS
    tAll, tRanking, tBad, tJwt, tBill,  \* the tenants of the checks
    tNone,                  \* notExistName
    PlayerNum,              \* players of a tenant: 100
    CheckPlayer,            \* whose page is read: the eleventh, in rankingCheck the thirty-first
    PopularRange, AdminRange, PlayerRange,  \* of the indexes of the initial tenants
    Rounds                  \* of the tenant's bills: scoredIndex and visitorsIndex of each

PrepareCheck == {"allAPI", "ranking", "badRequest", "invalidJWT", "billing"}
LoadCheck == {"players", "tenantBilling", "adminBilling", "popular"}
Check == PrepareCheck \cup LoadCheck

DisqualifiedPlayer == PlayerNum - 1
NoScorePlayer == PlayerNum
Scorer == 1..(PlayerNum - 1)
RankedNum == RankLimit + 1

ASSUME ChecksAssumption ==
    /\ NewTenant = {tAll, tRanking, tBad, tJwt, tBill} /\ Cardinality(NewTenant) = 5
    /\ tNone \notin NewTenant \cup InitialId \cup {Admin}
    /\ PlayerNum \in Nat /\ CheckPlayer \in 2..(PlayerNum - 2)
    /\ CheckPlayer < RankedNum /\ PlayerNum <= RankedNum
    /\ 2 <= PlayersDrawn /\ PlayersDrawn <= RankLimit

(* InitialDataTenant[index] has the id index + 1; randomRange takes both ends. *)
DrawnIds(range) == {index + 1 : index \in range[1]..range[2]}
PopularIds == {1} \cup DrawnIds(PopularRange)

ASSUME RangesAssumption ==
    /\ \A range \in {PopularRange, AdminRange, PlayerRange} :
          range \in Nat \X Nat /\ range[1] <= range[2] /\ range[2] < InitialTenants
    /\ PopularIds \cap DrawnIds(AdminRange) = {} /\ PopularIds \cap DrawnIds(PlayerRange) = {}
    /\ DrawnIds(AdminRange) \cap DrawnIds(PlayerRange) = {}
    /\ AdminRange[1] + BillingLimit <= AdminRange[2] + 1 /\ AdminRange[2] + 1 < InitialTenants
    /\ Rounds \in Seq([scored : Nat, visitors : Nat])
    /\ \A k \in DOMAIN Rounds :
          Rounds[k].scored <= Rounds[k].visitors /\ Rounds[k].visitors <= PlayerNum

(* What the workers of the load draw: their tenants, and the page of bills to  *)
(* whose first or last tenant one of them adds.                                *)
LoadChoices ==
    UNION {{[player |-> p, popular |-> n, cursor |-> id, target |-> id - k] :
              p \in DrawnIds(PlayerRange), n \in PopularIds,
              k \in {1, BillingLimit}} :
           id \in DrawnIds(<<AdminRange[1] + BillingLimit, AdminRange[2] + 1>>)}

-----------------------------------------------------------------------------
(* The requests of the checks, in their order.  A step whose failure is fatal  *)
(* ends its check even when StrictPrepare is not set.                          *)

As(role, tenant, player) ==
    [role |-> role, tenant |-> tenant, player |-> player, token |-> "valid",
     host |-> IF role = "admin" THEN Admin ELSE tenant]
AdminAs == As("admin", Admin, 1)
OrganizerOf(tenant) == As("organizer", tenant, 1)

Request(op, as, parameters) ==
    [f \in {"op", "as"} \cup DOMAIN parameters |->
        IF f = "op" THEN op ELSE IF f = "as" THEN as ELSE parameters[f]]

Step(name, op, as, choices, status, fatal) ==
    [name |-> name, status |-> status, fatal |-> fatal,
     ask |-> {Request(op, as, p) : p \in choices}]
Must(name, op, as, p) == Step(name, op, as, {p}, 200, TRUE)
Should(name, op, as, p) == Step(name, op, as, {p}, 200, FALSE)
Refuses(name, op, as, p, status) == Step(name, op, as, {p}, status, FALSE)

Nothing == [before |-> 0]
Of(c) == [competition |-> c, after |-> 0]
File(rows) == [competition |-> 1, header |-> TRUE, columns |-> 2, rows |-> rows]
Line(p, score) == [player |-> p, score |-> score]
Rows(score) == [p \in DOMAIN score |-> Line(p, score[p])]

AllApiUpload ==
    Must("upload", "score", OrganizerOf(tAll), File(Rows([p \in Scorer |-> 100 + p])))

AllApiBefore ==
    LET org == OrganizerOf(tAll)
    IN  << Must("players_add", "players_add", org, [n |-> PlayerNum]),
           Should("players", "players", org, Nothing),
           Must("competitions_add", "competitions_add", org, Nothing),
           Must("disqualified", "disqualified", org, [player |-> DisqualifiedPlayer]),
           AllApiUpload >>

(* The race of the readers and the second upload: RankerAsks, UploaderAsks. *)
AtOnce == Should("at_once", "ranking", As("player", tAll, 1), Of(1))

AllApiReads ==
    LET player == As("player", tAll, 1)
    IN  << Should("player", "player", player, [player |-> CheckPlayer]),
           Should("ranking", "ranking", player, Of(1)),
           Should("ranking_visitor", "ranking", As("player", tAll, NoScorePlayer), Of(1)) >>

AllApiFinished ==
    LET org == OrganizerOf(tAll)
        player == As("player", tAll, 1)
    IN  << Must("finish", "finish", org, Of(1)),
           Should("final_ranking", "ranking", player, Of(1)),
           Should("billing", "billing", org, Nothing),
           Should("competitions", "player_competitions", player, Nothing),
           Should("competitions", "organizer_competitions", org, Nothing),
           Should("dashboard", "tenants_billing", AdminAs, Nothing),
           [Should("initial_billing", "billing", org, Nothing) EXCEPT
                !.ask = {[op |-> "billing", as |-> OrganizerOf(id)] : id \in 3..InitialTenants}] >>

AllApi == AllApiBefore \o <<AtOnce>> \o AllApiReads \o AllApiFinished

RankingUpload(name, rows) == Must(name, "score", OrganizerOf(tRanking), File(rows))

RankingFirst ==
    LET org == OrganizerOf(tRanking)
        player == As("player", tRanking, 1)
    IN  << Must("tenants_add", "tenants_add", AdminAs, [name |-> tRanking]),
           Must("competitions_add", "competitions_add", org, Nothing),
           Must("players_add", "players_add", org, [n |-> RankedNum]),
           RankingUpload("upload", Rows([p \in 1..RankedNum |-> 100 + p])),
           Should("ranking", "ranking", player, Of(1)),
           Should("last_page", "ranking", player, [competition |-> 1, after |-> RankedNum - 1]),
           Should("player", "player", player, [player |-> CheckPlayer]) >>

RankingAgain ==
    LET player == As("player", tRanking, 1)
        twice == [i \in 1..(2 * RankedNum) |->
                     Line((i + 1) \div 2, IF i % 2 = 1 THEN 1 ELSE 1000)]
    IN  << RankingUpload("upload", Rows([p \in 1..RankedNum |-> 1000 - p])),
           Should("ranking_reversed", "ranking", player, Of(1)),
           Should("player_again", "player", player, [player |-> CheckPlayer]),
           RankingUpload("upload_twice", twice),
           Should("ranking_ties", "ranking", player, Of(1)) >>

(* The order of the two names that are refused is a map's. *)
BadRequestFirst ==
    LET org == OrganizerOf(tBad)
    IN  << Must("tenants_add", "tenants_add", AdminAs, [name |-> tBad]),
           Must("players_add", "players_add", org, [n |-> PlayerNum]),
           Step("duplicate_name", "tenants_add", AdminAs, {[name |-> tBad]}, 400, TRUE),
           Step("invalid_name", "tenants_add", AdminAs, {[name |-> Admin]}, 400, TRUE),
           Refuses("disqualify_nobody", "disqualified", org, [player |-> 0], 404),
           Must("competitions_add", "competitions_add", org, Nothing) >>

BadRequestRefused ==
    LET org == OrganizerOf(tBad)
        player == As("player", tBad, 1)
        bad == [File(<<Line(0, 1)>>) EXCEPT !.header = FALSE]
        refused(name, file, status) == Refuses(name, "score", org, file, status)
    IN  << refused("score_nowhere", [File(<<>>) EXCEPT !.competition = 0], 404),
           refused("score_nobody", File(<<Line(0, 1)>>), 400),
           refused("columns_reversed", bad, 400),
           refused("column_too_many", [bad EXCEPT !.columns = 3], 400),
           Refuses("page_of_nobody", "player", player, [player |-> 0], 404),
           Refuses("ranking_of_nothing", "ranking", player, Of(0), 404),
           Must("disqualified", "disqualified", org, [player |-> DisqualifiedPlayer]),
           Refuses("disqualified_reads", "ranking", As("player", tBad, DisqualifiedPlayer),
                   Of(1), 403),
           Refuses("finish_nothing", "finish", org, Of(0), 404),
           Must("finish", "finish", org, Of(1)),
           refused("score_finished", File(<<>>), 400) >>

InvalidJwtScript ==
    LET with(token) == [AdminAs EXCEPT !.token = token]
        add(name, token) == Refuses(name, "tenants_add", with(token), [name |-> tJwt], 401)
    IN  << add("expired", "expired"), add("wrong_key", "key"), add("wrong_algorithm", "algorithm"),
           Must("tenants_add", "tenants_add", AdminAs, [name |-> tJwt]),
           Refuses("no_tenant", "competitions_add", OrganizerOf(tNone), Nothing, 401),
           Refuses("no_player", "player_competitions", As("player", tJwt, 0), Nothing, 401) >>

(* ConstValidateScenarioAdminBillingIDRange: the page does not reach the first *)
(* tenant, nor any beyond the initial ones.                                    *)
BillingScript ==
    << Step("dashboard_before", "tenants_billing", AdminAs,
            {[before |-> id] : id \in (BillingLimit + 2)..InitialTenants}, 200, FALSE) >>
PrepareScript ==
    [allAPI |-> AllApi, ranking |-> RankingFirst \o RankingAgain,
     badRequest |-> BadRequestFirst \o BadRequestRefused,
     invalidJWT |-> InvalidJwtScript, billing |-> BillingScript]
GroupStep == Len(AllApiBefore) + 1

-----------------------------------------------------------------------------
(* The workers of the load; each failure ends the check.  Their competition is *)
(* the one after those of the initial data.                                    *)

Refused403(name, op, as, p) == Step(name, op, as, {p}, 403, TRUE)
NewOne == CompetitionsDrawn + 1
FileOf(c, rows) == [File(rows) EXCEPT !.competition = c]

PlayersUpload(id, score) ==
    Must("upload", "score", OrganizerOf(id), FileOf(NewOne, Rows(score)))

(* The first to be listed looks, the second will be disqualified. *)
PlayersBefore(id) ==
    LET org == OrganizerOf(id)
        checker == As("player", id, 1)
        loser == As("player", id, 2)
    IN  << Must("list", "players", org, Nothing),
           Must("competitions_add", "competitions_add", org, Nothing),
           PlayersUpload(id, [p \in DrawnPlayer |-> 1000 + p]),
           Must("page", "player", checker, [player |-> 1]),
           Must("page", "player", checker, [player |-> 2]),
           Must("ranking_before", "ranking", checker, Of(NewOne)),
           Must("competitions", "player_competitions", checker, Nothing),
           Must("enters", "player", loser, [player |-> 2]),
           Must("enters", "ranking", loser, Of(NewOne)),
           Must("enters", "player_competitions", loser, Nothing) >>

PlayersAfter(id) ==
    LET org == OrganizerOf(id)
        checker == As("player", id, 1)
        loser == As("player", id, 2)
    IN  << Must("disqualified", "disqualified", org, [player |-> 2]),
           PlayersUpload(id, [p \in DrawnPlayer |-> 1000 - p]),
           Must("ranking_after", "ranking", checker, Of(NewOne)),
           Must("finish", "finish", org, Of(NewOne)),
           Must("competitions", "player_competitions", checker, Nothing),
           Must("page_disqualified", "player", checker, [player |-> 2]),
           Refused403("refused", "player", loser, [player |-> 2]),
           Refused403("refused", "ranking", loser, Of(NewOne)),
           Refused403("refused", "player_competitions", loser, Nothing) >>

(* The names of the players to be added are made with as many empty ones. *)
TenantBillingScript ==
    LET org == OrganizerOf(tBill)
        visitors(k) == [i \in 1..(Rounds[k].visitors - Rounds[k].scored) |->
                           Must("visit", "ranking", As("player", tBill, Rounds[k].scored + i), Of(k))]
        round(k) ==
            << Must("competitions_add", "competitions_add", org, Nothing),
               Must("upload", "score", org, FileOf(k, Rows([p \in 1..Rounds[k].scored |-> 100 + p]))) >>
            \o visitors(k)
            \o << Must("finish", "finish", org, Of(k)), Must("billing", "billing", org, Of(k)) >>
    IN  << Must("tenants_add", "tenants_add", AdminAs, [name |-> tBill]),
           Must("players_add", "players_add", org, [n |-> 2 * PlayerNum]) >>
        \o FlattenSeq([k \in DOMAIN Rounds |-> round(k)])

(* OrganizerJob, whose readers and upload are at once in the module of that    *)
(* name; here one reads before the upload.  The player for whom the job starts *)
(* a worker may be any, and looks again and again at any of the competitions,  *)
(* at the finished ones too: here once, when the job is over.                  *)
JobScript(id, again) ==
    LET org == OrganizerOf(id)
    IN  << Must("job_list", "players", org, Nothing),
           Must("competitions_add", "competitions_add", org, Nothing),
           Must("job_ranking", "ranking", As("player", id, 1), Of(NewOne)),
           Must("job_upload", "score", org,
                FileOf(NewOne, Rows([p \in DrawnPlayer |-> 500 + p]) \o again)),
           Must("finish", "finish", org, Of(NewOne)),
           [Must("worker_ranking", "ranking", org, Nothing) EXCEPT
                !.ask = {Request("ranking", As("player", id, p), Of(c)) :
                            p \in DrawnPlayer, c \in 1..NewOne}] >>

AdminBillingScript(id, before) ==
    LET page(name) == <<Must(name, "tenants_billing", AdminAs, [before |-> before])>>
    IN  page("page") \o JobScript(id, <<>>) \o page("page_again")

(* More players and more rows than players. *)
PopularScript(id) ==
    JobScript(id, <<Line(1, 400)>>)
    \o << Must("popular_billing", "billing", OrganizerOf(id), Nothing),
          Must("popular_players", "players_add", OrganizerOf(id), [n |-> 2]) >>

LoadScripts ==
    [d \in LoadChoices |->
        [players |-> PlayersBefore(d.player) \o PlayersAfter(d.player), tenantBilling |-> TenantBillingScript,
         adminBilling |-> AdminBillingScript(d.target, d.cursor),
         popular |-> PopularScript(d.popular)]]

Script(c, choice) == IF c \in PrepareCheck THEN PrepareScript[c] ELSE LoadScripts[choice][c]

-----------------------------------------------------------------------------
(* What the answers must be.  billing: what the initial data says of a tenant. *)

Page(p, disqualified, scores) ==
    [player |-> p, disqualified |-> disqualified, scores |-> scores]
Total(yen) == SumFunction(yen)

AllApiFits(name, d, before, billing) ==
    CASE name = "players_add" -> Cardinality(d) = PlayerNum
      [] name = "players" -> d = [players |-> 1..PlayerNum, disqualified |-> {}]
      [] name = "disqualified" -> d = [player |-> DisqualifiedPlayer, disqualified |-> TRUE]
      [] name = "at_once" -> before <= Len(d)
      [] name = "player" -> d = Page(CheckPlayer, FALSE, <<{100 + CheckPlayer}>>)
      [] name \in {"ranking", "ranking_visitor"} ->
            ~(Len(d) # PlayerNum - 1 /\ RankLimit < Len(d))
      [] name = "final_ranking" ->
            /\ ~(Len(d) # PlayerNum - 1 /\ RankLimit < Len(d))
            /\ \A p \in Scorer : [rank |-> PlayerNum - p, player |-> p, score |-> 100 + p] \in ToSet(d)
      [] name = "billing" ->
            d = <<[players |-> PlayerNum - 1, visitors |-> 1, yen |-> 100 * (PlayerNum - 1) + 10]>>
      [] name = "competitions" -> Cardinality(d) = 1
      [] name = "dashboard" -> Cardinality(DOMAIN d) = BillingLimit /\ tAll \in DOMAIN d
      [] name = "initial_billing" -> [c \in DOMAIN d |-> d[c].yen] = billing
      [] OTHER -> TRUE

(* Mutant: only how many ranks there are is looked at. *)
RanksCounted(d, player) == Len(d) = RankLimit

(* Each rank is held by the player it must be, in whatever order the ranks come;*)
(* the score is not compared.                                                  *)
Ranks(d, player) ==
    /\ Len(d) = RankLimit
    /\ \A n \in 1..RankLimit : \E i \in DOMAIN d : d[i].rank = n /\ d[i].player = player[n]

RankingFits(name, d) ==
    CASE name = "players_add" -> Cardinality(d) = RankedNum
      [] name = "upload" -> d = RankedNum
      [] name = "upload_twice" -> d = 2 * RankedNum
      [] name = "ranking" -> Ranks(d, [n \in 1..RankLimit |-> RankedNum + 1 - n])
      [] name \in {"ranking_reversed", "ranking_ties"} -> Ranks(d, [n \in 1..RankLimit |-> n])
      [] name = "last_page" -> Len(d) = 1
      [] name = "player" -> d = Page(CheckPlayer, FALSE, <<{100 + CheckPlayer}>>)
      [] name = "player_again" -> d = Page(CheckPlayer, FALSE, <<{1000 - CheckPlayer}>>)
      [] OTHER -> TRUE

BadRequestFits(name, d) ==
    CASE name = "players_add" -> Cardinality(d) = PlayerNum
      [] name = "disqualified" -> d = [player |-> DisqualifiedPlayer, disqualified |-> TRUE]
      [] OTHER -> TRUE

BillingFits(q, d, billing) ==
    d = [id \in (q.before - BillingLimit)..(q.before - 1) |-> Total(billing)]

(* Of the ranking only that it has changed. *)
PlayersFits(name, q, d, before) ==
    CASE name = "list" -> Cardinality(d.players \ d.disqualified) >= 2
      [] name = "upload" -> d = PlayersDrawn
      [] name = "page" -> d.player = q.player /\ ~d.disqualified
      [] name = "page_disqualified" -> d.player = q.player /\ d.disqualified
      [] name = "disqualified" -> d = [player |-> 2, disqualified |-> TRUE]
      [] name = "ranking_after" -> Len(d) = PlayersDrawn /\ d # before
      [] OTHER -> TRUE

(* checkReports *)
RoundBill(k) ==
    LET scored == Rounds[k].scored
        visitors == Rounds[k].visitors - scored
    IN  [players |-> scored, visitors |-> visitors, yen |-> 100 * scored + 10 * visitors]

TenantBillingFits(name, q, d) ==
    CASE name = "upload" -> d = Rounds[q.competition].scored
      [] name = "billing" -> d = [k \in 1..q.competition |-> RoundBill(k)]
      [] OTHER -> TRUE

JobFits(name, q, d) ==
    CASE name = "job_list" -> d.players \ d.disqualified # {}
      [] name = "job_upload" -> d = Len(q.rows)
      [] OTHER -> TRUE

(* Only the sum of the page is looked at. *)
AdminBillingFits(name, q, d, before) ==
    CASE name = "page" -> DOMAIN d # {}
      [] name = "page_again" -> Total(d) = Total(before) + 100 * PlayersDrawn
      [] OTHER -> JobFits(name, q, d)

(* The answer to step s of check c, if before is the one it keeps. *)
Fits(c, s, q, a, before, billing) ==
    /\ a.status = s.status
    /\ a.status = 200 =>
          CASE c = "allAPI" -> AllApiFits(s.name, a.data, before, billing)
            [] c = "ranking" -> RankingFits(s.name, a.data)
            [] c = "badRequest" -> BadRequestFits(s.name, a.data)
            [] c = "billing" -> BillingFits(q, a.data, billing)
            [] c = "players" -> PlayersFits(s.name, q, a.data, before)
            [] c = "tenantBilling" -> TenantBillingFits(s.name, q, a.data)
            [] c = "adminBilling" -> AdminBillingFits(s.name, q, a.data, before)
            [] c = "popular" -> JobFits(s.name, q, a.data)
            [] OTHER -> TRUE

(* The answers that are kept to compare later ones with. *)
Remembered(c, s) ==
    <<c, s.name>> \in {<<"allAPI", "upload">>, <<"players", "ranking_before">>,
                       <<"adminBilling", "page">>}
=============================================================================
