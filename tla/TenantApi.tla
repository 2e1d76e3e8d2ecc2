------------------------------ MODULE TenantApi ------------------------------
(***************************************************************************)
(* The HTTP API of one tenant (webapp/go/isuports.go): every request is a  *)
(* goroutine that runs one handler, each handler a sequence of statements  *)
(* on the tenant's SQLite file and on the shared MySQL, and nothing but    *)
(* the tenant's lock file (flockByTenantID) orders two of them.  An action *)
(* is one statement, or a run of statements no other handler can tell      *)
(* apart from one.  Requests have passed parseViewer with the right role.  *)
(***************************************************************************)
EXTENDS Integers, Sequences, FiniteSets

CONSTANTS
    Request,            \* goroutines: each serves one request at a time
    Player,             \* ids dispenseID may give to a participant
    Competition,        \* ids dispenseID may give to a competition
    InitPlayers,        \* participants and competitions that are in the
    InitCompetitions,   \*   tables before the first request
    CSV,                \* the score files clients upload
    Malformed,          \* those with a row that does not parse
    Api,                \* the endpoints clients call in this instance
    Faults,             \* subset of {"statement", "crash"}
    MaxNow,             \* bound on the clock, in seconds
    MaxNames,           \* bound on display_name[] of one players/add
    NULL,               \* SQL NULL of competition.finished_at
    NoOne               \* the lock file is not locked

Endpoints == {"score", "finish", "ranking", "player", "billing",
              "competitions", "disqualified", "players_add", "competitions_add"}

ASSUME ConstantsAssumption ==
    /\ InitPlayers \subseteq Player
    /\ InitCompetitions \subseteq Competition
    /\ CSV # {} /\ CSV \subseteq Seq([player : Player, score : Int])
    /\ Malformed \subseteq CSV
    /\ Api \subseteq Endpoints
    /\ MaxNow \in Nat /\ MaxNames \in Nat
    /\ NULL \notin Int
    /\ NoOne \notin Request

VARIABLES
    player,         \* ids in table player
    disqualified,   \*   those with is_disqualified
    competition,    \* ids in table competition
    finishedAt,     \*   finished_at of each: NULL or a time
    playerScore,    \* table player_score, as the rows of each competition
    visitHistory,   \* table visit_history of the admin database
    dispensed,      \* ids handed out so far
    flock,          \* who holds the tenant's lock file
    now,            \* time.Now().Unix()
    pc,             \* the statement each request executes next
    req,            \* the handler's local variables
    answer          \* the last response sent

tables == <<player, disqualified, competition, finishedAt, playerScore,
            visitHistory, dispensed>>
vars == <<tables, flock, now, pc, req, answer>>

-----------------------------------------------------------------------------
(* Rows of player_score: the file's line, numbered from 1 after the header. *)
Row == [player : Player, score : Int, rowNum : Nat]
RowOf(csv, i) == [player |-> csv[i].player, score |-> csv[i].score, rowNum |-> i]
RowsUpTo(csv, k) == {RowOf(csv, i) : i \in 1..k}
Scored(rows) == {row.player : row \in rows}

Visit == [player : Player, competition : Competition, at : Nat]

(* A billing report names the participants it counts; the amounts follow. *)
Report == [competition : Competition, player : SUBSET Player, visitor : SUBSET Player]

StatusCode == {0, 200, 400, 401, 403, 404, 500}    \* 0: no response yet
Response(api, code, c, rows, reports, finished) ==
    [api |-> api, status |-> code, competition |-> c, rows |-> rows, reports |-> reports,
     finished |-> finished]
Status(api, code) == Response(api, code, NULL, {}, {}, {})
NoAnswer == Status("none", 0)

Idle == [competition |-> NULL, player |-> NULL, csv |-> <<>>, next |-> 0, at |-> NULL,
         fin |-> NULL, visitors |-> {}, todo |-> {}, reports |-> {},
         settled |-> {}]    \* settled: history, read by no statement

Init ==
    /\ player = InitPlayers
    /\ disqualified = {}
    /\ competition = InitCompetitions
    /\ finishedAt = [c \in Competition |-> NULL]
    /\ playerScore = [c \in Competition |-> {}]
    /\ visitHistory = {}
    /\ dispensed = InitPlayers \cup InitCompetitions
    /\ flock = NoOne
    /\ now = 1
    /\ pc = [r \in Request |-> "idle"]
    /\ req = [r \in Request |-> Idle]
    /\ answer = NoAnswer

-----------------------------------------------------------------------------
(* A new request on api reaches a free goroutine. *)
Receive(r, api) == pc[r] = "idle" /\ api \in Api

Goto(r, label) == pc' = [pc EXCEPT ![r] = label]

(* fl.Lock(): blocks while another open file description has the lock. *)
Lock(r, from, to) ==
    /\ pc[r] = from
    /\ flock = NoOne
    /\ flock' = r
    /\ Goto(r, to)
    /\ UNCHANGED <<tables, now, req, answer>>

(* Mutant: the deferred fl.Close() is forgotten. *)
UnlockForgotten(r) == UNCHANGED flock

(* fl.Close(), deferred until the function that locked returns. *)
Unlock(r) == flock' = IF flock = r THEN NoOne ELSE flock

(* The handler returns: deferred calls run and the response is sent. *)
Return(r, response) ==
    /\ Goto(r, "idle")
    /\ req' = [req EXCEPT ![r] = Idle]
    /\ answer' = response
    /\ Unlock(r)

(* Mutant: is_disqualified is not looked at. *)
AuthorizedIfKnown(p) == p \in player

(* authorizePlayer: 401 for an unknown participant, 403 for a disqualified one. *)
Unauthorized(p) == IF p \notin player THEN 401 ELSE 403
Authorized(p) == p \in player /\ p \notin disqualified

-----------------------------------------------------------------------------
(* POST /api/organizer/competition/:competition_id/score *)

(* Mutant: finished_at is not looked at. *)
AcceptsScoresAlways(c) == c \in competition

AcceptsScores(c) == finishedAt[c] = NULL

(* retrieveCompetition and the check that it still runs, before the lock.  A *)
(* file whose header is wrong is turned away here too.                       *)
ScoreReceive(r) ==
    /\ Receive(r, "score")
    /\ \E c \in competition, csv \in CSV :
          /\ AcceptsScores(c)
          /\ req' = [req EXCEPT ![r].competition = c, ![r].csv = csv]
    /\ Goto(r, "score_lock")
    /\ UNCHANGED <<tables, flock, now, answer>>

ScoreRefuse(r) ==
    /\ Receive(r, "score")
    /\ \/ \E c \in Competition \ competition : Return(r, Status("score", 404))
       \/ \E c \in competition : ~AcceptsScores(c) /\ Return(r, Status("score", 400))
       \/ \E code \in {400, 500} : Return(r, Status("score", code))   \* no file, or its header
    /\ UNCHANGED <<tables, now>>

(* Mutant: the upload does not take the lock. *)
ScoreLockSkipped(r) ==
    /\ pc[r] = "score_lock"
    /\ Goto(r, "score_parse")
    /\ UNCHANGED <<tables, flock, now, req, answer>>

ScoreLock(r) == Lock(r, "score_lock", "score_parse")

(* The loop over the file: every participant is looked up and every score  *)
(* parsed before anything is written.  Participants are never deleted, so  *)
(* the lookups of the loop are one.                                        *)
Acceptable(csv) == csv \notin Malformed /\ \A i \in DOMAIN csv : csv[i].player \in player

ScoreParse(r) ==
    /\ pc[r] = "score_parse"
    /\ \/ /\ Acceptable(req[r].csv)
          /\ Goto(r, "score_delete")
          /\ UNCHANGED <<flock, req, answer>>
       \/ /\ ~Acceptable(req[r].csv)
          /\ \E code \in {400, 500} : Return(r, Status("score", code))  \* 500: not two columns
    /\ UNCHANGED <<tables, now>>

ScoreDelete(r) ==
    /\ pc[r] = "score_delete"
    /\ playerScore' = [playerScore EXCEPT ![req[r].competition] = {}]
    /\ req' = [req EXCEPT ![r].next = 1]
    /\ Goto(r, "score_insert")
    /\ UNCHANGED <<player, disqualified, competition, finishedAt, visitHistory,
                   dispensed, flock, now, answer>>

(* One INSERT per row, no transaction around them. *)
ScoreInsert(r) ==
    /\ pc[r] = "score_insert"
    /\ req[r].next \in DOMAIN req[r].csv
    /\ playerScore' = [playerScore EXCEPT ![req[r].competition] =
                          @ \cup {RowOf(req[r].csv, req[r].next)}]
    /\ req' = [req EXCEPT ![r].next = @ + 1]
    /\ UNCHANGED <<player, disqualified, competition, finishedAt, visitHistory,
                   dispensed, flock, now, pc, answer>>

ScoreReturn(r) ==
    /\ pc[r] = "score_insert"
    /\ req[r].next \notin DOMAIN req[r].csv
    /\ Return(r, Status("score", 200))
    /\ UNCHANGED <<tables, now>>

-----------------------------------------------------------------------------
(* POST /api/organizer/competition/:competition_id/finish *)

(* Mutant: the time of the request is not taken. *)
FinishReceiveUntimed(r) ==
    /\ Receive(r, "finish")
    /\ \E c \in competition : req' = [req EXCEPT ![r].competition = c]
    /\ Goto(r, "finish_update")
    /\ UNCHANGED <<tables, flock, now, answer>>

FinishReceive(r) ==
    /\ Receive(r, "finish")
    /\ \/ \E c \in competition :
             /\ req' = [req EXCEPT ![r].competition = c, ![r].at = now]
             /\ Goto(r, "finish_update")
             /\ UNCHANGED <<flock, answer>>
       \/ \E c \in Competition \ competition : Return(r, Status("finish", 404))
    /\ UNCHANGED <<tables, now>>

(* The UPDATE does not look at the old finished_at and takes no lock. *)
FinishUpdate(r) ==
    /\ pc[r] = "finish_update"
    /\ finishedAt' = [finishedAt EXCEPT ![req[r].competition] = req[r].at]
    /\ Return(r, Status("finish", 200))
    /\ UNCHANGED <<player, disqualified, competition, playerScore, visitHistory,
                   dispensed, now>>

-----------------------------------------------------------------------------
(* GET /api/player/competition/:competition_id/ranking *)

RankingReceive(r) ==
    /\ Receive(r, "ranking")
    /\ \E p \in Player :
          \/ /\ Authorized(p)
             /\ req' = [req EXCEPT ![r].player = p]
             /\ Goto(r, "ranking_competition")
             /\ UNCHANGED <<flock, answer>>
          \/ /\ ~Authorized(p)
             /\ Return(r, Status("ranking", Unauthorized(p)))
    /\ UNCHANGED <<tables, now>>

(* retrieveCompetition, then the time of the visit. *)
RankingCompetition(r) ==
    /\ pc[r] = "ranking_competition"
    /\ \/ \E c \in competition :
             /\ req' = [req EXCEPT ![r].competition = c, ![r].fin = finishedAt[c],
                                   ![r].at = now]
             /\ Goto(r, "ranking_visit")
             /\ UNCHANGED <<flock, answer>>
       \/ \E c \in Competition \ competition : Return(r, Status("ranking", 404))
    /\ UNCHANGED <<tables, now>>

(* The visit is recorded before rank_after is parsed and before the lock. *)
RankingVisit(r) ==
    /\ pc[r] = "ranking_visit"
    /\ visitHistory' = visitHistory \cup
          {[player |-> req[r].player, competition |-> req[r].competition, at |-> req[r].at]}
    /\ \/ /\ Goto(r, "ranking_lock")
          /\ UNCHANGED <<flock, req, answer>>
       \/ Return(r, Status("ranking", 500))   \* rank_after is not a number
    /\ UNCHANGED <<player, disqualified, competition, finishedAt, playerScore,
                   dispensed, now>>

(* Mutant: the ranking is read without the lock. *)
RankingLockSkipped(r) ==
    /\ pc[r] = "ranking_lock"
    /\ Goto(r, "ranking_read")
    /\ UNCHANGED <<tables, flock, now, req, answer>>

RankingLock(r) == Lock(r, "ranking_lock", "ranking_read")

(* The SELECT under the lock; module Ranking says which page it becomes. *)
RankingRead(r) ==
    /\ pc[r] = "ranking_read"
    /\ LET c == req[r].competition IN
       Return(r, Response("ranking", 200, c, playerScore[c], {},
                          IF req[r].fin = NULL THEN {} ELSE {c}))
    /\ UNCHANGED <<tables, now>>

-----------------------------------------------------------------------------
(* GET /api/player/player/:player_id *)

PlayerReceive(r) ==
    /\ Receive(r, "player")
    /\ \E viewer \in Player :
          \/ /\ Authorized(viewer)
             /\ Goto(r, "player_retrieve")
             /\ UNCHANGED <<flock, req, answer>>
          \/ /\ ~Authorized(viewer)
             /\ Return(r, Status("player", Unauthorized(viewer)))
    /\ UNCHANGED <<tables, now>>

(* retrievePlayer and the list of competitions. *)
PlayerRetrieve(r) ==
    /\ pc[r] = "player_retrieve"
    /\ \/ \E p \in player :
             /\ req' = [req EXCEPT ![r].player = p, ![r].todo = competition]
             /\ Goto(r, "player_lock")
             /\ UNCHANGED <<flock, answer>>
       \/ \E p \in Player \ player : Return(r, Status("player", 404))
    /\ UNCHANGED <<tables, now>>

PlayerLock(r) == Lock(r, "player_lock", "player_read")

(* ORDER BY row_num DESC LIMIT 1 of each listed competition, all under the lock. *)
LastRow(rows, p) ==
    {row \in rows : row.player = p /\ \A other \in rows :
                       other.player = p => other.rowNum <= row.rowNum}

PlayerRead(r) ==
    /\ pc[r] = "player_read"
    /\ Return(r, Response("player", 200, NULL,
                 UNION {LastRow(playerScore[c], req[r].player) : c \in req[r].todo}, {}, {}))
    /\ UNCHANGED <<tables, now>>

-----------------------------------------------------------------------------
(* GET /api/organizer/billing: billingReportByCompetition for each competition *)

(* The report: scored participants replace the visitors of the same id in    *)
(* billingMap, and nothing is counted while the competition runs.            *)
ReportOf(c, fin, visitors, scored) ==
    [competition |-> c,
     player |-> IF fin = NULL THEN {} ELSE scored,
     visitor |-> IF fin = NULL THEN {} ELSE visitors \ scored]

(* Mutant: MAX(created_at). *)
LastVisit(p, c, t) ==
    /\ [player |-> p, competition |-> c, at |-> t] \in visitHistory
    /\ \A v \in visitHistory : v.player = p /\ v.competition = c => v.at <= t

(* MIN(created_at) per participant, against finished_at. *)
FirstVisit(p, c, t) ==
    /\ [player |-> p, competition |-> c, at |-> t] \in visitHistory
    /\ \A v \in visitHistory : v.player = p /\ v.competition = c => t <= v.at
VisitorsInTime(c, fin) ==
    {p \in Player : \E t \in 1..now : FirstVisit(p, c, t) /\ (fin = NULL \/ fin >= t)}

(* The bill of a competition as its tables give it. *)
Bill(c) == ReportOf(c, finishedAt[c], VisitorsInTime(c, finishedAt[c]), Scored(playerScore[c]))

(* Upload r of competition c is past its check. *)
Uploading(r, c) ==
    /\ pc[r] \in {"score_lock", "score_parse", "score_delete", "score_insert"}
    /\ req[r].competition = c

Finished(c) == finishedAt[c] # NULL
Drained(c) == Finished(c) /\ \A r \in Request : ~Uploading(r, c)

(* Nothing in flight can still change the bill: no upload, no visit stamped    *)
(* before the finish, and the clock has left the second of the finish.         *)
Settled(c) ==
    /\ Drained(c)
    /\ now > finishedAt[c]
    /\ \A r \in Request : pc[r] = "ranking_visit" /\ req[r].competition = c =>
                             req[r].at > finishedAt[c]

(* Settled competitions that no finish in flight is about to reopen. *)
SettledBills ==
    {<<c, finishedAt[c]>> : c \in
        {d \in Competition : Settled(d) /\ \A r \in Request :
                                ~(pc[r] = "finish_update" /\ req[r].competition = d)}}

BillingReceive(r) ==
    /\ Receive(r, "billing")
    /\ \/ /\ competition # {}
          /\ req' = [req EXCEPT ![r].todo = competition, ![r].settled = SettledBills]
          /\ Goto(r, "billing_competition")
          /\ UNCHANGED <<flock, answer>>
       \/ competition = {} /\ Return(r, Status("billing", 200))
    /\ UNCHANGED <<tables, now>>

(* The order in which the loop visits the competitions is left open. *)
BillingCompetition(r) ==
    /\ pc[r] = "billing_competition"
    /\ \E c \in req[r].todo :
          req' = [req EXCEPT ![r].competition = c, ![r].fin = finishedAt[c],
                             ![r].todo = @ \ {c}]
    /\ Goto(r, "billing_visits")
    /\ UNCHANGED <<tables, flock, now, answer>>

(* Mutant: visits after the finish count too. *)
BillingVisitsAnyTime(r) ==
    /\ pc[r] = "billing_visits"
    /\ req' = [req EXCEPT ![r].visitors = VisitorsInTime(req[r].competition, NULL)]
    /\ Goto(r, "billing_lock")
    /\ UNCHANGED <<tables, flock, now, answer>>

BillingVisits(r) ==
    /\ pc[r] = "billing_visits"
    /\ req' = [req EXCEPT ![r].visitors = VisitorsInTime(req[r].competition, req[r].fin)]
    /\ Goto(r, "billing_lock")
    /\ UNCHANGED <<tables, flock, now, answer>>

BillingLock(r) == Lock(r, "billing_lock", "billing_count")

(* The SELECT DISTINCT under the lock joins what was read before it. *)
ReportNow(r) == ReportOf(req[r].competition, req[r].fin, req[r].visitors,
                         Scored(playerScore[req[r].competition]))

BillingCount(r) ==
    /\ pc[r] = "billing_count"
    /\ LET reports == req[r].reports \cup {ReportNow(r)}
       IN \/ /\ req[r].todo # {}
             /\ req' = [req EXCEPT ![r].reports = reports]
             /\ Goto(r, "billing_competition")
             /\ Unlock(r)
             /\ UNCHANGED answer
          \/ /\ req[r].todo = {}
             /\ Return(r, Response("billing", 200, NULL, {}, reports, {}))
    /\ UNCHANGED <<tables, now>>

-----------------------------------------------------------------------------
(* GET /api/player/competitions and /api/organizer/competitions *)

CompetitionsReceive(r) ==
    /\ Receive(r, "competitions")
    /\ \/ Goto(r, "competitions_select") /\ UNCHANGED <<flock, req, answer>>
       \/ \E p \in Player :
             /\ ~Authorized(p)
             /\ Return(r, Status("competitions", Unauthorized(p)))
    /\ UNCHANGED <<tables, now>>

CompetitionsSelect(r) ==
    /\ pc[r] = "competitions_select"
    /\ Return(r, Response("competitions", 200, NULL, {}, {},
                          {c \in competition : finishedAt[c] # NULL}))
    /\ UNCHANGED <<tables, now>>

(* POST /api/organizer/player/:player_id/disqualified: the UPDATE comes first *)
(* and hits no row for an unknown id, then the participant is read back.      *)
DisqualifiedUpdate(r) ==
    /\ Receive(r, "disqualified")
    /\ \E p \in Player :
          /\ disqualified' = disqualified \cup ({p} \cap player)
          /\ req' = [req EXCEPT ![r].player = p]
    /\ Goto(r, "disqualified_retrieve")
    /\ UNCHANGED <<player, competition, finishedAt, playerScore, visitHistory,
                   dispensed, flock, now, answer>>

DisqualifiedRetrieve(r) ==
    /\ pc[r] = "disqualified_retrieve"
    /\ Return(r, Status("disqualified", IF req[r].player \in player THEN 200 ELSE 404))
    /\ UNCHANGED <<tables, now>>

(* POST /api/organizer/players/add: for each name an id, then an INSERT. *)
PlayersAddReceive(r) ==
    /\ Receive(r, "players_add")
    /\ \/ \E n \in 1..MaxNames :
             /\ req' = [req EXCEPT ![r].next = n]
             /\ Goto(r, "players_add_dispense")
             /\ UNCHANGED <<flock, answer>>
       \/ Return(r, Status("players_add", 200))    \* no name
    /\ UNCHANGED <<tables, now>>

PlayersAddDispense(r) ==
    /\ pc[r] = "players_add_dispense"
    /\ \/ \E id \in Player \ dispensed :
             /\ dispensed' = dispensed \cup {id}
             /\ req' = [req EXCEPT ![r].player = id]
             /\ Goto(r, "players_add_insert")
             /\ UNCHANGED <<flock, answer>>
       \/ /\ Player \subseteq dispensed          \* dispenseID gave up
          /\ Return(r, Status("players_add", 500))
          /\ UNCHANGED dispensed
    /\ UNCHANGED <<player, disqualified, competition, finishedAt, playerScore,
                   visitHistory, now>>

PlayersAddInsert(r) ==
    /\ pc[r] = "players_add_insert"
    /\ player' = player \cup {req[r].player}
    /\ \/ /\ req[r].next > 1
          /\ req' = [req EXCEPT ![r].next = @ - 1]
          /\ Goto(r, "players_add_dispense")
          /\ UNCHANGED <<flock, answer>>
       \/ req[r].next <= 1 /\ Return(r, Status("players_add", 200))
    /\ UNCHANGED <<disqualified, competition, finishedAt, playerScore, visitHistory,
                   dispensed, now>>

(* POST /api/organizer/competitions/add *)
CompetitionsAddDispense(r) ==
    /\ Receive(r, "competitions_add")
    /\ \E id \in Competition \ dispensed :
          /\ dispensed' = dispensed \cup {id}
          /\ req' = [req EXCEPT ![r].competition = id]
    /\ Goto(r, "competitions_add_insert")
    /\ UNCHANGED <<player, disqualified, competition, finishedAt, playerScore,
                   visitHistory, flock, now, answer>>

CompetitionsAddInsert(r) ==
    /\ pc[r] = "competitions_add_insert"
    /\ competition' = competition \cup {req[r].competition}
    /\ Return(r, Status("competitions_add", 200))
    /\ UNCHANGED <<player, disqualified, finishedAt, playerScore, visitHistory,
                   dispensed, now>>

-----------------------------------------------------------------------------
(* A statement (or fl.Lock) fails, "database is locked" or a lost connection:  *)
(* the handler returns the error and the client gets 500.                      *)
StatementFails(r) ==
    /\ "statement" \in Faults
    /\ pc[r] # "idle"
    /\ Return(r, Status("error", 500))
    /\ UNCHANGED <<tables, now>>

(* The process dies and is restarted: what was committed stays, the kernel     *)
(* drops the locks of its file descriptions.                                   *)
Crash ==
    /\ "crash" \in Faults
    /\ \E r \in Request : pc[r] # "idle"
    /\ pc' = [r \in Request |-> "idle"]
    /\ req' = [r \in Request |-> Idle]
    /\ flock' = NoOne
    /\ UNCHANGED <<tables, now, answer>>

Tick ==
    /\ now < MaxNow
    /\ now' = now + 1
    /\ UNCHANGED <<tables, flock, pc, req, answer>>

-----------------------------------------------------------------------------
ReceiveStep(r) ==
    \/ ScoreReceive(r) \/ ScoreRefuse(r) \/ FinishReceive(r) \/ RankingReceive(r)
    \/ PlayerReceive(r) \/ BillingReceive(r) \/ CompetitionsReceive(r)
    \/ DisqualifiedUpdate(r) \/ PlayersAddReceive(r) \/ CompetitionsAddDispense(r)

LockStep(r) == ScoreLock(r) \/ RankingLock(r) \/ PlayerLock(r) \/ BillingLock(r)

HandlerStep(r) ==
    \/ ScoreParse(r) \/ ScoreDelete(r) \/ ScoreInsert(r) \/ ScoreReturn(r)
    \/ FinishUpdate(r)
    \/ RankingCompetition(r) \/ RankingVisit(r) \/ RankingRead(r)
    \/ PlayerRetrieve(r) \/ PlayerRead(r)
    \/ BillingCompetition(r) \/ BillingVisits(r) \/ BillingCount(r)
    \/ CompetitionsSelect(r) \/ DisqualifiedRetrieve(r)
    \/ PlayersAddDispense(r) \/ PlayersAddInsert(r) \/ CompetitionsAddInsert(r)

Next ==
    \/ \E r \in Request : ReceiveStep(r) \/ LockStep(r) \/ HandlerStep(r) \/ StatementFails(r)
    \/ Crash
    \/ Tick

Spec == Init /\ [][Next]_vars

(* A running goroutine is scheduled again, so its next statement happens; the  *)
(* kernel hands a contended flock to its waiters in turn, so one that finds    *)
(* the lock free again and again gets it.  Clients need not call, and time     *)
(* need not pass.                                                              *)
Fairness == \A r \in Request : WF_vars(HandlerStep(r)) /\ SF_vars(LockStep(r))
FairSpec == Spec /\ Fairness

-----------------------------------------------------------------------------
(* Properties *)

Labels == {"idle", "score_lock", "score_parse", "score_delete", "score_insert",
           "finish_update", "ranking_competition", "ranking_visit", "ranking_lock",
           "ranking_read", "player_retrieve", "player_lock", "player_read",
           "billing_competition", "billing_visits", "billing_lock", "billing_count",
           "competitions_select", "disqualified_retrieve", "players_add_dispense",
           "players_add_insert", "competitions_add_insert"}

Local == [competition : Competition \cup {NULL}, player : Player \cup {NULL},
          csv : CSV \cup {<<>>}, next : Nat, at : Nat \cup {NULL}, fin : Nat \cup {NULL},
          visitors : SUBSET Player, todo : SUBSET Competition, reports : SUBSET Report,
          settled : SUBSET (Competition \X Nat)]

TablesOK ==
    /\ player \subseteq Player /\ disqualified \subseteq Player
    /\ competition \subseteq Competition
    /\ finishedAt \in [Competition -> Nat \cup {NULL}]
    /\ playerScore \in [Competition -> SUBSET Row]
    /\ visitHistory \subseteq Visit
    /\ dispensed \subseteq Player \cup Competition
    /\ now \in Nat

ControlOK == pc \in [Request -> Labels] /\ flock \in Request \cup {NoOne}

(* The labels at which a local has been given a value and is still needed. *)
NeedsCompetition == {"score_lock", "score_parse", "score_delete", "score_insert",
                     "finish_update", "ranking_visit", "ranking_lock", "ranking_read",
                     "billing_visits", "billing_lock", "billing_count",
                     "competitions_add_insert"}
NeedsPlayer == {"ranking_competition", "ranking_visit", "ranking_lock", "ranking_read",
                "player_lock", "player_read", "disqualified_retrieve", "players_add_insert"}
NeedsCsv == {"score_lock", "score_parse", "score_delete", "score_insert"}
NeedsTime == {"finish_update", "ranking_visit"}

LocalsOK ==
    /\ req \in [Request -> Local]
    /\ \A r \in Request :
          /\ pc[r] \in NeedsCompetition => req[r].competition \in Competition
          /\ pc[r] \in NeedsPlayer => req[r].player \in Player
          /\ pc[r] \in NeedsCsv => req[r].csv \in CSV
          /\ pc[r] \in NeedsTime => req[r].at \in Nat

Answer == [api : Endpoints \cup {"none", "error"}, status : StatusCode,
           competition : Competition \cup {NULL}, rows : SUBSET Row,
           reports : SUBSET Report, finished : SUBSET Competition]

AnswerOK == answer \in Answer

(* Every table, lock, program counter, local and response has its type, and   *)
(* no handler reads a local it has not set.                                    *)
TypeOK == TablesOK /\ ControlOK /\ LocalsOK /\ AnswerOK

(* The statements a handler executes between fl.Lock() and fl.Close(). *)
Locked == {"score_parse", "score_delete", "score_insert", "ranking_read",
           "player_read", "billing_count"}

(* flockByTenantID excludes: exactly the handler between its fl.Lock() and     *)
(* its deferred fl.Close() holds the tenant's lock file, on every return path. *)
FlockExcludes == \A r \in Request : pc[r] \in Locked <=> flock = r

Whole(csv) == RowsUpTo(csv, Len(csv))

(* From its DELETE on, an upload owns the lock and nobody can look: the board  *)
(* already is what the file says.                                              *)
Board(c) ==
    IF \E r \in Request : pc[r] = "score_insert" /\ req[r].competition = c
    THEN Whole(req[CHOOSE r \in Request : pc[r] = "score_insert" /\ req[r].competition = c].csv)
    ELSE playerScore[c]

(* player_score of a competition never mixes two uploads, whatever fails:      *)
(* it is the first rows of a single file ("only the last CSV is reflected").   *)
OneFileOnly ==
    \A c \in Competition : \E csv \in CSV : \E k \in 0..Len(csv) :
        playerScore[c] = RowsUpTo(csv, k)

(* The upload that is inserting has put in its file up to the next row, and    *)
(* nothing else.                                                               *)
UploadInProgress ==
    \A r \in Request : pc[r] = "score_insert" =>
        /\ req[r].next \in 1..(Len(req[r].csv) + 1)
        /\ playerScore[req[r].competition] = RowsUpTo(req[r].csv, req[r].next - 1)

(* The request's upload that is about to run its DELETE is of c. *)
Uploads(r, c) == pc[r] = "score_delete" /\ req[r].competition = c

(* While nothing fails, the board of a competition changes only when an upload *)
(* runs its DELETE, and from then on is the whole file of that upload; and     *)
(* every ranking that is read is answered 200 with the board, at that moment,  *)
(* of the competition it was asked for: never with the table between the       *)
(* DELETE and the last INSERT, empty or not (what the comment at               *)
(* isuports.go:1046 locks for), and empty only before the first upload or      *)
(* after an empty file.                                                        *)
RankingShowsWholeUpload ==
    [][/\ \A c \in Competition :
             Board(c)' # Board(c) =>
                \E r \in Request : Uploads(r, c) /\ Board(c)' = Whole(req[r].csv)
       /\ \A r \in Request :
             pc[r] = "ranking_read" /\ pc'[r] = "idle" =>
                /\ answer'.api = "ranking" /\ answer'.status = 200
                /\ answer'.competition = req[r].competition
                /\ answer'.rows = Board(req[r].competition)]_vars

(* A finished competition stays finished, and once no upload that was checked  *)
(* before the finish is left, no new one gets in and its scores never change.  *)
DrainedScoresAreFinal ==
    [][\A c \in Competition :
          /\ Finished(c) => Finished(c)'
          /\ Drained(c) => Drained(c)' /\ playerScore'[c] = playerScore[c]]_vars

(* The bill of a settled competition is final as long as it is not finished a  *)
(* second time: what makes the billing report cacheable.                       *)
SettledBillIsFinal ==
    [][\A c \in Competition :
          Settled(c) /\ finishedAt'[c] = finishedAt[c] =>
             Settled(c)' /\ Bill(c)' = Bill(c)]_vars

(* billingReportByCompetition reads the competition, the visits and the scores *)
(* at three times; for a competition that was settled when the request came    *)
(* and has not been finished again, the report is nevertheless its bill.       *)
SettledBillIsReported ==
    \A r \in Request : LET c == req[r].competition IN
        pc[r] = "billing_count" /\ <<c, finishedAt[c]>> \in req[r].settled =>
            ReportNow(r) = Bill(c)

(* A billing answer never charges a competition that is still running.         *)
ChargesOnlyFinished ==
    \A report \in answer.reports :
        report.player \cup report.visitor # {} => Finished(report.competition)

(* Requests of p that authorizePlayer let pass and that still record a visit.  *)
VisitPending(p) ==
    \E r \in Request : pc[r] \in {"ranking_competition", "ranking_visit"} /\ req[r].player = p

(* Disqualification is for ever, and once the ranking requests that were       *)
(* authorized before it are through, the participant leaves no more visits.    *)
DisqualifiedStaysOut ==
    [][\A p \in Player :
          p \in disqualified =>
             /\ p \in disqualified'
             /\ ~VisitPending(p) =>
                   /\ ~VisitPending(p)'
                   /\ \A v \in visitHistory' \ visitHistory : v.player # p]_vars

(* Every request is answered: no handler waits for the lock for ever.          *)
EveryRequestAnswered == \A r \in Request : []<>(pc[r] = "idle")

(* The page a client sees in the last response. *)
Shown ==
    IF answer.status = 200 /\ answer.api \in {"ranking", "player"}
    THEN [page |-> answer.api, competition |-> answer.competition, rows |-> answer.rows]
    ELSE [page |-> "none", competition |-> NULL, rows |-> {}]

Abstract == INSTANCE ScoreBoard WITH
    board <- [c \in Competition |-> Board(c)],
    shown <- Shown,
    MayBreakOff <- Faults # {}

(* The handlers, with the lock and their separate statements, implement the    *)
(* board on which an upload is one step and a ranking or a participant's page, *)
(* empty or not, shows it as it is at one instant.                             *)
ImplementsScoreBoard == Abstract!BoardSpec
============================================================================
