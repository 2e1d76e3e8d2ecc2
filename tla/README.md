# isucon12-qualify in TLA+

Specifications, model-checking configurations and proofs for ISUPORTS, the web
application of the ISUCON 12 qualifier, and for the benchmarker that drives and
judges it. The Go implementation (`src/webapp/go/isuports.go`) and the Go
benchmarker (`src/bench/`) are what is modelled; the ports of the application to
other languages are not.

`PROJECT.json` maps every definition to the lines it stands for and lists the
runs, the hazards, the disagreements found and the theorems.

## 1. The system

### 1.1 Components, their state and their operations

| component | state | operations | must be true of it |
|---|---|---|---|
| **Tenant API: scores** (`isuports.go`) | `player_score`, `competition.finished_at` in the tenant's SQLite file; the tenant's lock file | `score` (CSV upload: look at `finished_at`, lock, parse all rows, DELETE, one INSERT per row), `finish` (UPDATE), `ranking` and `player` (read under the lock) | uploads of a competition do not mix; a reader sees a whole upload; scores stop changing after the finish |
| **Tenant API: billing** | `visit_history` in the shared MySQL, written by `ranking` | `billing` (per competition: read it, read the visits, lock, read the scores) | only finished competitions are charged; a bill once settled stays |
| **Tenant API: participants, competitions** | `player`, `competition`; `id_generator` in MySQL | `players/add`, `player/:id/disqualified`, `competitions/add`, the lists | who is disqualified is out |
| **Ranking pages** (`isuports.go`, `usePagerLoader.ts`, `SingleCompetitionView.vue`) | in the browser: the list so far and the next `rank_after` | SELECT, one row per participant, sort, cut; load the next page | a page is the documented ranking; pages fit together |
| **Admin API** (`isuports.go`) | `tenant` in MySQL, one SQLite file per tenant | `tenants/add` (row, then `sqlite3` creates the file), `tenants/billing` (ten tenants a page) | a walk over the pages ends and shows every tenant once |
| **Identifiers** (`data.go`, `isuports.go`, `init.sql`) | `idMap`, `id_generator` | `genID`, `storeMaxID`, `dispenseID` (REPLACE, up to 100 times on deadlock) | no id twice |
| **POST /initialize** (`isuports.go`, `init.sh`) | tables and files | replaces them while handlers may run | no row is lost that was added alone |
| **Authentication** | none (JWT, host name) | `parseViewer`, `retrieveTenantRowFromHeader`, `authorizePlayer` | a viewer acts in its own tenant and role only |
| **Benchmarker: load** (`bench/scenario*.go`) | three channels of ten, counters of errors, wait groups | `Load`'s select loop; workers that find errors, start workers, end | every error counts; the load ends |
| **Benchmarker: score** (`bench/cmd/bench/main.go`) | the errors of the run | deductions by kind, clamped | every error is taken off once |
| **Benchmarker: organizer job** (`bench/job_organizer.go`) | `doneCh`, the players read, `kickedWorkerPlayerIDMap` | uploads, rankers, starting players, finish | the goroutines end; what it returns is what is charged |
| **Benchmarker: player worker** (`bench/scenario_player.go`) | the list it goes through, the competition it is at, `SlowResponseCount` | list, ranking once or twice, pages of players, sleeps | it rests between rankings and ends with the load |
| **Benchmarker: validation** (`bench/scenario_*valid*.go`) | recorded errors, what a check keeps of an answer | five checks at once before the load, four workers beside each other during it | a correct server passes; a deviating one is noticed |
| **Initial data** (`data/data.go`) | — | draws, batches, the bill the benchmarker is told | the bill told is the bill charged |
| **Browser: lists** (`AdminView.vue`, `CompetitionListView.vue`, their dialogs) | list, cursor, dialog | load by timer, by button, after a change | nothing is missing, what was done is shown |
| **Development login, reporter, provisioning, other implementations** | — | a token, one message, configuration | — |

### 1.2 How they interact

* A request is a goroutine in one of possibly several server processes. Two
  requests of a tenant meet in three places: the SQLite file, where every
  statement is a transaction of its own; MySQL, likewise; and the lock file
  `<tenant>.lock`, which `flockByTenantID` takes with `flock(2)` around the
  writing of scores and around every read of scores, and around nothing else.
  In particular `finish`, the reading of `finished_at` and everything about
  visits happen outside of the lock.
* `ranking` writes (a visit) before it reads; billing joins the visits with the
  competition and the scores, at three different times.
* The admin's billing opens the file of every tenant, whose row is visible
  before the file exists.
* The browser and the benchmarker are clients: they page, retry, and give up.
* In the benchmarker goroutines talk over channels and wait for each other with
  wait groups; the context's end reaches requests and sleeps, but not sends.

### 1.3 What is hard

Interleavings of statements that no lock orders; statements that fail, or a
process that dies, between two statements that belong together; values read
before a lock and used after it; times that are taken before they are stored;
pages cut from a table that changes; channels that nobody receives from any
more. Each hazard is listed at its line in `PROJECT.json` with the properties
that are about it.

## 2. The modules

| module | models | state ↔ code |
|---|---|---|
| `TenantApi` | the handlers of one tenant | tables as sets of rows and functions, `flock` the holder of the lock file, per request a program counter `pc` and the handler's locals `req`, `answer` the last response |
| `ScoreBoard` | what uploads and readers promise together | a board per competition; no lock, no statements |
| `Ranking` | one competition's rows → pages → the list in the browser | `rows`/`uploads` on the server; `ranks`, `nextId`, `noMoreLoad`, `isLoading` are `usePagerLoader`'s refs |
| `TenantRegistry` | the admin API and the benchmarker's walk over its pages | `tenant`, `lastId` (AUTO_INCREMENT), `tenantDB` (files that have their tables), `walk` (the locals of `AdminBillingScenario`) |
| `Identifiers` | ids from the initial data's generator and from MySQL, and `/initialize` under running handlers | `idMap`, `generatedMaxID` of `data.go`; `stub`, `autoIncrement` are `id_generator`; `files`/`rows` the tenants' files; `i`, `id`, `file` locals of a handler |
| `Service` | every handler as a function from a tenant's tables and a request to tables and answer | a record per tenant; no state of its own |
| `InitialData` | what `data.go` draws, stores and tells the benchmarker | sets of possible initial tenants; extends `Service` |
| `Checks` | the benchmarker's checks: requests and what must be answered | sequences of steps; extends `InitialData` |
| `Validation` | the checks as goroutines against one server, correct or deviating | `at`, `result`, `memory` of each check, `ranker`/`uploader`/`closed` (`scoreCh`), `errors` recorded; extends `Checks` |
| `BenchLoad` | `Load`, its channels and workers, and the score of the run | channel contents and lengths, `errorCount`, `criticalCount`, `pc` per worker, `ctxDone` |
| `PlayerScenario` | a player's worker beside the scenario of its tenant's organizer | `pass`, `at`, `slow` the locals of `PlayerScenario`, `pc`/`resume` where it is and where its sleep leads; `competitions` and `organizer` what it can see of the tenant |
| `OrganizerJob` | the jobs of one tenant | the locals of `OrganizerJob` and of its goroutines, `kicked`/`kicking` the map of started players and the goroutines that write it; the server is reduced to scores, visits and finishes |
| `AdminList` | the administration's page of tenants in the browser | the refs of `AdminView.vue`, `fetches` the requests under way, `added` the dialog's |
| `CompetitionList` | the organizer's page of competitions and its upload dialog | the refs of `CompetitionListView.vue` and `UploadCSVModal.vue`, `gets`/`posts` the requests |
| `MC*` | instances for TLC: model values, files, symmetry | |
| `*_proofs` | theorems about `TenantApi`, the browser's three pages (`Browser_proofs`), `TenantRegistry`, `Identifiers`, the loop of the load and the player's worker (`Load_proofs`), `OrganizerJob`, and `Service` and `Validation` (`Validation_proofs`, and `Checks_proofs`, which goes on from it, for the checks before and during the load against a correct server) | |

The modules meet as follows. `TenantApi` instances `ScoreBoard` under a
refinement mapping. `TenantApi.RankingRead` answers with rows; `Ranking` says
what pages the handler makes of them. `TenantRegistry` leaves out what a tenant
owes, which is `TenantApi.Bill`; `OrganizerJob.Bill` is that bill in numbers.
`BenchLoad` takes each goroutine of a job as a worker that may report errors and
start others; `OrganizerJob` looks into it, and `PlayerScenario` into the worker
a job starts. `MCLoad` runs `BenchLoad` and `PlayerScenario` under one end of
the load. `Service` is the web application as
one client sees it that is alone in its tenant, with whole handlers for steps;
`Validation` composes it with the benchmarker's checks and with the initial
data. `AdminList` puts pages of `tenantsBillingHandler` together that
`TenantRegistry` cuts.

### 2.1 TenantApi

An action is one SQL statement (or `flock`, or the reading of the clock)
together with the computation up to the next one, since only there other
requests can be in between. Some statements are merged where the difference
cannot be seen: the lookups of participants of an upload (rows of `player` are
never deleted), the SELECTs under one lock. `Return` is the end of a handler on
every path: it sends the response and runs the deferred `fl.Close()`, as
`Unlock`. `StatementFails` is an error of any statement, `Crash` the death and
restart of the process, which loses program counters and locks and keeps what
was committed. The clock is in seconds as `time.Now().Unix()`, and moves by
itself. An upload carries one of a set of files (`CSV`), which may be empty,
repeat a participant, name an unknown one or not parse (`Malformed`).

`req.settled` is a history variable: which competitions were settled when a
billing request came. `answer.competition` names the competition a ranking is
of, so that an empty ranking is not the same as no ranking. `Board` is the
mapping's view of a competition: the file of an upload from its DELETE on, else
the table.

### 2.2 Ranking

`Selected`, `FirstOfEach`, `Ranked`, `Page` follow the handler: ORDER BY row_num
DESC, the first row of each participant, `sort.Slice`, the skip by
`i < rankAfter`, the page of 100. The ORDER BY and the sort are `Arranged(S,
before)`, the sequence of a set's elements in an order's order, without an
algorithm: which of them a sort picks is determined because the order is total
on the rows (ties in scores go by `row_num`). What passes from the deduplication
to the sort is a set, since the sort forgets the order. `Standings` is the
documentation's definition. A page is cut when the request is served and arrives
later, uploads fall in between, answers get lost, and the component is set up
anew.

### 2.3 TenantRegistry

`AddInsert` takes an AUTO_INCREMENT value even when the name is a duplicate (as
InnoDB does). `BillingSelect` reads the rows once, `BillingTenant` opens one
tenant's file per step. The walker is a client like others, with the scenario's
rule: an empty page ends the walk, an error is retried from the same place.

### 2.4 BenchLoad, OrganizerJob and PlayerScenario

The select of `Load` is one action per case, followed by the test of the budget.
A worker is abstract: it works, may at any time find a normal or a critical
error, which it sends (blocking while the channel is full, whatever the context
says), may start another worker, may leave, and ends once it sees the context.
One that is received when the context is done makes no request and is done at
once. One that has a request under way then may still find an error:
`ReadResponse` ignores the error of `io.ReadAll`, so that a body that is cut off
is a wrong answer rather than a cancelled request. One that is starting others
goes on starting them (`ending`): the loop at `job_organizer.go:216` makes no
request and does not look at the context. `Budget` stands for two numbers that
are both 100, that of the loop and the percent of the score. `Score` is the arithmetic of `cmd/bench/main.go` on
what the run has produced: what was added, less the deductions for normal errors
(validation errors less the critical ones) and for critical ones.

`OrganizerJob` has the errgroup of a job with the test of `doneCh` before each
ranking, the request and its answer as separate steps, and requests that fail
after they have had their effect. An upload is cancelled only by the end of the
load (`UploadFails`): a request that runs into its own timeout is an error with
`net/http` of the Go version in `bench/go.mod`; that later versions report it as
`context.DeadlineExceeded`, and `ValidateResponseWithMsg` would then take it for
cancelled, is left out. `taken` is the list of players as the job has
read it; who qualifies is a set, the starter goes through the list and passes
over the others. The growth of `maxScoredPlayer` from job to job is left out (a
constant stands for it, 0 for no bound in the run, as the validation of the bill
has it), and so are the scores' values.

`PlayerScenario` has the worker request by request, both as it is and as it was
in the contest (`PlayerScenarioReproduce`, chosen once, as by the option): the
list, which may be empty; `ConstPlayerScenarioCompetitionLoopCount` competitions
out of it as it was; each one's ranking, sometimes a second time with a
`rank_after`, slow or not; some of the players in it. An answer may be wrong or
cancelled at any request. The organizer's side is `NewTenantScenario` and
`PopularTenantScenario` with a job as its four requests in order. A new tenant
is made by one run of its scenario and left by the next; an initial one may be
drawn again. Which competition and which player are drawn is left open. `busy`
is a history variable: the rankings asked for since the last sleep.

### 2.5 Identifiers

First `genID` gives ids to rows of chosen seconds (the random first id of a
second, then the next ones; it panics where the code does), then `storeMaxID`
puts the end of the range into `id_generator`, and the web application serves:
handlers dispense an id (one REPLACE per step, which MySQL may answer with a
deadlock, up to `MaxTries`) and insert a row with it. `/initialize` runs
`init.sql` and `init.sh` beside them, one statement or command a step, any of
which may fail. A handler that opened its file before `rm` writes to a file that
has no name any more (`InsertUnlinked`). Rows are counted by id, all tenants
together. `clean`, `promised` and `mixed` are history variables.

### 2.6 Service, InitialData, Checks, Validation

`Service` is every handler as one function: who is asking (`Unauthorized`, the
role, the tenant of the host), what is refused with which status, what is
written and answered. Its steps are whole requests, because its clients are
alone in their tenants or wait for their answers; what requests that meet do is
`TenantApi`'s. The two places where it sorts (`Ordered`) take the enumeration of
a finite set along a total order, ties going by the number of the row, as
`sort.Slice` has it with the comparison it is given. `Put` is an INSERT: the
record of all tenants with one more, or with one replaced. The one place where the validation's requests meet between two
statements is a tenant's row without its file: an add is therefore two steps.

`InitialData` describes the sets of tenants `data.go` may draw, what its batches
store (the last row of a list is in no batch) and the bill the benchmarker is
told, which is computed from everything drawn. A participant has at least
`LeastVisits` and `LeastScores` rows of a competition (7 and 10 in the code, 2 or
more here), so that the row that is in no batch is never a participant's only
one. `Orders` and `Visits` have exactly that many, where the code draws at least
that many: it is the case in which the row that is missing counts most. No
participant is disqualified in `Tables`, where the code draws some
(`data.go:385`): bills do not depend on it, and an organizer's job passes over
who is disqualified. A list of participants fits a page of a ranking (`PlayersDrawn` at most
`RankLimit`) where the code draws up to 200: the workers that look at initial
tenants upload 100 rows at most (`scenario_player_validate.go:117`, 340).

`Checks` is the benchmarker's table of steps: per check a sequence of requests,
each with the account that signs it, and the test its answer must pass, *as the
code tests it*, including conditions that look at part of an answer. The script
of an organizer's job ends with the worker of a player that the job starts,
which looks at a ranking of the tenant, of a finished competition too: once, and
when the job is over, where the code's worker looks again and again, as do those
of earlier jobs. Its visit changes no bill of a correct server, since the competition
goes on or was finished before; a server that charges late visits is noticed by
the worker that compares two pages of bills.

`Validation` runs them: the five checks of `ValidationScenario` concurrently,
each ending at a failure if it is fatal or `StrictPrepare` is set; in the first
of them `getRankingFunc`'s readers race an upload and stop when `scoreCh` is
closed; the minute of `Prepare` may run out at any point. Or the four workers of
the load that check (players, the tenant's bill, the admin's bill, beside a
popular tenant's organizer) on tenants of the initial data. The server is
`Service` or one of eighteen that deviate from it in one respect
(`Seen`, `Asked`, `Contestant`).

### 2.7 AdminList and CompetitionList

The two pages of the browser that keep a list others may change. Requests are
kept in the order they were sent, and are served and answered in any order, or
fail. `AdminList`: 250 ms after it was opened a timer loads the first page; the
button, which is there from the start, loads what comes after the cursor and is
hidden while something loads; an answer sets the cursor to its last tenant. The
dialog puts its new tenant on top. `CompetitionList`: every answer replaces the
list; a finish or an addition, once answered, asks for it again. Its upload
dialog keeps `csvFile` when closing empties the input. `PlayerListView.vue` is
the same with players and disqualified for competitions and finished.

## 3. What is checked

### 3.1 Runs that pass

| run | question | instance |
|---|---|---|
| `tenant_scores` | do readers see the last upload as a whole, are drained finished competitions frozen? | 3 requests, 1 competition, 2 files of 2 rows that share participants |
| `tenant_faults` | what survives failing statements and crashes, do the handlers implement `ScoreBoard`, is every request answered? | 2 requests, the four endpoints that take the lock and `finish`, 4 files (empty, repeating, unknown participant, unparsable) |
| `tenant_billing` | does a bill settle, and is it what the report says? | 3 requests, 2 seconds |
| `tenant_players` | does a disqualified participant stay out? | 2 requests, 3 ids of each kind handed out at run time |
| `browser_pages` | is every page of a ranking right, and do the lists of the browser hold together? | rankings: all files of up to 4 rows, 3 participants, 2 scores, pages of 2, 2 uploads; tenants: 2 at first and 3 more, pages of 2, 4 requests; competitions: 2, 3 GETs and 2 POSTs |
| `registry_walk` | does a walk show each tenant once, and does it end? | 3 tenants and 2 ids more, pages of 2, 2 faults |
| `bench_load` | are errors accounted for and taken off the score, who can hang; does a player's worker rest and end? | channels of 1, 3 workers, a budget of 3; 2 competitions, 2 of them per list, 2 slow answers, 2 players looked at |
| `organizer_job` | do the goroutines of a job hand over properly and end, and is the result the bill? | 2 jobs, 2 players at first and 3 later (one disqualified), 2 uploads, any request failing |
| `validation` | does a correct server pass, is each deviation noticed, does the validation end? | 5 checks at once, 4 workers at once, each alone against 18 deviating servers; 8 initial tenants, pages of 3 ranks and 5 bills |
| `identifiers` | is an id ever in two rows, is a row ever lost, do handlers end? | Epoch and one second of 3 ids, the last of the range, which may be filled up, 2 dispensed, 2 tries, 2 initializations |

`browser_pages` has one module for three pages that share nothing: each
behaviour opens one of them. So has `bench_load` for the loop and the player's
worker, which share the end of the load.

What they show beyond what a glance at the code does:

* **The lock is enough for readers and writers of scores, and no more.**
  `ImplementsScoreBoard`: with lock, DELETE and INSERTs the handlers behave like
  a board on which an upload is one step and a read one instant; a ranking
  says of which competition it is, so that an empty one is a read too. While
  nothing fails (`RankingShowsWholeUpload`), the board changes only when an upload
  runs its DELETE, to the whole file of that upload, and each ranking is the board
  of its moment: the table that is empty after a DELETE is never shown. The mapping
  takes an upload to have happened at its DELETE, when nobody can look any more.
  With faults the abstract board has one more step, an upload that breaks off
  and leaves the first rows of its file; nothing else goes wrong then
  (`OneFileOnly`, `FlockExcludes`), and whatever fails the lock is passed on and
  every request answered (`EveryRequestAnswered`).
* **When a finished competition really is final.** `DrainedScoresAreFinal`:
  its scores are, once the uploads that were checked before the finish are
  through. `SettledBillIsFinal` and `SettledBillIsReported`: its bill is, once
  also the visits stamped in time are stored, the clock has passed the second
  of the finish and nobody finishes it again, and then billing's three reads at
  three times agree with each other. This is what a cache of bills needs to
  wait for.
* **Disqualification** keeps visits out once the requests that were authorized
  before are through (`DisqualifiedStaysOut`).
* **Pages.** However uploads and lost answers fall, the browser's list has each
  rank once (`ListHasEveryRankOnce`; participants may repeat if an upload moved
  them, which is why the property is about ranks), and it is the whole ranking
  if nothing was uploaded since its first page (`ListIsComplete`). The
  administration's list misses no tenant however its requests overlap
  (`NothingMissed`); it has one twice when the button was used before the timer
  went off, or when the dialog added it before the first page was cut, and only
  then (`TwiceOnlyIfEarly`; not only the tenants *on* the first page, since more
  than a page of them may be added, which an instance with three tenants to add
  shows). The organizer's list takes a finished competition
  back to running, or loses it, only if an answer was under way beside another
  (`GoesBackOnlyIfOvertaken`); the upload dialog sends what it shows to the
  competition it was chosen for, while an empty one sends the last file
  (`ShownFileGoesWhereChosen`).
* **The walk** by descending id with an exclusive bound loses and repeats no
  tenant that was there at its start (`WalkShowsEachTenantOnce`), and ends
  again and again, whatever fails, unless an add broke off between the row and
  the file (`WalkEndsUnlessOrphaned`).
* **The benchmarker** loses no error (`EveryErrorAccounted`), takes each off the
  score once (`DeductsWhatWasFound`), and no worker waits for ever while the
  load runs (`SendersGetOn`); a hang needs a full channel at its end
  (`HangsOnlyAtFullChannel`, `JobEnds`). A ranker's last ranking follows the
  last upload (`LastRankingIsFinal`), draws never meet a player that is not in
  the map (`EveryDrawnPlayerKnown`), and the sum the validation of the admin's
  bill expects is the sum charged (`BillIsAsResult`).
* **The player's worker** never draws from an empty list (`PlayerTypeOK`), which
  would panic; as it is now it sleeps between two rankings
  (`RestsBetweenRankings`), while in the contest it did not, as the comment at
  `scenario_player.go:310` says; and it and the organizer's end with the load,
  although their sleeps then take no time (`WorkersStop`): every loop of theirs
  passes a request, and one that is cancelled ends it.
* **The validation** fails a correct server by one race only: the dashboard is
  read while another check's tenant has its row and not yet its file
  (`OnlyRaceFailsCorrect`). `NoticesDeviations` is a table of who notices what, step by step; four of
  the eighteen deviations are noticed nowhere, among them not looking at roles and
  keeping the rows that an upload is to replace. Visits after the finish that are charged
  are noticed if they fall between the two pages of bills that the worker for the
  administration compares. A ranking that lacks its last rank passes the two tests
  that join with `&&` (`scenario_validation.go:465`, 489) and is noticed by
  others; half an upload is noticed by each reader that is answered with one. Who passes has been asked
  everything, but for a minute that ends while readers race the upload
  (`UncheckedOnlyInGroup`), and the validation ends, but for readers of an
  upload that failed when `StrictPrepare` is off (`ValidationEnds`).
* **Ids.** The generator of the initial data repeats none (`GeneratedOnce`);
  after `/initialize`, an id is in two rows only if it is one of the initial
  data above what `init.sql` sets the generator to (`RepeatsOnlyGenerated`); a
  row that was answered 200 is lost only to an `/initialize` that overlapped the
  request or came later (`CleanRowsKept`).

### 3.2 Disagreements

Two have a run that ends in a counterexample.

| run | what a comment or a message says | what the code does |
|---|---|---|
| `bench_load_hangs` | the load ends (`scenario.go:317`), and has ended (`:209`, deferred) | the second need not follow: `Load` waits for workers that are blocked in a send, as one that was starting players (`job_organizer.go:227`) |
| `identifiers_repeat` | ids are unique in the system (`isuports.go:100`), the first after an initialization above the initial data's (`data.go:41`) | `init.sql` sets the generator a tenth as high: 2678400000 for 26784000000 |

The others are visible in the conditions of properties that hold.

* No new scores after the finish (`specification.md:141`): an upload checked
  before the finish writes after it. `DrainedScoresAreFinal` says when no more.
* Ranking and bill do not change afterwards (`specification.md:142`): a visit in
  the second of the finish, or stamped before it and stored later, is charged,
  and a second finish moves `finished_at`. `SettledBillIsFinal` has them as its
  conditions.
* Billing may fail while an add is being processed (`isuports.go:491`): an add
  that fails halfway makes it fail for good. `WalkEndsUnlessOrphaned`.
* A check that fails ends with an error (`scenario_validation.go:188-189`): when
  the group of readers and upload fails it returns nil (422-423).
  `UncheckedOnlyInGroup`.
* An INSERT that fails leaves a part of a file in the ranking, where
  `specification.md:153` speaks of the last CSV. `specification.md:229` ranks by
  the greatest of a participant's scores, its line 163 and the code by the last
  row, which is what `Standings` defines. `job_organizer.go:216` starts one
  player worker more than line 23 says, which `OrganizerJob` has as it is.

### 3.3 Bounds, and why they are enough

* Requests: two are the actors of every race found here (a writer and a reader,
  a check and a finish); `tenant_scores` and `tenant_billing` have three, for a
  writer, a finish and a reader at once.
* Files of two rows are the shortest with a state between two INSERTs; the two
  files of `tenant_scores` differ in every row and share participants. Two
  uploads are two requests.
* Two seconds: a visit before, in and after the second of a finish.
* Ranking: four rows with three participants give a repeated participant, equal
  scores, a full page, a partial one, a page that is exactly full and an empty
  one, with pages of two.
* Tenants in the browser: two to five with pages of two give full, partial and
  empty last pages, and three to add are more than a page of the dialog's; four requests are the timer's, one overlapping it, and two
  after it. Competitions: three GETs are one overtaken by another after the
  first, two POSTs send two of them; two competitions are enough for a file that
  goes to the wrong one.
* Registry: with pages of two and up to five tenants a walk has three pages and
  adds fall before, in and after them. `MaxFaults` bounds failures, since a
  fault at every request would let nothing be said about the end.
* Channels of one and three workers are the smallest in which a sender finds the
  channel full while another is about to send; `MaxFound` bounds the errors of a
  kind, which would otherwise be unbounded after the end of the loop.
* Jobs: two, for what the first leaves to the second.
* Player: `LoopCount` 2 is a competition with another after it and the last one;
  `SlowLimit` 2 a slow answer that counts and the one too many; two players, so
  that a sleep leads to the next and one to the next competition;
  `MaxCompetitions` 2, a list with a competition more than the one before.
* Validation: `PlayerNum` 4 and `RankLimit` 3 keep the relations the checks rely
  on (a full page and one more, a player without a score, a disqualified one);
  `PlayersDrawn`, `CompetitionsDrawn`, `LeastVisits`, `LeastScores` are 2 and
  `BatchSize` 3, so that lists are longer than a batch and not multiples of it;
  eight initial tenants have room for the three ranges, which lie side by side
  (indexes 0, 1 to 5 and 6, ids are one more), and for a page of `BillingLimit` 5
  below each cursor; two `Rounds` of bills, one with scores and one without. The draws of the initial data (`StoredInitials`) and
  those of the workers (`LoadChoices`) are enumerated where they make a
  difference; `Interrupted` are the sets of one or two checks that the end of the
  minute is tried on. A deviation meets each check alone.
* Identifiers: the one second with rows is the last of the range and has three
  ids; `MaxGenerated` is one more, so that a generator that ran over would leave
  the range; its first id is the second's lowest (`FirstIds` 1; that a second may
  begin higher, and other seconds beside it, is in `GeneratesOnce`). Two ids
  are dispensed above `MaxID` and two above `Origin`; `Origin` 3 lies inside the
  ids generated, as that of `init.sql` does: 3 to 5. Two tries
  are a retry and giving up; two initializations are one after another's rows.

All bounds are constants of the modules (`MaxNow`, `MaxNames`, `MaxRows`,
`MaxUploads`, `MaxId`, `MaxFaults`, `MaxFound`, `Jobs`, `MaxGenerated`,
`MaxDispensed`, `MaxInits`, `MaxCompetitions`, `MaxTenant`, `MaxFetches`, `MaxGets`, `MaxPosts`) in
the guards of the actions they bound. Symmetry is used for requests and
participants in runs without liveness properties only.

### 3.4 Fairness

* `TenantApi.FairSpec`: a goroutine that can execute its next statement does
  (weak fairness). The kernel queues waiters of `flock` and wakes them on
  release; a waiter sees the lock free again and again, so its lock step is
  strongly fair. Clients need not call, time need not pass.
* `TenantRegistry.FairSpec`: handlers run on and the scenario loops as long as
  the load lasts; nobody need add a tenant.
* `BenchLoad.FairSpec`: Go's `select` picks at random among ready cases and
  goroutines waiting at a channel are served in order, so receives and sends are
  strongly fair; workers see a context that is done. The timeout need not come,
  so that `SendersGetOn` is about loads of any length; workers need not find
  errors, start others or leave.
* `PlayerScenario.FairSpec` (in `MCLoad` as `LoadSpec`, together with the
  former): requests are answered or cancelled, and sleeps end. That the deadline
  comes is not assumed.
* `OrganizerJob.FairSpec`: goroutines run on, requests are answered or
  cancelled, and `Load` receives while it runs. The deadline need not come.
* `Identifiers.FairSpec`: statements of handlers are answered or fail. The loop
  of `dispenseID` is weakly fair in its counter as well: a deadlock is progress
  too, since it is counted.
* `Validation.FairSpec`: one of the checks that can go on does (they have no
  loops, so this is enough for all of them to end), and every reader and the
  upload go on, whatever the server answers. The minute need not run out.

`tenant_faults`, `registry_walk`, the two runs of `BenchLoad`, `organizer_job`,
`validation` and `identifiers` check under fairness; the others do not assume
any.

## 4. What is proved

Each theorem holds for all values of the module's constants: any sets of
requests, participants, tenants, workers, files, any page size and any bounds.
It assumes what the module's `ASSUME` says of them and nothing else, unless noted.

| module | theorem | states |
|---|---|---|
| `TenantApi_proofs` | `TypeCorrect` | `Spec => []TypeOK` |
| | `Exclusion` | `Spec => []FlockExcludes` |
| | `UploadProgress` | `Spec => []UploadInProgress` |
| | `OneFile` | `Spec => []OneFileOnly` |
| | `DrainedIsFinal` | `Spec => DrainedScoresAreFinal` |
| | `Implements` | `Spec => ImplementsScoreBoard` |
| | `WholeUploads` | `Faults = {}` gives `Spec => RankingShowsWholeUpload` |
| | `SettledIsFinal` | `Spec => SettledBillIsFinal` |
| | `SettledIsReported` | `Spec => []SettledBillIsReported` |
| | `ChargesFinished` | `Spec => []ChargesOnlyFinished` |
| | `DisqualifiedLeavesNoVisit` | `Spec => DisqualifiedStaysOut` |
| `Browser_proofs` | `PagesAreTheirSpecs` | `PagesSpec` implies the specification of each page |
| | `PagesTyped` | `PagesSpec => []PagesTypeOK` |
| | `TypeCorrect` | `Spec => []TypeOK` (of `Ranking`, as the next three) |
| | `PagesAreStandings` | `Spec => []PageAgreesWithStandings` |
| | `RanksInOrder` | `Spec => []ListHasEveryRankOnce` |
| | `ListComplete` | `Spec => []ListIsComplete` |
| | `RankingInBrowser` | the three of them from `PagesSpec` |
| | `NoTenantMissed` | `PagesSpec => []NothingMissed` |
| | `TwiceOnlyEarly` | `PagesSpec => []TwiceOnlyIfEarly` |
| | `UploadGoesWhereChosen` | `PagesSpec => []ShownFileGoesWhereChosen` |
| | `BackOnlyIfOvertaken` | `PagesSpec => GoesBackOnlyIfOvertaken` |
| `TenantRegistry_proofs` | `TypeCorrect` | `Spec => []TypeOK` |
| | `WalkComplete` | `Spec => []WalkShowsEachTenantOnce` |
| `Identifiers_proofs` | `TypeCorrect` | `Spec => []TypeOK` |
| | `GeneratesOnce` | `Spec => []GeneratedOnce` |
| | `RepeatsAreGenerated` | `Spec => []RepeatsOnlyGenerated` |
| | `CleanRowsStay` | `Spec => []CleanRowsKept` |
| `Load_proofs` | `PartsAreTheirSpecs` | `LoadSpec` implies the specification of the loop and of the player's worker |
| | `TypeCorrect` | `Spec => []TypeOK` (of `BenchLoad`, as the next two) |
| | `ErrorsAccounted` | `Spec => []EveryErrorAccounted` |
| | `DeductsFound` | `Spec => []DeductsWhatWasFound` |
| | `LoadAccounts` | the two of them from `LoadSpec` |
| | `PlayerTyping` | `LoadSpec => []PlayerTypeOK` |
| | `PlayerRests` | `LoadSpec => []RestsBetweenRankings` |
| `OrganizerJob_proofs` | `TypeCorrect` | `Spec => []TypeOK` |
| | `DrawnAreKnown` | `Spec => []EveryDrawnPlayerKnown` |
| | `RankingsAreFinal` | `Spec => []LastRankingIsFinal` |
| | `BillAgrees` | `MaxScoredPlayer = 0` gives `Spec => []BillIsAsResult` |
| `Validation_proofs` | `FinishedBillStands` | of `Service`: no request opens a finished competition again, and none but a second finish changes its report |
| | `PassedWasAsked` | `Spec => []UncheckedOnlyInGroup` |
| `Checks_proofs` | `InitialIsRight` | `Init` gives, for any draws: the bill the benchmarker is told is the bill of the stored rows |
| | `CorrectPasses` | `Spec => []OnlyRaceFailsCorrect` |

The assumptions are those that name what constants are (`NULL` is no file, page
sizes are positive, sets of requests are finite) and the relations the code
itself keeps between them. Those of the compositions are `ListsAssumption` of
`MCBrowser`, `PlayerAssumption` of `MCLoad` and `ValidationAssumption` of
`Validation`.

**TenantApi.** `TypeOK` is inductive by itself, because it says of which labels
a local must have been set (`NeedsCompetition`, `NeedsCsv`, ...). One lemma per
endpoint proves that its actions preserve it. `FlockExcludes` is an equivalence
(a request is between lock and return exactly if it holds the lock): that two
requests are not in the critical section at once would not say who holds the
lock. `OneFileOnly` alone is not inductive: an INSERT of row *k* keeps a prefix
a prefix only if the table holds exactly the first *k - 1* rows of the same
file. That is `UploadInProgress`, and for it to survive the steps of *another*
upload, that one must not be inserting: `FlockExcludes`. Faults do not disturb
it, since a failing statement or a crash stops an upload between two rows.
`DrainedScoresAreFinal` is an action property: of the actions that change scores
`ScoreDelete` and `ScoreInsert` are steps of an upload past its check, which a
drained competition has none of, and a new one does not pass the check.

**ScoreBoard.** The mapping shows the file of an upload from its DELETE on.
Every action maps to a step of the board or to a stutter: `ScoreDelete` to the
upload, a failure or crash between the INSERTs to the upload that breaks off,
the readers' last step to a read. Where a step of one request leaves the mapped
board alone, it is because whoever holds the lock is somebody else.
`WholeUploads` has the same argument where nothing breaks off: no step but a
DELETE changes the board, and when a ranking is read nobody is between DELETE
and last INSERT, so that the table is the board.

**Billing.** Settled means: finished, no upload past its check, no visit stamped
in time and not yet stored, the clock past the second of the finish. What each
handler carries in its locals (the time it has read, the visitors it has read)
is related to the tables by an invariant of labels; a settled competition's
visits in time and scores are then frozen, so that three reads at three times
read the same bill. `ChargesFinished` needs that `finished_at` is never unset.

**Ranking.** Nothing in it recurses, so a sort can be reasoned about. Lemma by
lemma: in a finite total order an element is at the place given by how many are
before it (`BeforeCounts`), an arrangement exists (`ArrangementExists`) and any
`Arranged` is one (`Sorted`); the rows are such an order by `row_num`; the first
of a participant in descending order is the participant's last row
(`FirstIsLast`); so the ranked list is the one of `Standings`
(`RankedByRank`) and a cut of it the page. The list in the browser: it ends
where `nextId` says, the page under way follows it, and while `stable` both are a
prefix of the ranking.

**The browser's other pages.** `NothingMissed` is carried by
`NothingPassedOver`: every tenant of before at or above a cursor is in the list,
be it the page's cursor or the one a request under way was sent with. A late
answer may set the cursor back, but only to one that has the same property; and
an answer shorter than a page comes from the end of the table (`PagesAreCut`),
which is when the button goes. `TwiceOnlyIfEarly` is about a button left alone:
then one request follows another (`OneAtATime`), and the list is in two parts
(`Parted`): on top what the dialog put there, each once, and below it the pages,
in falling order and nothing under the cursor. A tenant can then only be in both
parts, so the dialog added it, and it is at most the head of the first page
(`BelowFirst`). `ShownFileGoesWhereChosen` needs that the input is never filled
while the dialog's competition is another (`InputIsChosen`). For
`GoesBackOnlyIfOvertaken`, as long as no answer was overtaken the list is behind
the rows of the answer under way, and those behind the table (`InStep`).
Overtaken means here that two answers were under way at once; the theorem does
not say that it is this answer that takes the row back.

**Compositions.** `PagesAreTheirSpecs` and `PartsAreTheirSpecs` show that a step
of the composition is a step or a stutter of each part, so that the theorems
about a part hold where the run checks them. In `LoadSpec` the parts share
`ctxDone`: the deadline is a step of both.

**Registry.** The invariant relates the page under way to the walk: what was
shown is exactly what was known at or above the cursor (`WalkSoFar`), and what
the handler has read and put into its page continues it downward without a gap
(`PageSoFar`). For that, ids in use are at most `lastId` and each row's its own
(`IdsUsed`).

**Identifiers.** Ids of a second lie in the second's interval, so that two
seconds never meet, and are at most the second's `idMap`; dispensed ids are
those from the point the generator was last set to up to `autoIncrement`, each
with at most one handler or row; `promised` rows were inserted while no
`/initialize` ran.

**Loop of the load.** Every error is in one of three places: with a worker that is
about to send it, in a channel, or counted. Each action moves one error by one
place; the proof counts the finite sets of workers at each label. With
`AllDone` (when `Load` has returned, nobody reports any more) the score's
arithmetic follows.

**Player's worker.** Per label, what was read and chosen before it
(`Ready`): a competition of the list before the ranking is asked for, somebody
on the page before a player is looked at.
`busy` is at most 1 because of where it is set to 0: at each sleep, and the path
from one sleep to the next passes one ranking (`Rested`).

**OrganizerJob.** The invariant has thirteen named parts, one per hand-over:
what the players read, the map and the scores have in common; that an upload
that is over is among those sent; that a reader that has seen `doneCh` closed
asks after the last of them. `BillIsAsResult` needs two more: visitors are among
the tenant's players, and a job that has finished has settled its bill; and
that a job takes all players, which the validation's jobs do.

**Service and the validation.** `FinishedBillStands` is a theorem about the
functions that are the handlers, for every tenant whose tables are typed
(`TenantsOf`) and every request that has the parameters its handler reads
(`HasParameters`): uploads after the finish are refused, and a visit after it is
not charged. A second finish moves `finished_at`, so that those who looked in
between are charged from then on; nobody is let off. In `Service` a request is
alone in its tenant and later than the one before; what is left of the statement
when requests overlap or fall into one second is `SettledBillIsFinal`. `PassedWasAsked`: a check whose result is nil is
through with its script or left at the group with a failure (`OverIsThrough`);
such a failure has recorded an error or the minute was over (`FailureIsKnown`);
and who passes has recorded none (`PassedIsClean`).

**A correct server passes.** `CorrectPasses` is about `Service` as it is
written, the five checks before the load and the four workers that check during
it, whatever the numbers of participants and readers, the lengths of pages and
batches, what the initial data drew, which tenants the workers drew, how many
rounds of bills there are and of what sizes, and however the requests fall between
each other. A behaviour has checks of one kind only (`OneOrOther`), and each kind
has its invariant beside `IInv`: `CorrectInv` (that is `Standing` while nothing is
cancelled) and `LoadInv` (`LoadStanding`). Both say of each check where its tenant
stands: the table is the one that the requests before `at` have made (`TableIs`,
`LoadTable`), the check remembers the answer that table gives, and no error but
the dashboard's is recorded, none at all during the load. Four things carry them.

* *Alone in its tenant.* The checks' tenants differ from each other and from the
  initial ones, and a request changes the tenant of its host and no other
  (`Touches`, `OthersKeep`). So what one check does is a stutter of the others'
  tables. Only `tenants_billing` looks at all of them, and it can fail only while
  an add has put its row and not yet its file, which is the race the property
  lets pass. The load's workers draw initial tenants from ranges that do not meet
  (`RangesAssumption`), and the one tenant they add is above every page that is
  read then.
* *Step by step.* For each request of each script a lemma says what it does to
  the table and that the answer passes the check's test. For the rankings that is
  what an enumeration along an order is: its length, who is at which place, and
  which part of it a page holds (`DataLemmas`, as those of **Ranking** below
  them). For the bills, it is who has a score and who only a visit. The ties of
  `upload_twice` and the reversed upload go by the same lemmas with another
  order.
* *The race of readers and upload* in `allAPI` is a race over equal tables: the
  second upload carries the rows of the first, so that the ranking that a reader
  gets is one and the same before and after (`RacedTable`); it adds visits by a
  participant who has a score, which the bill does not show.
* *Sums of bills.* The worker for the administration's bills reads a page, has a
  competition played in one tenant of it and wants the page's sum to have grown by
  that competition's bill. The sum is a fold over the page's tenants: `SumChanges`
  says that a fold in which one member changed differs by that member's change
  (`SumGrows`: one with a new member, by that member), and `BystandersAre` that the
  other workers change no tenant of the page (`PageGrows` joins them). The rounds
  of `tenantBilling` are one flattened sequence; `Offsets` says where each begins,
  `RoundTable` what the table is within it and `Past` what the rounds before have
  left.

The initial data come in where the check reads the bills of initial tenants:
`InitialIsRight` shows, through the batches (`Ascending` lists, the flattened
sequence, the last row that is dropped), that who has a row drawn has one stored.

Only model-checked:

* All liveness, which with fairness and ENABLED is out of the prover's reach:
  `EveryRequestAnswered`, `WalkEndsUnlessOrphaned`, `HangsOnlyAtFullChannel`,
  `SendersGetOn`, `WorkersStop`, `JobEnds`, `ValidationEnds`, `HandlersEnd`.
* `NoticesDeviations`: a table of what each check answers each of eighteen
  deviating servers, which is an evaluation case by case; a proof would restate it.

The type invariants of `BenchLoad`, `OrganizerJob`, `TenantRegistry` and
`Ranking` are proved, and no run but `browser_pages` (the last one, within
`PagesTypeOK`) checks them again. The library's
induction theorems take an operator as a parameter, which the installed provers
cannot instantiate; where a proof goes along a sequence (`FlattenSeq` of the
batches) it takes the least number of a set that is a counterexample instead
(`LeastOf`, `Induction`). `RECURSIVE` operators stay out of reach, and the modules with
theorems have none.

## 5. What is not modelled

* `meHandler`: one read, no state. It opens the tenant's file and never closes
  it (`isuports.go:1567`): a count of descriptors that only grows, which a model
  would restate.
* SQLite's own locking: a statement that finds the database locked fails, which
  `StatementFails` covers.
* MySQL's pool of ten connections: each statement gives its connection back, so
  no handler waits for the lock file with one in hand.
* `playersAddHandler` is a loop of inserts; `TenantApi` has each insert as a step
  of its own, so that a request that breaks off leaves those before, and a client
  that repeats it adds them again; no property is about that.
* What `rank_after` says: it is parsed after the visit was recorded
  (`isuports.go:1357`), so that a malformed request is charged and answered 500,
  which `RankingVisit` has; which ranks a page skips is in `Ranking` only.
* `/initialize` beyond ids and files: its statements that delete new tenants,
  visits and so on only remove rows.
* The check of static files, and of the benchmarker's HTTP layer everything but
  the request and the account that signs it: agents, cookies, caches, options,
  logging. The wait groups that are copied into the loggers
  (`scenario.go:118`).
* The browser's layouts, header bars and forms without a list; the bill's page,
  which asks once.
* The reporter, which sends one message of which it writes the length in 16 bits
  (a message of exactly 65536 bytes would be announced as empty), and the
  portal's protocol, which is generated code.
* That two jobs of a tenant might start one player twice, since the map of
  started workers is written by a goroutine (`scenario.go:433`): `OrganizerJob`
  has that goroutine (`Record`), but a tenant's jobs follow one another, and the
  goroutine would have to wait for as long as a job takes.
* The development login, the ports to other languages, proxies, provisioning.

The map names some 5 000 of the implementation's lines; well over half of the
rest are generated protocol files (`*.pb.go`, 14 000 lines) that hold no
behaviour of their own.

## 6. Plan

Open, in order of weight:

1. That a request of `TenantApi` that no other overlaps does to the tables what
   the handler of `Service` does: the two models of the tenant API as one.
2. Actions of `Service` that change what nobody should: as `FinishedBillStands`,
   that a participant once disqualified stays so and that nobody's row is lost.
3. `GeneratedOnce` and `RepeatsOnlyGenerated` beyond one row per request: a
   handler that inserts several, as `playersAddHandler`.
4. Safety behind the liveness properties: that a sender that hangs hangs at a
   full channel (`HangsOnlyAtFullChannel` as an invariant of the states without a
   step).
5. The connection pool of ten with handlers that read under the lock.

## 7. Running it

    tlc -config MCTenantScores.cfg MCTenantApi     (likewise for the others)
    tlapm TenantApi_proofs.tla                     (likewise for the seven others)

The module of each configuration is in `PROJECT.json`. A run takes from a second
to about three minutes with two workers; a proof module takes from half a minute to
some fifteen minutes from nothing.
