----------------------------- MODULE Validation -----------------------------
(***************************************************************************)
(* The benchmarker's checks of a contestant's server: those of the         *)
(* validation run at once before the load (bench/scenario_validation.go),  *)
(* most failures ending one only if StrictPrepare is set, while all are    *)
(* recorded; in the first of them readers of a ranking race an upload.     *)
(* Prepare gives the whole of it a minute, after which every request is    *)
(* cancelled (bench/scenario.go).  The checking workers run beside each    *)
(* other during the load, until it ends.                                   *)
(* The server is the one of Service, or one that deviates from it in one   *)
(* respect.                                                                *)
(***************************************************************************)
EXTENDS Checks

CONSTANTS
    Ranker,         \* the goroutines of getRankingFunc: four
    Deviations,     \* of the servers considered; they meet the checks one at a time
    Interrupted     \* the sets of checks that may be cancelled

(* Prepare's checks are over before the load's workers start. *)
ASSUME ValidationAssumption ==
    IsFiniteSet(Ranker) /\ Interrupted \subseteq (SUBSET PrepareCheck) \cup (SUBSET LoadCheck)

-----------------------------------------------------------------------------
VARIABLES
    server,     \* "as_written", or its deviation
    strict,     \* StrictPrepare
    initial,    \* the tenants of the initial data, and what they owe
    choice,     \* what the workers of the load have drawn
    tenants,    \* the server's: of the checks
    main,       \* Prepare, or the load
    started,    \* the checks: all of Prepare's, all of the load's, or some of them
    at, result, \* of each check
    adding,     \* the checks whose new tenant has its row and not yet its file
    memory,     \* of each check: the answer it keeps to compare later ones with
    ranker, uploader,   \* its goroutines
    closed,             \* scoreCh
    failed,             \* one of them has returned an error: their context is done
    errors,             \* recorded
    expired     \* the minute, or the load, is over

group == <<ranker, uploader, closed, failed>>
settings == <<server, strict, initial, choice, started>>
vars == <<settings, tenants, main, at, result, adding, memory, group, errors, expired>>

(* What the choices and the draws make a difference to, and no more. *)
Init ==
    /\ server \in {"as_written"} \cup Deviations /\ strict \in BOOLEAN
    /\ started \in IF server = "as_written" /\ strict
                   THEN {PrepareCheck, LoadCheck} \cup Interrupted
                   ELSE {{c} : c \in IF strict THEN Check ELSE PrepareCheck}
    /\ initial \in IF server = "as_written" /\ strict /\ started = {"billing"}
                   THEN StoredInitials ELSE {TypicalInitial}
    /\ choice \in IF started = LoadCheck THEN LoadChoices ELSE {CHOOSE d \in LoadChoices : TRUE}
    /\ tenants = [n \in {} |-> EmptyTenant]
    /\ main = IF started \subseteq LoadCheck THEN "checks" ELSE "start"
    /\ at = [c \in Check |-> 1]
    /\ result = [c \in Check |-> IF c \in started THEN "running" ELSE "nil"]
    /\ adding = {} /\ memory = [c \in Check |-> 0]
    /\ ranker = [r \in Ranker |-> "poll"] /\ uploader = "ready"
    /\ closed = FALSE /\ failed = FALSE
    /\ errors = {} /\ expired = FALSE

-----------------------------------------------------------------------------
(* The contestant's server *)

Keep(rows, kept) ==
    LET is == SelectSeq([i \in DOMAIN rows |-> i], LAMBDA i : i \in kept)
    IN  [n \in DOMAIN is |-> rows[is[n]]]

FirstRows(rows) ==
    {i \in DOMAIN rows : \A j \in DOMAIN rows : rows[j].player = rows[i].player => i <= j}

BestRows(rows) ==
    {i \in DOMAIN rows : \A j \in DOMAIN rows :
        rows[j].player = rows[i].player => rows[j].score <= rows[i].score}

(* How a deviating server takes an upload to a competition with some rows. *)
Taken(old, rows, t) ==
    CASE server = "frozen_scores" /\ old # <<>> -> old
      [] server = "appends" -> old \o rows
      [] server = "first_row" -> Keep(rows, FirstRows(rows))
      [] server = "best_row" -> Keep(rows, BestRows(rows))
      [] server = "ties_reversed" -> Reverse(Keep(rows, LastRows(rows)))
      [] server = "skips_unknown" -> Keep(rows, {i \in DOMAIN rows : rows[i].player \in Player(t)})
      [] OTHER -> rows

(* How it reads the request. *)
Asked(q, t) ==
    CASE server = "any_token" -> [q EXCEPT !.as.token = "valid"]
      [] server = "any_role" -> [q EXCEPT !.as.role = RoleOf(q.op)]
      [] server = "no_rank_after" /\ q.op = "ranking" -> [q EXCEPT !.after = 0]
      [] server = "any_header" /\ q.op = "score" -> [q EXCEPT !.header = TRUE]
      [] q.op = "score" /\ Has(t, q.competition) ->
            [q EXCEPT !.rows = Taken(t.competitions[q.competition].rows, q.rows, t)]
      [] OTHER -> q

(* How it reads its tables. *)
Seen(t, q) ==
    LET compsAs(f(_)) == [c \in DOMAIN t.competitions |-> f(t.competitions[c])]
    IN  CASE server = "disqualified_unseen" /\ q.op \in PlayerApi ->
                [t EXCEPT !.disqualified = {}]
          [] server = "late_scores" /\ q.op = "score" ->
                [t EXCEPT !.competitions = compsAs(LAMBDA k : [k EXCEPT !.finished = FALSE])]
          [] server = "bills_running" /\ q.op = "billing" ->
                [t EXCEPT !.competitions = compsAs(LAMBDA k : [k EXCEPT !.finished = TRUE])]
          [] server = "bills_late" /\ q.op = "billing" ->
                [t EXCEPT !.competitions = compsAs(LAMBDA k : [k EXCEPT !.visitors = @ \cup k.late])]
          [] server = "forgets_visitors" /\ q.op = "billing" ->
                [t EXCEPT !.competitions = compsAs(LAMBDA k : [k EXCEPT !.visitors = {}])]
          [] OTHER -> t

(* What it keeps of that is what the request is to change. *)
Contestant(q) ==
    LET known == InitialId \cup DOMAIN tenants
        t == TenantOf(initial.tenant, tenants, q.as.tenant)
        r == Answer(Seen(t, q), Asked(q, t), known)
        all == Standings(t.competitions[q.competition].rows)
    IN  [tenant |->
            IF q.op \in {"billing", "player", "player_competitions"} THEN t
            ELSE IF q.op = "ranking" THEN [r.tenant EXCEPT !.disqualified = t.disqualified]
            ELSE IF q.op = "score" THEN
                [r.tenant EXCEPT !.competitions = [c \in DOMAIN @ |->
                    [@[c] EXCEPT !.finished = t.competitions[c].finished]]]
            ELSE r.tenant,
         answer |->
            IF r.answer.status # 200 THEN r.answer
            ELSE IF server = "all_ranks" /\ q.op = "ranking" THEN [r.answer EXCEPT !.data = all]
            ELSE IF server = "short_ranking" /\ q.op = "ranking" /\ r.answer.data # <<>>
                 THEN [r.answer EXCEPT !.data = Front(@)]
            ELSE IF q.op = "score" THEN [r.answer EXCEPT !.data = Len(q.rows)]
            ELSE r.answer]

ContestantPage(q) ==
    LET a == TenantsBilling(initial.tenant, tenants, Asked(q, EmptyTenant))
        seen(n) == Seen(TenantOf(initial.tenant, tenants, n), [op |-> "billing"])
    IN  IF a.status = 200 THEN [a EXCEPT !.data = [n \in DOMAIN @ |-> Yen(seen(n))]] ELSE a

-----------------------------------------------------------------------------
(* The checks *)

Running(c) == main = "checks" /\ result[c] = "running"
Now(c) == Script(c, choice)[at[c]]
InTheGroup(c) == c = "allAPI" /\ at[c] = GroupStep

GoOn(c) ==
    /\ at' = [at EXCEPT ![c] = @ + 1]
    /\ result' = [result EXCEPT ![c] = IF at[c] = Len(Script(c, choice)) THEN "nil" ELSE @]

Fail(c) == result' = [result EXCEPT ![c] = "error"] /\ UNCHANGED at

CutOff(c) == {errors, errors \cup {<<c, "cut_off">>}}

(* Mutant: a cancelled answer passes for none. *)
CanceledIsNil(c) ==
    /\ Running(c) /\ expired
    /\ ~InTheGroup(c)
    /\ result' = [result EXCEPT ![c] = "nil"]
    /\ UNCHANGED <<settings, tenants, main, at, adding, memory, group, errors, expired>>

(* A cancelled answer is not empty, though it has no errors to record, unless  *)
(* its body was cut off, which is a wrong answer.  A worker's error is logged. *)
Canceled(c) ==
    /\ Running(c) /\ expired
    /\ ~InTheGroup(c)
    /\ errors' \in CutOff(c)
    /\ IF strict \/ Now(c).fatal THEN Fail(c) ELSE GoOn(c)
    /\ UNCHANGED <<settings, tenants, main, adding, memory, group, expired>>

Receive(c, s, q, a) ==
    IF Fits(c, s, q, a, memory[c], initial.billing) THEN GoOn(c) /\ UNCHANGED errors
    ELSE /\ errors' = errors \cup {<<c, s.name>>}
         /\ IF strict \/ s.fatal THEN Fail(c) ELSE GoOn(c)

Remembers(c, a) ==
    memory' = IF Remembered(c, Now(c)) /\ a.status = 200 THEN [memory EXCEPT ![c] = a.data]
                                                         ELSE memory

(* Only what has changed is kept of the initial tenants, and nothing of a      *)
(* tenant that is not there.                                                   *)
Updated(name, t) ==
    IF name \in DOMAIN tenants \cup InitialId /\ t # TenantOf(initial.tenant, tenants, name)
    THEN Put(tenants, name, t) ELSE tenants

Asks(c) ==
    /\ Running(c) /\ ~expired
    /\ Now(c).ask # {} /\ ~InTheGroup(c)
    /\ \E q \in Now(c).ask :
          /\ q.op \notin AdminApi
          /\ LET r == Contestant(q)
             IN  /\ Receive(c, Now(c), q, r.answer)
                 /\ tenants' = Updated(q.as.tenant, r.tenant)
                 /\ Remembers(c, r.answer)
    /\ UNCHANGED <<settings, main, adding, group, expired>>

AsksPage(c) ==
    /\ Running(c) /\ ~expired
    /\ \E q \in Now(c).ask :
          /\ q.op = "tenants_billing"
          /\ LET a == ContestantPage(q) IN Receive(c, Now(c), q, a) /\ Remembers(c, a)
    /\ UNCHANGED <<settings, tenants, main, adding, group, expired>>

(* A new tenant has its row before it has its file. *)
AddsTenant(c) ==
    /\ Running(c) /\ ~expired /\ c \notin adding
    /\ \E q \in Now(c).ask :
          /\ q.op = "tenants_add"
          /\ LET status == AddStatus(tenants, Asked(q, EmptyTenant))
             IN  IF status = 200
                 THEN /\ tenants' = AddRow(tenants, q) /\ adding' = adding \cup {c}
                      /\ UNCHANGED <<at, result, errors>>
                 ELSE /\ Receive(c, Now(c), q, [status |-> status])
                      /\ UNCHANGED <<tenants, adding>>
    /\ UNCHANGED <<settings, main, memory, group, expired>>

AddsFile(c) ==
    /\ Running(c) /\ ~expired /\ c \in adding
    /\ \E q \in Now(c).ask :
          /\ tenants' = AddFile(tenants, q)
          /\ Receive(c, Now(c), q, [status |-> 200, data |-> {}])
    /\ adding' = adding \ {c}
    /\ UNCHANGED <<settings, main, memory, group, expired>>

-----------------------------------------------------------------------------
(* Readers and an upload at once *)

InGroup == Running("allAPI") /\ at["allAPI"] = GroupStep
groupless == <<settings, main, at, result, adding, memory, expired>>

(* select { case <-scoreCh: isDone = true default: } *)
RankerPolls(r) ==
    /\ InGroup /\ ranker[r] = "poll"
    /\ ranker' = [ranker EXCEPT ![r] = IF closed THEN "last" ELSE "ask"]
    /\ UNCHANGED <<groupless, tenants, uploader, closed, failed, errors>>

RankerAsks(r) ==
    /\ InGroup /\ ranker[r] \in {"ask", "last"}
    /\ \E q \in AtOnce.ask :
          LET c == Contestant(q)
              canceled == expired \/ failed
              ok == ~canceled /\ Fits("allAPI", AtOnce, q, c.answer, memory["allAPI"], initial.billing)
          IN  /\ tenants' = IF canceled THEN tenants ELSE [tenants EXCEPT ![tAll] = c.tenant]
              /\ errors' \in IF ok THEN {errors} ELSE IF canceled THEN CutOff("allAPI")
                             ELSE {errors \cup {<<"allAPI", "at_once">>}}
              /\ failed' = (failed \/ (~ok /\ strict))
              /\ ranker' = [ranker EXCEPT ![r] =
                               IF (~ok /\ strict) \/ @ = "last" THEN "done" ELSE "poll"]
    /\ UNCHANGED <<groupless, uploader, closed>>

(* A server that does not keep readers out shows half an upload. *)
UploaderHalf ==
    /\ InGroup /\ uploader = "ready" /\ ~expired /\ ~failed /\ server = "half_upload"
    /\ tenants' = [tenants EXCEPT ![tAll].competitions[1].rows = Tail(@)]
    /\ uploader' = "half"
    /\ UNCHANGED <<groupless, ranker, closed, failed, errors>>

(* Mutant: scoreCh is not closed. *)
UploaderNeverCloses ==
    /\ InGroup /\ uploader \in {"ready", "half"} /\ uploader' = "done"
    /\ UNCHANGED <<groupless, tenants, ranker, closed, failed, errors>>

(* scoreCh is closed when the upload has succeeded, and only then. *)
UploaderAsks ==
    /\ InGroup /\ uploader \in {"ready", "half"}
    /\ server = "half_upload" => uploader = "half" \/ expired \/ failed
    /\ \E q \in AllApiUpload.ask :
          LET c == Contestant(q)
              canceled == expired \/ failed
              ok == ~canceled /\ c.answer.status = 200
          IN  /\ tenants' = IF canceled THEN tenants ELSE [tenants EXCEPT ![tAll] = c.tenant]
              /\ errors' \in IF ok THEN {errors} ELSE IF canceled THEN CutOff("allAPI")
                             ELSE {errors \cup {<<"allAPI", "at_once">>}}
              /\ closed' = ok /\ failed' = (failed \/ ~ok)
    /\ uploader' = "done"
    /\ UNCHANGED <<groupless, ranker>>

(* if err := eg.Wait(); err != nil { return nil } *)
GroupEnds ==
    /\ InGroup
    /\ uploader = "done" /\ \A r \in Ranker : ranker[r] = "done"
    /\ IF failed THEN result' = [result EXCEPT !["allAPI"] = "nil"] /\ UNCHANGED at
                 ELSE GoOn("allAPI")
    /\ UNCHANGED <<settings, tenants, main, adding, memory, group, errors, expired>>

-----------------------------------------------------------------------------
(* Prepare *)

CreateTenant ==
    /\ main = "start"
    /\ IF expired THEN main' = "failed" /\ UNCHANGED tenants
       ELSE main' = "checks" /\ tenants' = Put(tenants, tAll, EmptyTenant)
    /\ UNCHANGED <<settings, at, result, adding, memory, group, errors, expired>>

(* Prepare fails by an error a check returned, or else one that was recorded;  *)
(* the load just ends.                                                         *)
Conclude ==
    /\ main = "checks" /\ \A c \in Check : result[c] # "running"
    /\ main' = IF started \subseteq LoadCheck THEN "loaded"
               ELSE IF (\A c \in Check : result[c] = "nil") /\ errors = {} THEN "passed" ELSE "failed"
    /\ UNCHANGED <<settings, tenants, at, result, adding, memory, group, errors, expired>>

Deadline ==
    /\ started \notin {PrepareCheck, LoadCheck}
    /\ main \in {"start", "checks"} /\ ~expired
    /\ expired' = TRUE
    /\ UNCHANGED <<settings, tenants, main, at, result, adding, memory, group, errors>>

Works(c) == Asks(c) \/ AsksPage(c) \/ AddsTenant(c) \/ AddsFile(c) \/ Canceled(c)
Uploads == UploaderHalf \/ UploaderAsks
Reads(r) == RankerPolls(r) \/ RankerAsks(r)

Next ==
    \/ CreateTenant \/ Conclude \/ Deadline
    \/ \E c \in Check : Works(c)
    \/ Uploads \/ (\E r \in Ranker : Reads(r)) \/ GroupEnds

Spec == Init /\ [][Next]_vars

(* Every goroutine goes on: its requests are answered or cancelled.  That one  *)
(* of the checks that can go on does is enough, as none of them has a loop.    *)
(* These are the steps of Works, Uploads and Reads by what they do to the      *)
(* goroutine.                                                                  *)
Progress == <<at, result, adding>>
CheckMoves ==
    \E c \in Check :
        /\ Running(c) /\ ~InTheGroup(c)
        /\ at' \in {at, [at EXCEPT ![c] = @ + 1]}
        /\ result' \in {result, [result EXCEPT ![c] = "nil"], [result EXCEPT ![c] = "error"]}
        /\ adding' \in {adding, adding \cup {c}, adding \ {c}}
UploaderMoves == InGroup /\ uploader # "done" /\ uploader' \in {"half", "done"}
RankerMoves(r) ==
    /\ InGroup /\ ranker[r] # "done"
    /\ \E s \in {"poll", "ask", "last", "done"} : ranker' = [ranker EXCEPT ![r] = s]

FairSpec ==
    /\ Spec
    /\ WF_vars(CreateTenant \/ Conclude \/ GroupEnds) /\ WF_Progress(CheckMoves)
    /\ WF_uploader(UploaderMoves) /\ \A r \in Ranker : WF_ranker(RankerMoves(r))

-----------------------------------------------------------------------------
(* Properties *)

Ended == main \in {"passed", "failed", "loaded"}

(* A server that does what webapp/go/isuports.go does fails the validation     *)
(* only if the page of the bills is read while another check's tenant has its  *)
(* row and not yet its file.                                                   *)
OnlyRaceFailsCorrect == server = "as_written" /\ ~expired => errors \subseteq {<<"allAPI", "dashboard">>}

(* What a server that charges late visits adds to the page of the bills: by a  *)
(* visit to a finished competition of a player without a score there.          *)
LateVisited(t) == \E comp \in ToSet(t.competitions) : comp.finished /\ ~(comp.late \subseteq Scored(comp))

(* Where the checks notice the deviations.  Not among them: a player's first   *)
(* or best row that counts for the last (the last is the best, and its score   *)
(* is not compared), rows that are kept when others replace them, and roles    *)
(* that are not looked at.  The worker for the administration's bills takes    *)
(* the difference of two sums, from which what a server always charges, or     *)
(* never, is gone: a late visit it notices if it is made in between.  Where    *)
(* only more than RankLimit ranks are wrong, "ranking" and "ranking_visitor"   *)
(* of the first check, one rank too few is right.                              *)
NoticedAt ==
    [s \in Deviations \cup {"as_written"} |->
        CASE s \in {"as_written", "first_row", "best_row", "appends", "any_role"} -> {}
          [] s = "all_ranks" ->
                {"ranking"} \X {"ranking", "last_page", "ranking_reversed", "ranking_ties"}
          [] s = "short_ranking" ->
                {<<"allAPI", "at_once">>, <<"allAPI", "final_ranking">>, <<"players", "ranking_after">>}
                \cup {"ranking"} \X {"ranking", "last_page", "ranking_reversed", "ranking_ties"}
          [] s = "frozen_scores" ->
                {<<"players", "ranking_after">>}
                \cup {"ranking"} \X {"ranking_reversed", "player_again", "ranking_ties"}
          [] s = "ties_reversed" -> {<<"ranking", "ranking_ties">>}
          [] s = "no_rank_after" -> {<<"ranking", "last_page">>}
          [] s = "any_token" ->
                {"invalidJWT"} \X {"expired", "wrong_key", "wrong_algorithm", "tenants_add"}
          [] s = "any_header" -> {<<"badRequest", "column_too_many">>}
          [] s = "skips_unknown" -> {<<"badRequest", "score_nobody">>}
          [] s = "disqualified_unseen" ->
                {<<"badRequest", "disqualified_reads">>, <<"players", "page_disqualified">>}
          [] s = "late_scores" -> {<<"badRequest", "score_finished">>}
          [] s = "bills_running" ->
                {<<"allAPI", "initial_billing">>, <<"billing", "dashboard_before">>}
          [] s = "bills_late" ->
                IF LateVisited(TenantOf(initial.tenant, tenants, choice.target))
                THEN {<<"adminBilling", "page_again">>} ELSE {}
          [] s = "forgets_visitors" ->
                {<<"allAPI", "billing">>, <<"allAPI", "initial_billing">>,
                 <<"billing", "dashboard_before">>, <<"tenantBilling", "billing">>}
          [] s = "half_upload" -> {<<"allAPI", "at_once">>}]

Place(e) == Min({i \in DOMAIN Script(e[1], choice) : Script(e[1], choice)[i].name = e[2]})
FirstOf(E) == {e \in E : \A other \in E : Place(e) <= Place(other)}

(* One of the readers is answered when the rows are those of half an upload. *)
SeesHalf(r) ==
    /\ server = "half_upload" /\ uploader = "half" /\ ~expired /\ ~failed
    /\ ranker[r] \in {"ask", "last"} /\ ranker'[r] # ranker[r]

(* A check that meets a deviating server records an error at each of the steps *)
(* that are to notice the deviation, at the first of them alone if the first   *)
(* error ends it, and none at any other step; the validation fails if there    *)
(* are such, and else passes.  Half an upload is noticed by whoever sees it.   *)
NoticesDeviations ==
    /\ [](Ended /\ ~expired /\ Cardinality(started) = 1 =>
            LET noticed == {e \in NoticedAt[server] : e[1] \in started}
                recorded == errors \ {<<"allAPI", "cut_off">>}
            IN  /\ \/ recorded = IF strict THEN FirstOf(noticed) ELSE noticed
                   \/ server = "half_upload" /\ recorded \subseteq noticed
                /\ main \in {"loaded", IF recorded = {} THEN "passed" ELSE "failed"})
    /\ [][\A r \in Ranker : SeesHalf(r) => <<"allAPI", "at_once">> \in errors']_vars

(* Who passes has been asked everything, but for a minute that was over while  *)
(* the readers raced the upload.                                               *)
UncheckedOnlyInGroup ==
    main = "passed" =>
        \A c \in started : \/ at[c] = Len(Script(c, choice)) + 1
                           \/ c = "allAPI" /\ at[c] = GroupStep /\ expired

(* Without StrictPrepare the readers of an upload that did not succeed never   *)
(* see scoreCh closed and never give up.                                       *)
Endless == ~strict /\ uploader = "done" /\ ~closed

(* The validation comes to its end. *)
ValidationEnds == <>(Ended \/ Endless)
============================================================================
