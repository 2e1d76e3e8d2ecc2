---------------------------- MODULE OrganizerJob ----------------------------
(***************************************************************************)
(* The organizer's jobs of one tenant in the benchmarker                   *)
(* (bench/job_organizer.go): one after the other, each opens a competition *)
(* and runs a goroutine that uploads scores, some that read the ranking    *)
(* until the uploads are over, and one that starts workers for new         *)
(* players; then it finishes the competition and returns for how many      *)
(* players it expects to be charged.  Of the server there is what the bill *)
(* is made of: the players with a score and those who visited in time.     *)
(***************************************************************************)
EXTENDS Integers, Sequences, FiniteSets, SequencesExt

CONSTANTS
    PlayerList,         \* the tenant's players, the latest first
    Enrolled,           \* how many of them there are at first
    Disqualified,
    Ranker,             \* the goroutines that read the ranking: playerWorkerNum
    MaxScoredPlayer,    \* how many players of the list a job takes, 0 for all
    ScoreRepeat,        \* uploads of a job
    NewPlayerWorkerNum, \* player workers a job is to start
    ChannelSize,        \* of WorkerCh: 10
    Jobs                \* bound on the jobs of a behaviour

Player == ToSet(PlayerList)
Job == 1..Jobs
None == -1

ASSUME OrganizerJobAssumption ==
    /\ IsFiniteSet(Ranker) /\ PlayerList \in Seq(Player)
    /\ Enrolled \in 1..Len(PlayerList) /\ Disqualified \subseteq Player
    /\ MaxScoredPlayer \in Nat /\ ScoreRepeat \in Nat \ {0}
    /\ NewPlayerWorkerNum \in Nat /\ ChannelSize \in Nat \ {0} /\ Jobs \in Nat

VARIABLES
    (* of the tenant and the server *)
    enrolled, scores, visitors, finished,
    (* of the load *)
    ctxDone, workerCh, running,
    (* of the check against starting a player twice *)
    kicked, kicking,
    (* of the job: its main goroutine, the list it read, and its result *)
    main, job, players, playerIDs, taken, result, failed,
    (* of its goroutines *)
    doneCh, uploads, scorer, ranker, reader, scoreDone, lastSeen, ranks, starter, next, added

server == <<enrolled, scores, visitors, finished>>
load == <<ctxDone, workerCh, running>>
outside == <<server, load>>
kicks == <<kicked, kicking>>
listed == <<players, taken>>
plan == <<main, job, listed, result>>
uploading == <<doneCh, uploads, scorer>>
rankers == <<ranker, reader, scoreDone, lastSeen, ranks>>
starting == <<starter, next, added>>
goroutines == <<uploading, rankers, starting>>
vars == <<outside, kicks, plan, playerIDs, failed, goroutines>>

Init ==
    /\ enrolled = Enrolled
    /\ scores = [j \in Job |-> {}] /\ visitors = [j \in Job |-> {}]
    /\ finished = [j \in Job |-> FALSE]
    /\ ctxDone = FALSE /\ workerCh = {} /\ running = {}
    /\ kicked = {} /\ kicking = {}
    /\ main = "ended" /\ job = 0 /\ players = {} /\ playerIDs = {} /\ taken = <<>>
    /\ result = [j \in Job |-> None] /\ failed = FALSE
    /\ doneCh = FALSE /\ uploads = 0 /\ scorer = "done"
    /\ ranker = [r \in Ranker |-> "done"] /\ reader \in [Ranker -> {PlayerList[1]}]
    /\ scoreDone = [r \in Ranker |-> FALSE]
    /\ lastSeen = [r \in Ranker |-> 0] /\ ranks = [r \in Ranker |-> {}]
    /\ starter = "done" /\ next = 1 /\ added = 0

-----------------------------------------------------------------------------
(* The main goroutine *)

Begin ==
    /\ main \in {"ended", "failed"} /\ ~ctxDone /\ job < Jobs
    /\ main' = "list" /\ failed' = FALSE
    /\ UNCHANGED <<outside, goroutines, kicks, listed, job, playerIDs, result>>

(* The scenario adds players between two jobs. *)
AddPlayers ==
    /\ main = "ended" /\ ~ctxDone /\ enrolled < Len(PlayerList)
    /\ enrolled' = enrolled + 1
    /\ UNCHANGED <<plan, load, goroutines, kicks, scores, visitors, finished, playerIDs, failed>>

List == SubSeq(PlayerList, Len(PlayerList) - enrolled + 1, Len(PlayerList))
Taken == IF MaxScoredPlayer \in 1..Len(List) THEN SubSeq(List, 1, MaxScoredPlayer) ELSE List

(* The players of qualifyPlayerIDs, which has them in the order of the list. *)
Qualified(list) == ToSet(list) \ Disqualified

(* Mutant: players who are disqualified are left out of the map, not of the list. *)
ListPlayersHalf ==
    /\ main = "list" /\ ~ctxDone
    /\ taken' = Taken /\ players' = Qualified(Taken) /\ playerIDs' = ToSet(Taken)
    /\ main' = IF Qualified(Taken) = {} THEN "failed" ELSE "add"
    /\ UNCHANGED <<outside, goroutines, kicks, job, result, failed>>

ListPlayers ==
    /\ main = "list" /\ ~ctxDone
    /\ taken' = Taken /\ players' = ToSet(Taken) /\ playerIDs' = ToSet(Taken)
    /\ main' = IF Qualified(Taken) = {} THEN "failed" ELSE "add"
    /\ UNCHANGED <<outside, goroutines, kicks, job, result, failed>>

(* The competition is there, and the goroutines start. *)
AddCompetition ==
    /\ main = "add" /\ ~ctxDone
    /\ main' = "run" /\ job' = job + 1
    /\ doneCh' = FALSE /\ uploads' = 0 /\ scorer' = "upload"
    /\ ranker' = [r \in Ranker |-> "check"] /\ reader' \in [Ranker -> Qualified(taken)]
    /\ scoreDone' = [r \in Ranker |-> FALSE]
    /\ lastSeen' = [r \in Ranker |-> 0] /\ ranks' = [r \in Ranker |-> {}]
    /\ starter' = "look" /\ next' = 1 /\ added' = 0
    /\ UNCHANGED <<outside, kicks, listed, playerIDs, result, failed>>

(* eg.Wait() *)
Wait ==
    /\ main = "run"
    /\ scorer = "done" /\ starter = "done" /\ \A r \in Ranker : ranker[r] = "done"
    /\ main' = IF failed THEN "failed" ELSE "finish"
    /\ UNCHANGED <<outside, goroutines, kicks, listed, job, playerIDs, result, failed>>

(* Mutant: the result counts the players that are not disqualified. *)
FinishCountsQualified ==
    /\ main = "finish" /\ ~ctxDone
    /\ finished' = [finished EXCEPT ![job] = TRUE]
    /\ result' = [result EXCEPT ![job] = Cardinality(Qualified(taken))]
    /\ main' = "ended"
    /\ UNCHANGED <<load, goroutines, kicks, listed, enrolled, scores, visitors, job, playerIDs,
                   failed>>

Finish ==
    /\ main = "finish" /\ ~ctxDone
    /\ finished' = [finished EXCEPT ![job] = TRUE]
    /\ result' = [result EXCEPT ![job] = Cardinality(players)]
    /\ main' = "ended"
    /\ UNCHANGED <<load, goroutines, kicks, listed, enrolled, scores, visitors, job, playerIDs,
                   failed>>

(* A request of the main goroutine is answered with an error, or cancelled; the *)
(* finish may have had its effect.                                             *)
JobFails ==
    /\ main \in {"list", "add", "finish"}
    /\ main' = "failed"
    /\ finished' \in {finished} \cup
           (IF main = "finish" THEN {[finished EXCEPT ![job] = TRUE]} ELSE {})
    /\ UNCHANGED <<load, goroutines, kicks, listed, enrolled, scores, visitors, job, playerIDs,
                   result, failed>>

-----------------------------------------------------------------------------
(* Uploading *)

(* What the server has after an upload: of the rows an upload adds to those of *)
(* all players, each is of a player drawn from playerIDs.                      *)
Uploaded == {[scores EXCEPT ![job] = players \cup {drawn}] : drawn \in playerIDs}

Upload ==
    /\ scorer = "upload" /\ ~ctxDone
    /\ scores' \in Uploaded
    /\ uploads' = uploads + 1
    /\ scorer' = IF uploads' = ScoreRepeat THEN "done" ELSE "upload"
    /\ doneCh' = (scorer' = "done")
    /\ UNCHANGED <<plan, load, kicks, rankers, starting, enrolled, visitors, finished, playerIDs,
                   failed>>

(* Mutant: the channel is closed after the last upload only, not deferred. *)
UploadFailsUndeferred ==
    /\ scorer = "upload"
    /\ scorer' = "done"
    /\ failed' \in {TRUE} \cup (IF ctxDone THEN {failed} ELSE {})
    /\ scores' \in {scores} \cup Uploaded
    /\ UNCHANGED <<plan, load, kicks, rankers, starting, enrolled, visitors, finished, playerIDs,
                   doneCh, uploads>>

(* An error ends the uploads and the job, a cancelled request the uploads only. *)
UploadFails ==
    /\ scorer = "upload"
    /\ scorer' = "done" /\ doneCh' = TRUE
    /\ failed' \in {TRUE} \cup (IF ctxDone THEN {failed} ELSE {})
    /\ scores' \in {scores} \cup Uploaded
    /\ UNCHANGED <<plan, load, kicks, rankers, starting, enrolled, visitors, finished, playerIDs,
                   uploads>>

-----------------------------------------------------------------------------
(* Reading the ranking *)

CheckDone(r) ==
    /\ ranker[r] = "check"
    /\ scoreDone' = [scoreDone EXCEPT ![r] = doneCh]
    /\ ranker' = [ranker EXCEPT ![r] = "get"]
    /\ UNCHANGED <<outside, plan, uploading, kicks, starting, playerIDs, failed, reader, lastSeen,
                   ranks>>

(* The server records the visit and reads the scores. *)
GetRanking(r) ==
    /\ ranker[r] = "get" /\ ~ctxDone
    /\ visitors' = [visitors EXCEPT ![job] = @ \cup {reader[r]}]
    /\ lastSeen' = [lastSeen EXCEPT ![r] = uploads]
    /\ ranks' = [ranks EXCEPT ![r] = scores[job]]
    /\ ranker' = [ranker EXCEPT ![r] = "answer"]
    /\ UNCHANGED <<plan, load, uploading, kicks, starting, enrolled, scores, finished, playerIDs,
                   failed, reader, scoreDone>>

(* Mutant: doneCh is looked at after the ranking instead of before. *)
RankingAnsweredChecksLate(r) ==
    /\ ranker[r] = "answer"
    /\ playerIDs' = playerIDs \cup ranks[r]
    /\ ranks' = [ranks EXCEPT ![r] = {}]
    /\ ranker' = [ranker EXCEPT ![r] = IF doneCh THEN "done" ELSE "check"]
    /\ UNCHANGED <<outside, plan, uploading, kicks, starting, failed, reader, scoreDone, lastSeen>>

RankingAnswered(r) ==
    /\ ranker[r] = "answer"
    /\ playerIDs' = playerIDs \cup ranks[r]
    /\ ranks' = [ranks EXCEPT ![r] = {}]
    /\ ranker' = [ranker EXCEPT ![r] = IF scoreDone[r] THEN "done" ELSE "check"]
    /\ UNCHANGED <<outside, plan, uploading, kicks, starting, failed, reader, scoreDone, lastSeen>>

RankingFails(r) ==
    /\ ranker[r] \in {"get", "answer"}
    /\ ranker' = [ranker EXCEPT ![r] = "done"]
    /\ ranks' = [ranks EXCEPT ![r] = {}]
    /\ failed' \in {TRUE} \cup (IF ctxDone THEN {failed} ELSE {})
    /\ UNCHANGED <<outside, plan, uploading, kicks, starting, playerIDs, reader, scoreDone,
                   lastSeen>>

-----------------------------------------------------------------------------
(* Starting player workers *)

(* A player who is disqualified is not in qualifyPlayerIDs, one in the map of   *)
(* started players is passed over.                                             *)
Look ==
    /\ starter = "look"
    /\ IF next > Len(taken) \/ NewPlayerWorkerNum < added
       THEN starter' = "done" /\ UNCHANGED <<next, kicking>>
       ELSE IF taken[next] \in Disqualified \cup kicked
       THEN next' = next + 1 /\ UNCHANGED <<starter, kicking>>
       ELSE starter' = "send" /\ kicking' = kicking \cup {taken[next]} /\ UNCHANGED next
    /\ UNCHANGED <<outside, plan, uploading, rankers, kicked, playerIDs, failed, added>>

(* sc.WorkerCh <- wkr; the channel's order does not matter here. *)
SendPlayer ==
    /\ starter = "send"
    /\ Cardinality(workerCh) < ChannelSize
    /\ workerCh' = workerCh \cup {<<job, taken[next]>>}
    /\ starter' = "look" /\ next' = next + 1 /\ added' = added + 1
    /\ UNCHANGED <<plan, server, uploading, kicks, rankers, ctxDone, running, playerIDs, failed>>

(* The goroutine that enters a player in the map. *)
Record(p) ==
    /\ p \in kicking
    /\ kicked' = kicked \cup {p} /\ kicking' = kicking \ {p}
    /\ UNCHANGED <<outside, plan, goroutines, playerIDs, failed>>

-----------------------------------------------------------------------------
(* The load and its players *)

LoadStarts ==
    /\ ~ctxDone
    /\ \E w \in workerCh : workerCh' = workerCh \ {w} /\ running' = running \cup {w[2]}
    /\ UNCHANGED <<plan, server, goroutines, kicks, ctxDone, playerIDs, failed>>

(* A player's worker looks at one of the competitions; a visit counts until    *)
(* the competition is finished.                                                *)
PlayerVisits(p) ==
    /\ p \in running /\ ~ctxDone
    /\ \E j \in 1..job :
          /\ ~finished[j]
          /\ visitors' = [visitors EXCEPT ![j] = @ \cup {p}]
    /\ UNCHANGED <<plan, load, goroutines, kicks, enrolled, scores, finished, playerIDs, failed>>

PlayerLeaves(p) ==
    /\ p \in running
    /\ running' = running \ {p}
    /\ UNCHANGED <<plan, server, goroutines, kicks, ctxDone, workerCh, playerIDs, failed>>

Deadline ==
    /\ ~ctxDone
    /\ ctxDone' = TRUE
    /\ UNCHANGED <<plan, server, goroutines, kicks, workerCh, running, playerIDs, failed>>

-----------------------------------------------------------------------------
Main == Begin \/ ListPlayers \/ AddCompetition \/ Wait \/ Finish \/ JobFails
Scorer == Upload \/ UploadFails
Ranking(r) == CheckDone(r) \/ GetRanking(r) \/ RankingAnswered(r) \/ RankingFails(r)
Starter == Look \/ SendPlayer

Next ==
    \/ Main \/ AddPlayers \/ Scorer \/ Starter \/ LoadStarts \/ Deadline
    \/ \E r \in Ranker : Ranking(r)
    \/ \E p \in Player : Record(p) \/ PlayerVisits(p) \/ PlayerLeaves(p)

Spec == Init /\ [][Next]_vars

(* Goroutines that can go on do, every request is answered or cancelled, and   *)
(* Load receives from WorkerCh while it runs.                                  *)
FairSpec ==
    /\ Spec
    /\ WF_vars(Main) /\ WF_vars(Scorer) /\ WF_vars(Starter) /\ WF_vars(LoadStarts)
    /\ \A r \in Ranker : WF_vars(Ranking(r))

-----------------------------------------------------------------------------
(* Properties *)

(* The channel holds what it can, and a goroutine runs only in a running job. *)
TypeOK ==
    /\ enrolled \in 1..Len(PlayerList)
    /\ scores \in [Job -> SUBSET Player] /\ visitors \in [Job -> SUBSET Player]
    /\ finished \in [Job -> BOOLEAN] /\ ctxDone \in BOOLEAN
    /\ workerCh \subseteq Job \X Player /\ Cardinality(workerCh) <= ChannelSize
    /\ running \subseteq Player /\ kicked \subseteq Player /\ kicking \subseteq Player
    /\ main \in {"list", "add", "run", "finish", "ended", "failed"} /\ job \in 0..Jobs
    /\ players \subseteq Player /\ playerIDs \subseteq Player /\ taken \in Seq(Player)
    /\ result \in [Job -> {None} \cup 1..Len(PlayerList)] /\ failed \in BOOLEAN
    /\ doneCh \in BOOLEAN /\ uploads \in 0..ScoreRepeat
    /\ scorer \in {"upload", "done"} /\ starter \in {"look", "send", "done"}
    /\ ranker \in [Ranker -> {"check", "get", "answer", "done"}]
    /\ reader \in [Ranker -> Player] /\ scoreDone \in [Ranker -> BOOLEAN]
    /\ lastSeen \in [Ranker -> 0..ScoreRepeat] /\ ranks \in [Ranker -> SUBSET Player]
    /\ next \in 1..(Len(PlayerList) + 1) /\ added \in 0..Len(PlayerList)
    /\ main # "run" => scorer = "done" /\ starter = "done" /\ \A r \in Ranker : ranker[r] = "done"

(* The map of players has everyone whom the rankings the other goroutines read *)
(* may have brought into the list an upload draws from: a player who is not in *)
(* the map is a nil dereference.                                               *)
EveryDrawnPlayerKnown == main \in {"add", "run"} => playerIDs \subseteq players

(* When the competition is about to be finished, every reader of its ranking   *)
(* has read it once more after the last upload.                                *)
LastRankingIsFinal ==
    main = "finish" /\ ~ctxDone =>
        uploads = ScoreRepeat /\ \A r \in Ranker : lastSeen[r] = ScoreRepeat

(* A player with a score is 100 yen, a visitor without one 10. *)
Bill(j) == 100 * Cardinality(scores[j]) + 10 * Cardinality(visitors[j] \ scores[j])

(* What the validation of the bill adds for a job that returned is what the    *)
(* server charges: nobody without a score has looked at the ranking before the *)
(* finish, neither a reader of the job nor a player worker of an earlier one.  *)
BillIsAsResult == \A j \in Job : result[j] # None => Bill(j) = 100 * result[j]

(* A job comes to its end, unless it wants to start a player when the load is  *)
(* over and the channel full.                                                  *)
JobEnds ==
    []<>(\/ main \in {"ended", "failed"}
         \/ ctxDone /\ starter = "send" /\ Cardinality(workerCh) = ChannelSize)
============================================================================
