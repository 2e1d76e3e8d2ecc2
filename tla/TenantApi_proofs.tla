-------------------------- MODULE TenantApi_proofs --------------------------
(* Theorems about TenantApi, for every set of requests, participants,       *)
(* competitions and files, whatever the faults and the endpoints called; the *)
(* last of them that it implements ScoreBoard: the lock, the DELETE and the  *)
(* INSERTs look like one step.                                               *)
EXTENDS TenantApi, SequenceTheorems, TLAPS

-----------------------------------------------------------------------------
(* The first rows of a file *)

LEMMA NoRows == ASSUME NEW csv PROVE RowsUpTo(csv, 0) = {}
  BY DEF RowsUpTo

LEMMA OneMoreRow ==
  ASSUME NEW csv, NEW k \in Nat \ {0}
  PROVE  RowsUpTo(csv, k) = RowsUpTo(csv, k - 1) \cup {RowOf(csv, k)}
  BY DEF RowsUpTo

LEMMA RowType ==
  ASSUME NEW csv \in CSV, NEW k \in DOMAIN csv
  PROVE  RowOf(csv, k) \in Row
  <1> DEFINE Lines == [player : Player, score : Int]
  <1>1. csv \in Seq(Lines)
    BY ConstantsAssumption
  <1>2. k \in 1..Len(csv) /\ Len(csv) \in Nat
    <2> HIDE DEF Lines
    <2> QED
      BY <1>1, LenProperties
  <1>3. csv[k] \in Lines
    <2> HIDE DEF Lines
    <2> QED
      BY <1>1, <1>2, ElementOfSeq
  <1> QED
    BY <1>2, <1>3 DEF RowOf, Row

-----------------------------------------------------------------------------
(* Type correctness *)

LEMMA ResponseType ==
  ASSUME NEW api \in Endpoints \cup {"none", "error"},
         NEW code \in StatusCode, NEW c \in Competition \cup {NULL},
         NEW rows \in SUBSET Row, NEW reports \in SUBSET Report,
         NEW fin \in SUBSET Competition
  PROVE  Response(api, code, c, rows, reports, fin) \in Answer
  BY DEF Response, Answer

LEMMA StatusType ==
  ASSUME NEW api \in Endpoints \cup {"none", "error"},
         NEW code \in StatusCode
  PROVE  Status(api, code) \in Answer
  BY ResponseType DEF Status

LEMMA IdleType == Idle \in Local
  BY DEF Idle, Local

(* The assignments the handlers make to their locals. *)
LEMMA LocalType ==
  ASSUME NEW q \in Local
  PROVE  /\ \A c \in Competition, csv \in CSV :
               [q EXCEPT !.competition = c, !.csv = csv] \in Local
         /\ \A c \in Competition, t \in Nat : [q EXCEPT !.competition = c, !.at = t] \in Local
         /\ \A c \in Competition, t \in Nat, u \in Nat \cup {NULL} :
               [q EXCEPT !.competition = c, !.fin = u, !.at = t] \in Local
         /\ \A c \in Competition, u \in Nat \cup {NULL}, cs \in SUBSET Competition :
               [q EXCEPT !.competition = c, !.fin = u, !.todo = cs] \in Local
         /\ \A c \in Competition : [q EXCEPT !.competition = c] \in Local
         /\ \A p \in Player : [q EXCEPT !.player = p] \in Local
         /\ \A p \in Player, cs \in SUBSET Competition :
               [q EXCEPT !.player = p, !.todo = cs] \in Local
         /\ \A n \in Nat : [q EXCEPT !.next = n] \in Local
         /\ \A cs \in SUBSET Competition, settled \in SUBSET (Competition \X Nat) :
               [q EXCEPT !.todo = cs, !.settled = settled] \in Local
         /\ \A ps \in SUBSET Player : [q EXCEPT !.visitors = ps] \in Local
         /\ \A reports \in SUBSET Report : [q EXCEPT !.reports = reports] \in Local
  <1>1. \A c \in Competition, csv \in CSV :
            [q EXCEPT !.competition = c, !.csv = csv] \in Local
    BY DEF Local
  <1>2. \A c \in Competition, t \in Nat : [q EXCEPT !.competition = c, !.at = t] \in Local
    BY DEF Local
  <1>3. \A c \in Competition, t \in Nat, u \in Nat \cup {NULL} :
            [q EXCEPT !.competition = c, !.fin = u, !.at = t] \in Local
    BY DEF Local
  <1>4. \A c \in Competition, u \in Nat \cup {NULL}, cs \in SUBSET Competition :
            [q EXCEPT !.competition = c, !.fin = u, !.todo = cs] \in Local
    BY DEF Local
  <1>5. \A c \in Competition : [q EXCEPT !.competition = c] \in Local
    BY DEF Local
  <1>6. \A p \in Player : [q EXCEPT !.player = p] \in Local
    BY DEF Local
  <1>7. \A p \in Player, cs \in SUBSET Competition :
            [q EXCEPT !.player = p, !.todo = cs] \in Local
    BY DEF Local
  <1>8. \A n \in Nat : [q EXCEPT !.next = n] \in Local
    BY DEF Local
  <1>9. \A cs \in SUBSET Competition, settled \in SUBSET (Competition \X Nat) :
            [q EXCEPT !.todo = cs, !.settled = settled] \in Local
    BY DEF Local
  <1>10. \A ps \in SUBSET Player : [q EXCEPT !.visitors = ps] \in Local
    BY DEF Local
  <1>11. \A reports \in SUBSET Report : [q EXCEPT !.reports = reports] \in Local
    BY DEF Local
  <1> QED
    BY <1>1, <1>2, <1>3, <1>4, <1>5, <1>6, <1>7, <1>8, <1>9, <1>10, <1>11

(* A step of r that only moves r and sets its locals leaves the others alone. *)
LEMMA LocalsType ==
  ASSUME LocalsOK, ControlOK, NEW r \in Request, NEW label, NEW q \in Local,
         Goto(r, label), req' = [req EXCEPT ![r] = q],
         label \in NeedsCompetition => q.competition \in Competition,
         label \in NeedsPlayer => q.player \in Player,
         label \in NeedsCsv => q.csv \in CSV,
         label \in NeedsTime => q.at \in Nat
  PROVE  LocalsOK'
  <1>1. \A s \in Request : pc'[s] = IF s = r THEN label ELSE pc[s]
    BY DEF ControlOK, Goto
  <1>2. \A s \in Request : req'[s] = IF s = r THEN q ELSE req[s]
    BY DEF LocalsOK
  <1>3. req' \in [Request -> Local]
    BY DEF LocalsOK
  <1> QED
    BY <1>1, <1>2, <1>3 DEF LocalsOK

LEMMA InitTypeOK == Init => TypeOK
  <1> SUFFICES ASSUME Init PROVE TypeOK
    OBVIOUS
  <1>1. TablesOK
    BY ConstantsAssumption DEF Init, TablesOK
  <1>2. ControlOK
    BY DEF Init, ControlOK, Labels
  <1>3. LocalsOK
    BY IdleType DEF Init, LocalsOK, NeedsCompetition, NeedsPlayer, NeedsCsv, NeedsTime
  <1>4. AnswerOK
    BY StatusType DEF Init, AnswerOK, NoAnswer, StatusCode
  <1> QED
    BY <1>1, <1>2, <1>3, <1>4 DEF TypeOK

(* Returning from a handler keeps everything but the tables in order. *)
LEMMA ReturnType ==
  ASSUME ControlOK, LocalsOK, NEW r \in Request, NEW response \in Answer, Return(r, response)
  PROVE  ControlOK' /\ LocalsOK' /\ AnswerOK'
  <1>1. ControlOK'
    BY DEF ControlOK, Return, Goto, Unlock, Labels
  <1>2. LocalsOK'
    BY IdleType DEF ControlOK, LocalsOK, Return, Goto, NeedsCompetition, NeedsPlayer,
       NeedsCsv, NeedsTime
  <1>3. AnswerOK'
    BY DEF Return, AnswerOK
  <1> QED
    BY <1>1, <1>2, <1>3

LEMMA SameTables == ASSUME TablesOK, UNCHANGED <<tables, now>> PROVE TablesOK'
  BY DEF TablesOK, tables

LEMMA RefusalType ==
  ASSUME TypeOK, NEW r \in Request, NEW api \in Endpoints \cup {"error"},
         NEW code \in StatusCode, Return(r, Status(api, code)), UNCHANGED <<tables, now>>
  PROVE  TypeOK'
  BY StatusType, ReturnType, SameTables DEF TypeOK

LEMMA LockType ==
  ASSUME TypeOK, NEW r \in Request, LockStep(r)
  PROVE  TypeOK'
  <1>1. TablesOK' /\ AnswerOK'
    BY DEF TypeOK, TablesOK, AnswerOK, LockStep, ScoreLock, RankingLock, PlayerLock,
       BillingLock, Lock, tables
  <1>2. ControlOK'
    BY DEF TypeOK, ControlOK, LockStep, ScoreLock, RankingLock, PlayerLock,
       BillingLock, Lock, Goto, Labels
  <1>3. LocalsOK'
    BY DEF TypeOK, ControlOK, LocalsOK, LockStep, ScoreLock, RankingLock, PlayerLock,
       BillingLock, Lock, Goto, NeedsCompetition, NeedsPlayer, NeedsCsv, NeedsTime
  <1> QED
    BY <1>1, <1>2, <1>3 DEF TypeOK

(* A step of r that sets locals, moves on, and keeps the tables in order. *)
LEMMA MoveType ==
  ASSUME TypeOK, NEW r \in Request, NEW label \in Labels, NEW q \in Local,
         Goto(r, label), req' = [req EXCEPT ![r] = q],
         label \in NeedsCompetition => q.competition \in Competition,
         label \in NeedsPlayer => q.player \in Player,
         label \in NeedsCsv => q.csv \in CSV,
         label \in NeedsTime => q.at \in Nat,
         TablesOK', flock' \in {flock, NoOne}, answer' = answer
  PROVE  TypeOK'
  <1>1. ControlOK'
    BY DEF TypeOK, ControlOK, Goto
  <1>2. LocalsOK'
    BY LocalsType DEF TypeOK
  <1>3. AnswerOK'
    BY DEF TypeOK, AnswerOK
  <1> QED
    BY <1>1, <1>2, <1>3 DEF TypeOK

LEMMA ScoreType ==
  ASSUME TypeOK, NEW r \in Request,
         ScoreReceive(r) \/ ScoreRefuse(r) \/ ScoreParse(r) \/ ScoreDelete(r)
         \/ ScoreInsert(r) \/ ScoreReturn(r)
  PROVE  TypeOK'
  <1> USE DEF TypeOK
  <1>1. CASE ScoreReceive(r)
    <2>1. TablesOK' /\ AnswerOK'
      BY <1>1 DEF TablesOK, AnswerOK, ScoreReceive, tables
    <2>2. ControlOK'
      BY <1>1 DEF ControlOK, ScoreReceive, Goto, Labels
    <2>3. LocalsOK'
      <3>1. PICK c \in competition, csv \in CSV :
               req' = [req EXCEPT ![r].competition = c, ![r].csv = csv]
        BY <1>1 DEF ScoreReceive
      <3> DEFINE q == [req[r] EXCEPT !.competition = c, !.csv = csv]
      <3>2. c \in Competition /\ req[r] \in Local
        BY DEF TablesOK, LocalsOK
      <3>3. q \in Local /\ q.competition = c /\ q.csv = csv
        <4>1. q \in Local
          BY <3>2, LocalType
        <4>2. q.competition = c /\ q.csv = csv
          BY <3>2 DEF Local
        <4> QED
          BY <4>1, <4>2
      <3>4. req' = [req EXCEPT ![r] = q] /\ Goto(r, "score_lock")
        BY <1>1, <3>1 DEF ScoreReceive
      <3> HIDE DEF q
      <3> QED
        BY <3>2, <3>3, <3>4, LocalsType DEF NeedsPlayer, NeedsTime
    <2> QED
      BY <2>1, <2>2, <2>3
  <1>2. CASE ScoreRefuse(r)
    BY <1>2, RefusalType DEF ScoreRefuse, Endpoints, StatusCode
  <1>3. CASE ScoreParse(r)
    <2>1. CASE \E code \in {400, 500} : Return(r, Status("score", code))
      BY <1>3, <2>1, RefusalType DEF ScoreParse, Endpoints, StatusCode
    <2>2. CASE Goto(r, "score_delete") /\ UNCHANGED <<flock, req, answer>>
      <3>1. TablesOK' /\ AnswerOK'
        BY <1>3, <2>2, SameTables DEF AnswerOK, ScoreParse
      <3>2. ControlOK'
        BY <2>2 DEF ControlOK, Goto, Labels
      <3>3. LocalsOK'
        BY <1>3, <2>2 DEF ControlOK, LocalsOK, ScoreParse, Goto,
           NeedsCompetition, NeedsPlayer, NeedsCsv, NeedsTime
      <3> QED
        BY <3>1, <3>2, <3>3
    <2> QED
      BY <1>3, <2>1, <2>2 DEF ScoreParse
  <1>4. CASE ScoreDelete(r)
    <2>1. TablesOK' /\ AnswerOK'
      BY <1>4 DEF TablesOK, AnswerOK, ScoreDelete
    <2>2. ControlOK'
      BY <1>4 DEF ControlOK, ScoreDelete, Goto, Labels
    <2>3. LocalsOK'
      <3> DEFINE q == [req[r] EXCEPT !.next = 1]
      <3>1. req[r] \in Local /\ req[r].competition \in Competition /\ req[r].csv \in CSV
        BY <1>4 DEF LocalsOK, ScoreDelete, NeedsCompetition, NeedsCsv
      <3>2. q \in Local /\ q.competition = req[r].competition /\ q.csv = req[r].csv
        <4>1. q \in Local
          BY <3>1, LocalType
        <4>2. q.competition = req[r].competition /\ q.csv = req[r].csv
          BY <3>1 DEF Local
        <4> QED
          BY <4>1, <4>2
      <3>3. req' = [req EXCEPT ![r] = q] /\ Goto(r, "score_insert")
        BY <1>4 DEF ScoreDelete
      <3> HIDE DEF q
      <3> QED
        BY <3>1, <3>2, <3>3, LocalsType DEF NeedsPlayer, NeedsTime
    <2> QED
      BY <2>1, <2>2, <2>3
  <1>5. CASE ScoreInsert(r)
    <2>1. RowOf(req[r].csv, req[r].next) \in Row
      BY <1>5, RowType DEF ScoreInsert, LocalsOK, NeedsCsv
    <2>2. TablesOK' /\ AnswerOK'
      BY <1>5, <2>1 DEF TablesOK, AnswerOK, ScoreInsert
    <2>3. ControlOK'
      BY <1>5 DEF ControlOK, ScoreInsert
    <2>4. LocalsOK'
      <3> DEFINE q == [req[r] EXCEPT !.next = @ + 1]
      <3>1. req[r] \in Local /\ req[r].next + 1 \in Nat
            /\ req[r].competition \in Competition /\ req[r].csv \in CSV
        BY <1>5 DEF LocalsOK, Local, ScoreInsert, NeedsCompetition, NeedsCsv
      <3>2. q \in Local /\ q.competition = req[r].competition /\ q.csv = req[r].csv
        <4>1. q \in Local
          BY <3>1, LocalType
        <4>2. q.competition = req[r].competition /\ q.csv = req[r].csv
          BY <3>1 DEF Local
        <4> QED
          BY <4>1, <4>2
      <3>3. req' = [req EXCEPT ![r] = q] /\ Goto(r, "score_insert")
        BY <1>5 DEF ScoreInsert, ControlOK, Goto
      <3> HIDE DEF q
      <3> QED
        BY <3>1, <3>2, <3>3, LocalsType DEF NeedsPlayer, NeedsTime
    <2> QED
      BY <2>2, <2>3, <2>4
  <1>6. CASE ScoreReturn(r)
    BY <1>6, RefusalType DEF ScoreReturn, Endpoints, StatusCode
  <1> QED
    BY <1>1, <1>2, <1>3, <1>4, <1>5, <1>6

LEMMA FinishType ==
  ASSUME TypeOK, NEW r \in Request, FinishReceive(r) \/ FinishUpdate(r)
  PROVE  TypeOK'
  <1> USE DEF TypeOK
  <1>1. CASE FinishReceive(r)
    <2>1. CASE Return(r, Status("finish", 404))
      BY <1>1, <2>1, RefusalType DEF FinishReceive, Endpoints, StatusCode
    <2>2. ASSUME NEW c \in competition,
                 req' = [req EXCEPT ![r].competition = c, ![r].at = now],
                 Goto(r, "finish_update"), UNCHANGED <<flock, answer>>
          PROVE  TypeOK'
      <3>1. TablesOK' /\ AnswerOK'
        BY <1>1, <2>2, SameTables DEF AnswerOK, FinishReceive
      <3>2. ControlOK'
        BY <2>2 DEF ControlOK, Goto, Labels
      <3>3. LocalsOK'
        <4> DEFINE q == [req[r] EXCEPT !.competition = c, !.at = now]
        <4>1. c \in Competition /\ now \in Nat /\ req[r] \in Local
          BY <2>2 DEF TablesOK, LocalsOK
        <4>2. q \in Local /\ q.competition = c /\ q.at = now
          <5>1. q \in Local
            BY <4>1, LocalType
          <5>2. q.competition = c /\ q.at = now
            BY <4>1 DEF Local
          <5> QED
            BY <5>1, <5>2
        <4>3. req' = [req EXCEPT ![r] = q]
          BY <2>2
        <4> HIDE DEF q
        <4> QED
          BY <2>2, <4>1, <4>2, <4>3, LocalsType DEF NeedsPlayer, NeedsCsv
      <3> QED
        BY <3>1, <3>2, <3>3
    <2> QED
      BY <1>1, <2>1, <2>2 DEF FinishReceive
  <1>2. CASE FinishUpdate(r)
    <2>1. TablesOK'
      BY <1>2 DEF TablesOK, LocalsOK, NeedsTime, FinishUpdate
    <2>2. Status("finish", 200) \in Answer
      BY StatusType DEF Endpoints, StatusCode
    <2> QED
      BY <1>2, <2>1, <2>2, ReturnType DEF FinishUpdate
  <1> QED
    BY <1>1, <1>2

LEMMA RankingType ==
  ASSUME TypeOK, NEW r \in Request,
         RankingReceive(r) \/ RankingCompetition(r) \/ RankingVisit(r) \/ RankingRead(r)
  PROVE  TypeOK'
  <1> USE DEF TypeOK
  <1>0. req[r] \in Local
    BY DEF LocalsOK
  <1>1. CASE RankingReceive(r)
    <2>1. PICK p \in Player :
             \/ /\ req' = [req EXCEPT ![r].player = p]
                /\ Goto(r, "ranking_competition")
                /\ UNCHANGED <<flock, answer>>
             \/ Return(r, Status("ranking", Unauthorized(p)))
      BY <1>1 DEF RankingReceive
    <2>2. UNCHANGED <<tables, now>>
      BY <1>1 DEF RankingReceive
    <2>3. CASE Return(r, Status("ranking", Unauthorized(p)))
      BY <2>2, <2>3, RefusalType DEF Endpoints, StatusCode, Unauthorized
    <2>4. CASE /\ req' = [req EXCEPT ![r].player = p]
               /\ Goto(r, "ranking_competition")
               /\ UNCHANGED <<flock, answer>>
      <3> DEFINE q == [req[r] EXCEPT !.player = p]
      <3>1. q \in Local
        BY <1>0, LocalType
      <3>2. q.player = p
        BY <1>0 DEF Local
      <3>3. req' = [req EXCEPT ![r] = q] /\ TablesOK'
        BY <2>2, <2>4, SameTables
      <3> HIDE DEF q
      <3> QED
        BY <2>4, <3>1, <3>2, <3>3, MoveType
           DEF Labels, NeedsCompetition, NeedsCsv, NeedsTime
    <2> QED
      BY <2>1, <2>3, <2>4
  <1>2. CASE RankingCompetition(r)
    <2>0. UNCHANGED <<tables, now>>
      BY <1>2 DEF RankingCompetition
    <2>1. CASE Return(r, Status("ranking", 404))
      BY <2>0, <2>1, RefusalType DEF Endpoints, StatusCode
    <2>2. ASSUME NEW c \in competition,
                 req' = [req EXCEPT ![r].competition = c, ![r].fin = finishedAt[c], ![r].at = now],
                 Goto(r, "ranking_visit"), UNCHANGED <<flock, answer>>
          PROVE  TypeOK'
      <3> DEFINE q == [req[r] EXCEPT !.competition = c, !.fin = finishedAt[c], !.at = now]
      <3>0. c \in Competition /\ now \in Nat /\ finishedAt[c] \in Nat \cup {NULL}
        BY DEF TablesOK
      <3>1. q \in Local
        BY <1>0, <3>0, LocalType
      <3>2. q.competition = c /\ q.at = now /\ q.player = req[r].player
        BY <1>0 DEF Local
      <3>3. req[r].player \in Player
        BY <1>2 DEF RankingCompetition, LocalsOK, NeedsPlayer
      <3>4. req' = [req EXCEPT ![r] = q] /\ TablesOK'
        BY <1>2, <2>2, SameTables DEF RankingCompetition
      <3> HIDE DEF q
      <3> QED
        BY <2>2, <3>0, <3>1, <3>2, <3>3, <3>4, MoveType DEF Labels, NeedsCsv
    <2> QED
      BY <1>2, <2>1, <2>2 DEF RankingCompetition
  <1>3. CASE RankingVisit(r)
    <2> DEFINE visit == [player |-> req[r].player, competition |-> req[r].competition,
                         at |-> req[r].at]
    <2>a. pc[r] = "ranking_visit"
      BY <1>3 DEF RankingVisit
    <2>b. req[r].competition \in Competition /\ req[r].player \in Player
      BY <2>a DEF LocalsOK, NeedsCompetition, NeedsPlayer
    <2>c. req[r].at \in Nat
      BY <2>a DEF LocalsOK, NeedsTime
    <2>0. visit \in Visit
      BY <2>b, <2>c DEF Visit
    <2>1. TablesOK'
      <3>1. visitHistory' = visitHistory \cup {visit}
        BY <1>3 DEF RankingVisit
      <3> HIDE DEF visit
      <3> QED
        BY <1>3, <2>0, <3>1 DEF TablesOK, RankingVisit
    <2>2. CASE Return(r, Status("ranking", 500))
      <3>1. Status("ranking", 500) \in Answer
        BY StatusType DEF Endpoints, StatusCode
      <3> QED
        BY <2>1, <2>2, <3>1, ReturnType
    <2>3. CASE Goto(r, "ranking_lock") /\ UNCHANGED <<flock, req, answer>>
      <3>1. req' = [req EXCEPT ![r] = req[r]]
        BY <2>3 DEF LocalsOK
      <3>2. req[r].competition \in Competition /\ req[r].player \in Player
        BY <1>3 DEF RankingVisit, LocalsOK, NeedsCompetition, NeedsPlayer
      <3> QED
        BY <1>0, <2>1, <2>3, <3>1, <3>2, MoveType DEF Labels, NeedsCsv, NeedsTime
    <2> QED
      BY <1>3, <2>2, <2>3 DEF RankingVisit
  <1>4. CASE RankingRead(r)
    <2> DEFINE c == req[r].competition
               rows == playerScore[c]
               fin == IF req[r].fin = NULL THEN {} ELSE {c}
    <2>1. c \in Competition /\ rows \in SUBSET Row /\ fin \in SUBSET Competition
      BY <1>4 DEF RankingRead, TablesOK, LocalsOK, NeedsCompetition
    <2>2. Return(r, Response("ranking", 200, c, rows, {}, fin)) /\ UNCHANGED <<tables, now>>
      BY <1>4 DEF RankingRead
    <2> HIDE DEF c, rows, fin
    <2>3. Response("ranking", 200, c, rows, {}, fin) \in Answer
      BY <2>1, ResponseType DEF Endpoints, StatusCode
    <2> QED
      BY <2>2, <2>3, ReturnType, SameTables
  <1> QED
    BY <1>1, <1>2, <1>3, <1>4

LEMMA PlayerType ==
  ASSUME TypeOK, NEW r \in Request, PlayerReceive(r) \/ PlayerRetrieve(r) \/ PlayerRead(r)
  PROVE  TypeOK'
  <1> USE DEF TypeOK
  <1>1. CASE PlayerReceive(r)
    <2>1. PICK p \in Player :
             \/ Goto(r, "player_retrieve") /\ UNCHANGED <<flock, req, answer>>
             \/ Return(r, Status("player", Unauthorized(p)))
      BY <1>1 DEF PlayerReceive
    <2>2. UNCHANGED <<tables, now>>
      BY <1>1 DEF PlayerReceive
    <2>3. CASE Return(r, Status("player", Unauthorized(p)))
      BY <2>2, <2>3, RefusalType DEF Endpoints, StatusCode, Unauthorized
    <2>4. CASE Goto(r, "player_retrieve") /\ UNCHANGED <<flock, req, answer>>
      <3>1. req' = [req EXCEPT ![r] = req[r]] /\ req[r] \in Local /\ TablesOK'
        BY <2>2, <2>4, SameTables DEF LocalsOK
      <3> QED
        BY <2>4, <3>1, MoveType DEF Labels, NeedsCompetition, NeedsPlayer, NeedsCsv, NeedsTime
    <2> QED
      BY <2>1, <2>3, <2>4
  <1>2. CASE PlayerRetrieve(r)
    <2>1. CASE Return(r, Status("player", 404))
      BY <1>2, <2>1, RefusalType DEF PlayerRetrieve, Endpoints, StatusCode
    <2>2. ASSUME NEW p \in player,
                 req' = [req EXCEPT ![r].player = p, ![r].todo = competition],
                 Goto(r, "player_lock"), UNCHANGED <<flock, answer>>
          PROVE  TypeOK'
      <3> DEFINE q == [req[r] EXCEPT !.player = p, !.todo = competition]
      <3>0. p \in Player /\ competition \in SUBSET Competition /\ req[r] \in Local
        BY DEF TablesOK, LocalsOK
      <3>1. q \in Local
        BY <3>0, LocalType
      <3>2. q.player = p
        BY <3>0 DEF Local
      <3>3. req' = [req EXCEPT ![r] = q] /\ TablesOK'
        BY <1>2, <2>2, SameTables DEF PlayerRetrieve
      <3> HIDE DEF q
      <3> QED
        BY <2>2, <3>0, <3>1, <3>2, <3>3, MoveType
           DEF Labels, NeedsCompetition, NeedsCsv, NeedsTime
    <2> QED
      BY <1>2, <2>1, <2>2 DEF PlayerRetrieve
  <1>3. CASE PlayerRead(r)
    <2> DEFINE rows == UNION {LastRow(playerScore[c], req[r].player) : c \in req[r].todo}
    <2>1. req[r].todo \subseteq Competition
      BY DEF LocalsOK, Local
    <2>2. rows \in SUBSET Row
      BY <2>1 DEF TablesOK, LastRow
    <2>3. Return(r, Response("player", 200, NULL, rows, {}, {})) /\ UNCHANGED <<tables, now>>
      BY <1>3 DEF PlayerRead
    <2> HIDE DEF rows
    <2>4. Response("player", 200, NULL, rows, {}, {}) \in Answer
      BY <2>2, ResponseType DEF Endpoints, StatusCode
    <2> QED
      BY <2>3, <2>4, ReturnType, SameTables
  <1> QED
    BY <1>1, <1>2, <1>3

LEMMA ReportType ==
  ASSUME NEW c \in Competition, NEW fin, NEW visitors \in SUBSET Player,
         NEW scored \in SUBSET Player
  PROVE  ReportOf(c, fin, visitors, scored) \in Report
  BY DEF ReportOf, Report

LEMMA BillingType ==
  ASSUME TypeOK, NEW r \in Request,
         BillingReceive(r) \/ BillingCompetition(r) \/ BillingVisits(r) \/ BillingCount(r)
  PROVE  TypeOK'
  <1> USE DEF TypeOK
  <1>0. req[r] \in Local
    BY DEF LocalsOK
  <1>1. CASE BillingReceive(r)
    <2>1. CASE Return(r, Status("billing", 200))
      BY <1>1, <2>1, RefusalType DEF BillingReceive, Endpoints, StatusCode
    <2>2. CASE /\ req' = [req EXCEPT ![r].todo = competition, ![r].settled = SettledBills]
               /\ Goto(r, "billing_competition")
               /\ UNCHANGED <<flock, answer>>
      <3> DEFINE q == [req[r] EXCEPT !.todo = competition, !.settled = SettledBills]
      <3>1. competition \in SUBSET Competition
        BY DEF TablesOK
      <3>2. SettledBills \in SUBSET (Competition \X Nat)
        BY DEF SettledBills, Settled, Drained, Finished, TablesOK
      <3>3. q \in Local
        BY <1>0, <3>1, <3>2, LocalType
      <3>4. req' = [req EXCEPT ![r] = q] /\ TablesOK'
        BY <1>1, <2>2, SameTables DEF BillingReceive
      <3> HIDE DEF q
      <3> QED
        BY <2>2, <3>3, <3>4, MoveType
           DEF Labels, NeedsCompetition, NeedsPlayer, NeedsCsv, NeedsTime
    <2> QED
      BY <1>1, <2>1, <2>2 DEF BillingReceive
  <1>2. CASE BillingCompetition(r)
    <2>1. PICK c \in req[r].todo :
             req' = [req EXCEPT ![r].competition = c, ![r].fin = finishedAt[c],
                                ![r].todo = @ \ {c}]
      BY <1>2 DEF BillingCompetition
    <2> DEFINE q == [req[r] EXCEPT !.competition = c, !.fin = finishedAt[c], !.todo = @ \ {c}]
    <2>2. c \in Competition /\ req[r].todo \ {c} \in SUBSET Competition
      BY <1>0 DEF Local
    <2>3. finishedAt[c] \in Nat \cup {NULL}
      BY <2>2 DEF TablesOK
    <2>4. q \in Local
      BY <1>0, <2>2, <2>3, LocalType
    <2>5. q.competition = c
      BY <1>0 DEF Local
    <2>6. req' = [req EXCEPT ![r] = q] /\ TablesOK'
      BY <1>2, <2>1, SameTables DEF BillingCompetition
    <2>7. Goto(r, "billing_visits") /\ UNCHANGED <<flock, answer>>
      BY <1>2 DEF BillingCompetition
    <2> HIDE DEF q
    <2> QED
      BY <2>2, <2>4, <2>5, <2>6, <2>7, MoveType DEF Labels, NeedsPlayer, NeedsCsv, NeedsTime
  <1>3. CASE BillingVisits(r)
    <2> DEFINE visitors == VisitorsInTime(req[r].competition, req[r].fin)
               q == [req[r] EXCEPT !.visitors = visitors]
    <2>1. visitors \in SUBSET Player
      BY DEF VisitorsInTime
    <2>2. q \in Local
      <3> HIDE DEF visitors
      <3> QED
        BY <1>0, <2>1, LocalType
    <2>3. q.competition = req[r].competition /\ req[r].competition \in Competition
      BY <1>0, <1>3 DEF Local, LocalsOK, BillingVisits, NeedsCompetition
    <2>4. req' = [req EXCEPT ![r] = q] /\ TablesOK'
      BY <1>3, SameTables DEF BillingVisits
    <2>5. Goto(r, "billing_lock") /\ UNCHANGED <<flock, answer>>
      BY <1>3 DEF BillingVisits
    <2> HIDE DEF q
    <2> QED
      BY <2>2, <2>3, <2>4, <2>5, MoveType DEF Labels, NeedsPlayer, NeedsCsv, NeedsTime
  <1>4. CASE BillingCount(r)
    <2> DEFINE reports == req[r].reports \cup {ReportNow(r)}
    <2>1. req[r].competition \in Competition /\ req[r].visitors \in SUBSET Player
      BY <1>0, <1>4 DEF Local, LocalsOK, BillingCount, NeedsCompetition
    <2>2. Scored(playerScore[req[r].competition]) \in SUBSET Player
      BY <2>1 DEF TablesOK, Scored, Row
    <2>3. ReportNow(r) \in Report
      BY <2>1, <2>2, ReportType DEF ReportNow
    <2>4. reports \in SUBSET Report
      BY <1>0, <2>3 DEF Local
    <2>5. \/ /\ req' = [req EXCEPT ![r].reports = reports]
             /\ Goto(r, "billing_competition")
             /\ Unlock(r)
             /\ UNCHANGED answer
          \/ Return(r, Response("billing", 200, NULL, {}, reports, {}))
      BY <1>4 DEF BillingCount
    <2>6. UNCHANGED <<tables, now>>
      BY <1>4 DEF BillingCount
    <2> HIDE DEF reports
    <2>7. CASE Return(r, Response("billing", 200, NULL, {}, reports, {}))
      <3>1. Response("billing", 200, NULL, {}, reports, {}) \in Answer
        BY <2>4, ResponseType DEF Endpoints, StatusCode
      <3> QED
        BY <2>6, <2>7, <3>1, ReturnType, SameTables
    <2>8. CASE /\ req' = [req EXCEPT ![r].reports = reports]
               /\ Goto(r, "billing_competition")
               /\ Unlock(r)
               /\ UNCHANGED answer
      <3> DEFINE q == [req[r] EXCEPT !.reports = reports]
      <3>1. q \in Local
        BY <1>0, <2>4, LocalType
      <3>2. req' = [req EXCEPT ![r] = q] /\ TablesOK' /\ flock' \in {flock, NoOne}
        BY <2>6, <2>8, SameTables DEF Unlock
      <3> HIDE DEF q
      <3> QED
        BY <2>8, <3>1, <3>2, MoveType
           DEF Labels, NeedsCompetition, NeedsPlayer, NeedsCsv, NeedsTime
    <2> QED
      BY <2>5, <2>7, <2>8
  <1> QED
    BY <1>1, <1>2, <1>3, <1>4

LEMMA CompetitionsType ==
  ASSUME TypeOK, NEW r \in Request,
         CompetitionsReceive(r) \/ CompetitionsSelect(r)
         \/ CompetitionsAddDispense(r) \/ CompetitionsAddInsert(r)
  PROVE  TypeOK'
  <1> USE DEF TypeOK
  <1>0. req[r] \in Local
    BY DEF LocalsOK
  <1>1. CASE CompetitionsReceive(r)
    <2>1. UNCHANGED <<tables, now>>
      BY <1>1 DEF CompetitionsReceive
    <2>2. CASE \E p \in Player : Return(r, Status("competitions", Unauthorized(p)))
      BY <2>1, <2>2, RefusalType DEF Endpoints, StatusCode, Unauthorized
    <2>3. CASE Goto(r, "competitions_select") /\ UNCHANGED <<flock, req, answer>>
      <3>1. req' = [req EXCEPT ![r] = req[r]] /\ TablesOK'
        BY <2>1, <2>3, SameTables DEF LocalsOK
      <3> QED
        BY <1>0, <2>3, <3>1, MoveType
           DEF Labels, NeedsCompetition, NeedsPlayer, NeedsCsv, NeedsTime
    <2> QED
      BY <1>1, <2>2, <2>3 DEF CompetitionsReceive
  <1>2. CASE CompetitionsSelect(r)
    <2> DEFINE fin == {c \in competition : finishedAt[c] # NULL}
    <2>1. fin \in SUBSET Competition
      BY DEF TablesOK
    <2>2. Return(r, Response("competitions", 200, NULL, {}, {}, fin)) /\ UNCHANGED <<tables, now>>
      BY <1>2 DEF CompetitionsSelect
    <2> HIDE DEF fin
    <2>3. Response("competitions", 200, NULL, {}, {}, fin) \in Answer
      BY <2>1, ResponseType DEF Endpoints, StatusCode
    <2> QED
      BY <2>2, <2>3, ReturnType, SameTables
  <1>3. CASE CompetitionsAddDispense(r)
    <2>1. PICK c \in Competition : /\ dispensed' = dispensed \cup {c}
                                   /\ req' = [req EXCEPT ![r].competition = c]
      BY <1>3 DEF CompetitionsAddDispense
    <2> DEFINE q == [req[r] EXCEPT !.competition = c]
    <2>2. q \in Local
      BY <1>0, LocalType
    <2>3. q.competition = c
      BY <1>0 DEF Local
    <2>4. TablesOK' /\ req' = [req EXCEPT ![r] = q]
      BY <1>3, <2>1 DEF TablesOK, CompetitionsAddDispense
    <2>5. Goto(r, "competitions_add_insert") /\ UNCHANGED <<flock, answer>>
      BY <1>3 DEF CompetitionsAddDispense
    <2> HIDE DEF q
    <2> QED
      BY <2>2, <2>3, <2>4, <2>5, MoveType DEF Labels, NeedsPlayer, NeedsCsv, NeedsTime
  <1>4. CASE CompetitionsAddInsert(r)
    <2>1. TablesOK'
      BY <1>4 DEF TablesOK, LocalsOK, CompetitionsAddInsert, NeedsCompetition
    <2>2. Status("competitions_add", 200) \in Answer
      BY StatusType DEF Endpoints, StatusCode
    <2> QED
      BY <1>4, <2>1, <2>2, ReturnType DEF CompetitionsAddInsert
  <1> QED
    BY <1>1, <1>2, <1>3, <1>4

LEMMA PlayersType ==
  ASSUME TypeOK, NEW r \in Request,
         DisqualifiedUpdate(r) \/ DisqualifiedRetrieve(r) \/ PlayersAddReceive(r)
         \/ PlayersAddDispense(r) \/ PlayersAddInsert(r)
  PROVE  TypeOK'
  <1> USE DEF TypeOK
  <1>0. req[r] \in Local
    BY DEF LocalsOK
  <1>1. CASE DisqualifiedUpdate(r)
    <2>1. PICK p \in Player : /\ disqualified' = disqualified \cup ({p} \cap player)
                              /\ req' = [req EXCEPT ![r].player = p]
      BY <1>1 DEF DisqualifiedUpdate
    <2> DEFINE q == [req[r] EXCEPT !.player = p]
    <2>2. q \in Local
      BY <1>0, LocalType
    <2>3. q.player = p
      BY <1>0 DEF Local
    <2>4. TablesOK' /\ req' = [req EXCEPT ![r] = q]
      BY <1>1, <2>1 DEF TablesOK, DisqualifiedUpdate
    <2>5. Goto(r, "disqualified_retrieve") /\ UNCHANGED <<flock, answer>>
      BY <1>1 DEF DisqualifiedUpdate
    <2> HIDE DEF q
    <2> QED
      BY <2>2, <2>3, <2>4, <2>5, MoveType DEF Labels, NeedsCompetition, NeedsCsv, NeedsTime
  <1>2. CASE DisqualifiedRetrieve(r)
    BY <1>2, RefusalType DEF DisqualifiedRetrieve, Endpoints, StatusCode
  <1>3. CASE PlayersAddReceive(r)
    <2>1. CASE Return(r, Status("players_add", 200))
      BY <1>3, <2>1, RefusalType DEF PlayersAddReceive, Endpoints, StatusCode
    <2>2. ASSUME NEW n \in 1..MaxNames, req' = [req EXCEPT ![r].next = n],
                 Goto(r, "players_add_dispense"), UNCHANGED <<flock, answer>>
          PROVE  TypeOK'
      <3>1. n \in Nat
        BY ConstantsAssumption
      <3> DEFINE q == [req[r] EXCEPT !.next = n]
      <3>2. q \in Local
        BY <1>0, <3>1, LocalType
      <3>3. req' = [req EXCEPT ![r] = q] /\ TablesOK'
        BY <1>3, <2>2, SameTables DEF PlayersAddReceive
      <3> HIDE DEF q
      <3> QED
        BY <2>2, <3>2, <3>3, MoveType
           DEF Labels, NeedsCompetition, NeedsPlayer, NeedsCsv, NeedsTime
    <2> QED
      BY <1>3, <2>1, <2>2 DEF PlayersAddReceive
  <1>4. CASE PlayersAddDispense(r)
    <2>1. CASE Return(r, Status("players_add", 500)) /\ UNCHANGED dispensed
      <3>1. UNCHANGED <<tables, now>>
        BY <1>4, <2>1 DEF PlayersAddDispense, tables
      <3> QED
        BY <2>1, <3>1, RefusalType DEF Endpoints, StatusCode
    <2>2. ASSUME NEW p \in Player, dispensed' = dispensed \cup {p},
                 req' = [req EXCEPT ![r].player = p],
                 Goto(r, "players_add_insert"), UNCHANGED <<flock, answer>>
          PROVE  TypeOK'
      <3> DEFINE q == [req[r] EXCEPT !.player = p]
      <3>1. q \in Local
        BY <1>0, LocalType
      <3>2. q.player = p
        BY <1>0 DEF Local
      <3>3. TablesOK' /\ req' = [req EXCEPT ![r] = q]
        BY <1>4, <2>2 DEF TablesOK, PlayersAddDispense
      <3> HIDE DEF q
      <3> QED
        BY <2>2, <3>1, <3>2, <3>3, MoveType DEF Labels, NeedsCompetition, NeedsCsv, NeedsTime
    <2> QED
      BY <1>4, <2>1, <2>2 DEF PlayersAddDispense
  <1>5. CASE PlayersAddInsert(r)
    <2>1. TablesOK'
      BY <1>5 DEF TablesOK, LocalsOK, PlayersAddInsert, NeedsPlayer
    <2>2. CASE Return(r, Status("players_add", 200))
      <3>1. Status("players_add", 200) \in Answer
        BY StatusType DEF Endpoints, StatusCode
      <3> QED
        BY <2>1, <2>2, <3>1, ReturnType
    <2>3. CASE /\ req[r].next > 1
               /\ req' = [req EXCEPT ![r].next = @ - 1]
               /\ Goto(r, "players_add_dispense")
               /\ UNCHANGED <<flock, answer>>
      <3> DEFINE q == [req[r] EXCEPT !.next = @ - 1]
      <3>1. req[r].next - 1 \in Nat
        BY <1>0, <2>3 DEF Local
      <3>2. q \in Local
        BY <1>0, <3>1, LocalType
      <3>3. req' = [req EXCEPT ![r] = q]
        BY <2>3
      <3> HIDE DEF q
      <3> QED
        BY <2>1, <2>3, <3>2, <3>3, MoveType
           DEF Labels, NeedsCompetition, NeedsPlayer, NeedsCsv, NeedsTime
    <2> QED
      BY <1>5, <2>2, <2>3 DEF PlayersAddInsert
  <1> QED
    BY <1>1, <1>2, <1>3, <1>4, <1>5

LEMMA FaultType ==
  ASSUME TypeOK, Crash \/ Tick \/ (\E r \in Request : StatementFails(r))
  PROVE  TypeOK'
  <1> USE DEF TypeOK
  <1>1. CASE Crash
    <2>1. TablesOK' /\ AnswerOK'
      BY <1>1, SameTables DEF Crash, AnswerOK
    <2>2. ControlOK' /\ LocalsOK'
      BY <1>1, IdleType DEF Crash, ControlOK, Labels, LocalsOK,
         NeedsCompetition, NeedsPlayer, NeedsCsv, NeedsTime
    <2> QED
      BY <2>1, <2>2
  <1>2. CASE Tick
    BY <1>2 DEF Tick, TablesOK, ControlOK, LocalsOK, AnswerOK, tables
  <1>3. CASE \E r \in Request : StatementFails(r)
    BY <1>3, RefusalType DEF StatementFails, StatusCode
  <1> QED
    BY <1>1, <1>2, <1>3

LEMMA NextTypeOK == TypeOK /\ [Next]_vars => TypeOK'
  <1> SUFFICES ASSUME TypeOK, [Next]_vars PROVE TypeOK'
    OBVIOUS
  <1>1. ASSUME NEW r \in Request, ReceiveStep(r) PROVE TypeOK'
    BY <1>1, ScoreType, FinishType, RankingType, PlayerType, BillingType, CompetitionsType,
       PlayersType DEF ReceiveStep
  <1>2. ASSUME NEW r \in Request, HandlerStep(r) PROVE TypeOK'
    BY <1>2, ScoreType, FinishType, RankingType, PlayerType, BillingType, CompetitionsType,
       PlayersType DEF HandlerStep
  <1>3. CASE UNCHANGED vars
    BY <1>3 DEF vars, tables, TypeOK, TablesOK, ControlOK, LocalsOK, AnswerOK
  <1> QED
    BY <1>1, <1>2, <1>3, LockType, FaultType DEF Next

(* Every table, lock, program counter, local and response has its type, and   *)
(* no handler uses a local it has not set.                                     *)
THEOREM TypeCorrect == Spec => []TypeOK
  BY InitTypeOK, NextTypeOK, PTL DEF Spec

-----------------------------------------------------------------------------
(* The lock file *)

LEMMA ReturnReleases ==
  ASSUME ControlOK, FlockExcludes, NEW r \in Request, NEW response, Return(r, response)
  PROVE  FlockExcludes'
  BY ConstantsAssumption DEF ControlOK, FlockExcludes, Return, Goto, Unlock, Locked

(* Moving without crossing fl.Lock() or fl.Close(). *)
LEMMA MoveKeepsFlock ==
  ASSUME ControlOK, FlockExcludes, NEW r \in Request, NEW label,
         Goto(r, label), label \in Locked <=> pc[r] \in Locked, flock' = flock
  PROVE  FlockExcludes'
  BY DEF ControlOK, FlockExcludes, Goto

LEMMA LockAcquires ==
  ASSUME ControlOK, FlockExcludes, NEW r \in Request, LockStep(r)
  PROVE  FlockExcludes'
  <1>1. PICK label \in Locked : Goto(r, label)
    BY DEF LockStep, ScoreLock, RankingLock, PlayerLock, BillingLock, Lock, Locked
  <1>2. flock = NoOne /\ flock' = r
    BY DEF LockStep, ScoreLock, RankingLock, PlayerLock, BillingLock, Lock
  <1>3. \A s \in Request : pc[s] \notin Locked
    BY <1>2, ConstantsAssumption DEF FlockExcludes
  <1> QED
    BY <1>1, <1>2, <1>3 DEF ControlOK, FlockExcludes, Goto

LEMMA ReceiveKeepsFlock ==
  ASSUME ControlOK, FlockExcludes, NEW r \in Request, ReceiveStep(r)
  PROVE  FlockExcludes'
  <1>1. pc[r] = "idle"
    BY DEF ReceiveStep, ScoreReceive, ScoreRefuse, FinishReceive, RankingReceive,
       PlayerReceive, BillingReceive, CompetitionsReceive, DisqualifiedUpdate,
       PlayersAddReceive, CompetitionsAddDispense, Receive
  <1>2. \/ \E response : Return(r, response)
        \/ \E label : Goto(r, label) /\ label \notin Locked /\ flock' = flock
    <2>1. CASE ScoreReceive(r)
      BY <2>1 DEF ScoreReceive, Locked
    <2>2. CASE ScoreRefuse(r)
      BY <2>2 DEF ScoreRefuse
    <2>3. CASE FinishReceive(r)
      BY <2>3 DEF FinishReceive, Locked
    <2>4. CASE RankingReceive(r)
      BY <2>4 DEF RankingReceive, Locked
    <2>5. CASE PlayerReceive(r)
      BY <2>5 DEF PlayerReceive, Locked
    <2>6. CASE BillingReceive(r)
      BY <2>6 DEF BillingReceive, Locked
    <2>7. CASE CompetitionsReceive(r)
      BY <2>7 DEF CompetitionsReceive, Locked
    <2>8. CASE DisqualifiedUpdate(r)
      BY <2>8 DEF DisqualifiedUpdate, Locked
    <2>9. CASE PlayersAddReceive(r)
      BY <2>9 DEF PlayersAddReceive, Locked
    <2>10. CASE CompetitionsAddDispense(r)
      BY <2>10 DEF CompetitionsAddDispense, Locked
    <2> QED
      BY <2>1, <2>2, <2>3, <2>4, <2>5, <2>6, <2>7, <2>8, <2>9, <2>10 DEF ReceiveStep
  <1> QED
    BY <1>1, <1>2, ReturnReleases, MoveKeepsFlock DEF Locked

LEMMA HandlerKeepsFlock ==
  ASSUME ControlOK, FlockExcludes, NEW r \in Request, HandlerStep(r)
  PROVE  FlockExcludes'
  <1> DEFINE Returns == \E response : Return(r, response)
             Moves == \E label : /\ Goto(r, label) /\ flock' = flock
                                 /\ label \in Locked <=> pc[r] \in Locked
  <1>1. ASSUME Returns \/ Moves PROVE FlockExcludes'
    BY <1>1, ReturnReleases, MoveKeepsFlock
  <1>2. CASE ScoreParse(r)
    <2>1. Returns \/ Moves
      BY <1>2 DEF ScoreParse, Locked
    <2> QED
      BY <1>1, <2>1
  <1>3. CASE ScoreDelete(r)
    <2>1. Moves
      BY <1>3 DEF ScoreDelete, Locked
    <2> QED
      BY <1>1, <2>1
  <1>4. CASE ScoreInsert(r)
    BY <1>4 DEF ScoreInsert, FlockExcludes
  <1>5. CASE ScoreReturn(r) \/ FinishUpdate(r) \/ RankingRead(r) \/ PlayerRead(r)
             \/ CompetitionsSelect(r) \/ DisqualifiedRetrieve(r) \/ CompetitionsAddInsert(r)
    <2>1. Returns
      BY <1>5 DEF ScoreReturn, FinishUpdate, RankingRead, PlayerRead, CompetitionsSelect,
         DisqualifiedRetrieve, CompetitionsAddInsert
    <2> QED
      BY <1>1, <2>1
  <1>6. CASE RankingCompetition(r)
    <2>1. pc[r] = "ranking_competition" /\ (Returns \/ (Goto(r, "ranking_visit") /\ flock' = flock))
      BY <1>6 DEF RankingCompetition
    <2>2. Returns \/ Moves
      BY <2>1 DEF Locked
    <2> QED
      BY <1>1, <2>2
  <1>7. CASE RankingVisit(r)
    <2>1. pc[r] = "ranking_visit" /\ (Returns \/ (Goto(r, "ranking_lock") /\ flock' = flock))
      BY <1>7 DEF RankingVisit
    <2>2. Returns \/ Moves
      BY <2>1 DEF Locked
    <2> QED
      BY <1>1, <2>2
  <1>8. CASE PlayerRetrieve(r)
    <2>1. pc[r] = "player_retrieve" /\ (Returns \/ (Goto(r, "player_lock") /\ flock' = flock))
      BY <1>8 DEF PlayerRetrieve
    <2>2. Returns \/ Moves
      BY <2>1 DEF Locked
    <2> QED
      BY <1>1, <2>2
  <1>9. CASE BillingCompetition(r) \/ BillingVisits(r)
    <2>1. /\ pc[r] \in {"billing_competition", "billing_visits"}
          /\ Goto(r, "billing_visits") \/ Goto(r, "billing_lock")
          /\ flock' = flock
      BY <1>9 DEF BillingCompetition, BillingVisits
    <2>2. Moves
      BY <2>1 DEF Locked
    <2> QED
      BY <1>1, <2>2
  <1>10. CASE BillingCount(r)
    <2>1. \/ Returns
          \/ Goto(r, "billing_competition") /\ Unlock(r)
      BY <1>10 DEF BillingCount
    <2>2. CASE Goto(r, "billing_competition") /\ Unlock(r)
      BY <2>2, ConstantsAssumption DEF ControlOK, FlockExcludes, Goto, Unlock, Locked
    <2> QED
      BY <1>1, <2>1, <2>2
  <1>11. CASE PlayersAddDispense(r)
    <2>1. Returns \/ Moves
      BY <1>11 DEF PlayersAddDispense, Locked
    <2> QED
      BY <1>1, <2>1
  <1>12. CASE PlayersAddInsert(r)
    <2>1. Returns \/ Moves
      BY <1>12 DEF PlayersAddInsert, Locked
    <2> QED
      BY <1>1, <2>1
  <1> QED
    BY <1>2, <1>3, <1>4, <1>5, <1>6, <1>7, <1>8, <1>9, <1>10, <1>11, <1>12 DEF HandlerStep

LEMMA InitFlockExcludes == Init => FlockExcludes
  BY ConstantsAssumption DEF Init, FlockExcludes, Locked

LEMMA NextFlockExcludes == TypeOK /\ FlockExcludes /\ [Next]_vars => FlockExcludes'
  <1> SUFFICES ASSUME TypeOK, FlockExcludes, [Next]_vars PROVE FlockExcludes'
    OBVIOUS
  <1>0. ControlOK
    BY DEF TypeOK
  <1>1. ASSUME NEW r \in Request, StatementFails(r) PROVE FlockExcludes'
    BY <1>0, <1>1, ReturnReleases DEF StatementFails
  <1>2. CASE Crash
    BY <1>2, ConstantsAssumption DEF Crash, FlockExcludes, Locked
  <1>3. CASE Tick \/ UNCHANGED vars
    BY <1>3 DEF Tick, vars, FlockExcludes
  <1> QED
    BY <1>0, <1>1, <1>2, <1>3, ReceiveKeepsFlock, LockAcquires, HandlerKeepsFlock DEF Next

(* flockByTenantID excludes: whatever fails and on whatever path a handler     *)
(* returns, the lock file is held exactly by the handler that is between its   *)
(* fl.Lock() and its deferred fl.Close(), so at most one reads or writes the   *)
(* tenant's scores.                                                            *)
THEOREM Exclusion == Spec => []FlockExcludes
  BY TypeCorrect, InitFlockExcludes, NextFlockExcludes, PTL DEF Spec

-----------------------------------------------------------------------------
(* Uploads *)

(* No score is written, and whoever is uploading afterwards was uploading the  *)
(* same file before.                                                           *)
KeepsUploads ==
    /\ playerScore' = playerScore
    /\ \A s \in Request : pc'[s] \in NeedsCsv =>
          /\ pc[s] \in NeedsCsv
          /\ pc'[s] = "score_insert" => pc[s] = "score_insert"
          /\ req'[s] = req[s]

LEMMA ReturnKeepsUploads ==
  ASSUME ControlOK, LocalsOK, NEW r \in Request, NEW response, Return(r, response),
         playerScore' = playerScore
  PROVE  KeepsUploads
  BY DEF ControlOK, LocalsOK, KeepsUploads, Return, Goto, NeedsCsv

LEMMA MoveKeepsUploads ==
  ASSUME ControlOK, LocalsOK, NEW r \in Request, NEW label, Goto(r, label),
         label \notin NeedsCsv, \A s \in Request : s # r => req'[s] = req[s],
         playerScore' = playerScore
  PROVE  KeepsUploads
  BY DEF ControlOK, LocalsOK, KeepsUploads, Goto, NeedsCsv

LEMMA LockKeepsUploads ==
  ASSUME ControlOK, NEW r \in Request, LockStep(r)
  PROVE  KeepsUploads
  BY DEF ControlOK, KeepsUploads, LockStep, ScoreLock, RankingLock, PlayerLock, BillingLock,
     Lock, Goto, NeedsCsv, tables

LEMMA ReceiveKeepsUploads ==
  ASSUME ControlOK, LocalsOK, NEW r \in Request, ReceiveStep(r), ~ScoreReceive(r)
  PROVE  KeepsUploads
  <1> DEFINE Returns == \E response : Return(r, response)
             Moves == \E label \in Labels \ NeedsCsv :
                         Goto(r, label) /\ \A s \in Request : s # r => req'[s] = req[s]
  <1>0. playerScore' = playerScore
    BY DEF ReceiveStep, ScoreReceive, ScoreRefuse, FinishReceive, RankingReceive,
       PlayerReceive, BillingReceive, CompetitionsReceive, DisqualifiedUpdate,
       PlayersAddReceive, CompetitionsAddDispense, tables
  <1>1. ASSUME Returns \/ Moves PROVE KeepsUploads
    BY <1>0, <1>1, ReturnKeepsUploads, MoveKeepsUploads
  <1>2. CASE ScoreRefuse(r)
    <2>1. Returns
      BY <1>2 DEF ScoreRefuse
    <2> QED
      BY <1>1, <2>1
  <1>3. CASE FinishReceive(r)
    <2>1. Returns \/ Moves
      BY <1>3 DEF FinishReceive, LocalsOK, Labels, NeedsCsv
    <2> QED
      BY <1>1, <2>1
  <1>4. CASE RankingReceive(r)
    <2>1. Returns \/ Moves
      BY <1>4 DEF RankingReceive, LocalsOK, Labels, NeedsCsv
    <2> QED
      BY <1>1, <2>1
  <1>5. CASE PlayerReceive(r)
    <2>1. Returns \/ Moves
      BY <1>5 DEF PlayerReceive, LocalsOK, Labels, NeedsCsv
    <2> QED
      BY <1>1, <2>1
  <1>6. CASE BillingReceive(r)
    <2>1. Returns \/ Moves
      BY <1>6 DEF BillingReceive, LocalsOK, Labels, NeedsCsv
    <2> QED
      BY <1>1, <2>1
  <1>7. CASE CompetitionsReceive(r)
    <2>1. Returns \/ Moves
      BY <1>7 DEF CompetitionsReceive, LocalsOK, Labels, NeedsCsv
    <2> QED
      BY <1>1, <2>1
  <1>8. CASE DisqualifiedUpdate(r)
    <2>1. Moves
      BY <1>8 DEF DisqualifiedUpdate, LocalsOK, Labels, NeedsCsv
    <2> QED
      BY <1>1, <2>1
  <1>9. CASE PlayersAddReceive(r)
    <2>1. Returns \/ Moves
      BY <1>9 DEF PlayersAddReceive, LocalsOK, Labels, NeedsCsv
    <2> QED
      BY <1>1, <2>1
  <1>10. CASE CompetitionsAddDispense(r)
    <2>1. Moves
      BY <1>10 DEF CompetitionsAddDispense, LocalsOK, Labels, NeedsCsv
    <2> QED
      BY <1>1, <2>1
  <1> QED
    BY <1>2, <1>3, <1>4, <1>5, <1>6, <1>7, <1>8, <1>9, <1>10 DEF ReceiveStep

LEMMA HandlerKeepsUploads ==
  ASSUME ControlOK, LocalsOK, NEW r \in Request, HandlerStep(r),
         ~ScoreDelete(r), ~ScoreInsert(r)
  PROVE  KeepsUploads
  <1> DEFINE Returns == \E response : Return(r, response)
             Moves == \E label \in Labels \ NeedsCsv :
                         Goto(r, label) /\ \A s \in Request : s # r => req'[s] = req[s]
  <1>0. playerScore' = playerScore
    BY DEF HandlerStep, ScoreParse, ScoreReturn, FinishUpdate, RankingCompetition,
       RankingVisit, RankingRead, PlayerRetrieve, PlayerRead, BillingCompetition,
       BillingVisits, BillingCount, CompetitionsSelect, DisqualifiedRetrieve,
       PlayersAddDispense, PlayersAddInsert, CompetitionsAddInsert, tables
  <1>1. ASSUME Returns \/ Moves PROVE KeepsUploads
    BY <1>0, <1>1, ReturnKeepsUploads, MoveKeepsUploads
  <1>2. CASE ScoreParse(r)
    <2>1. CASE Goto(r, "score_delete") /\ UNCHANGED <<flock, req, answer>>
      BY <1>0, <1>2, <2>1 DEF ScoreParse, ControlOK, KeepsUploads, Goto, NeedsCsv
    <2>2. CASE Returns
      BY <1>1, <2>2
    <2> QED
      BY <1>2, <2>1, <2>2 DEF ScoreParse
  <1>3. CASE ScoreReturn(r) \/ FinishUpdate(r) \/ RankingRead(r) \/ PlayerRead(r)
             \/ CompetitionsSelect(r) \/ DisqualifiedRetrieve(r) \/ CompetitionsAddInsert(r)
    <2>1. Returns
      BY <1>3 DEF ScoreReturn, FinishUpdate, RankingRead, PlayerRead, CompetitionsSelect,
         DisqualifiedRetrieve, CompetitionsAddInsert
    <2> QED
      BY <1>1, <2>1
  <1>4. CASE RankingCompetition(r)
    <2>1. Returns \/ Moves
      BY <1>4 DEF RankingCompetition, LocalsOK, Labels, NeedsCsv
    <2> QED
      BY <1>1, <2>1
  <1>5. CASE RankingVisit(r)
    <2>1. Returns \/ Moves
      BY <1>5 DEF RankingVisit, LocalsOK, Labels, NeedsCsv
    <2> QED
      BY <1>1, <2>1
  <1>6. CASE PlayerRetrieve(r)
    <2>1. Returns \/ Moves
      BY <1>6 DEF PlayerRetrieve, LocalsOK, Labels, NeedsCsv
    <2> QED
      BY <1>1, <2>1
  <1>7. CASE BillingCompetition(r)
    <2>1. Moves
      BY <1>7 DEF BillingCompetition, LocalsOK, Labels, NeedsCsv
    <2> QED
      BY <1>1, <2>1
  <1>8. CASE BillingVisits(r)
    <2>1. Moves
      BY <1>8 DEF BillingVisits, LocalsOK, Labels, NeedsCsv
    <2> QED
      BY <1>1, <2>1
  <1>9. CASE BillingCount(r)
    <2>1. Returns \/ Moves
      BY <1>9 DEF BillingCount, LocalsOK, Labels, NeedsCsv
    <2> QED
      BY <1>1, <2>1
  <1>10. CASE PlayersAddDispense(r)
    <2>1. Returns \/ Moves
      BY <1>10 DEF PlayersAddDispense, LocalsOK, Labels, NeedsCsv
    <2> QED
      BY <1>1, <2>1
  <1>11. CASE PlayersAddInsert(r)
    <2>1. Returns \/ Moves
      BY <1>11 DEF PlayersAddInsert, LocalsOK, Labels, NeedsCsv
    <2> QED
      BY <1>1, <2>1
  <1> QED
    BY <1>2, <1>3, <1>4, <1>5, <1>6, <1>7, <1>8, <1>9, <1>10, <1>11 DEF HandlerStep

LEMMA StepsOfUploads ==
  ASSUME TypeOK, [Next]_vars
  PROVE  \/ KeepsUploads
         \/ \E r \in Request : ScoreReceive(r) \/ ScoreDelete(r) \/ ScoreInsert(r)
  <1>0. ControlOK /\ LocalsOK
    BY DEF TypeOK
  <1>1. ASSUME NEW r \in Request, StatementFails(r) PROVE KeepsUploads
    BY <1>0, <1>1, ReturnKeepsUploads DEF StatementFails, tables
  <1>2. CASE Crash
    BY <1>2 DEF Crash, KeepsUploads, NeedsCsv, tables
  <1>3. CASE Tick \/ UNCHANGED vars
    BY <1>3 DEF Tick, vars, KeepsUploads, tables
  <1> QED
    BY <1>0, <1>1, <1>2, <1>3, ReceiveKeepsUploads, LockKeepsUploads, HandlerKeepsUploads
       DEF Next

LEMMA LenOfFile == ASSUME NEW csv \in CSV PROVE Len(csv) \in Nat /\ DOMAIN csv = 1..Len(csv)
  <1> DEFINE Lines == [player : Player, score : Int]
  <1>1. csv \in Seq(Lines)
    BY ConstantsAssumption
  <1> HIDE DEF Lines
  <1> QED
    BY <1>1, LenProperties

LEMMA OneUploader ==
  ASSUME FlockExcludes, NEW r \in Request, NEW s \in Request, s # r, pc[r] \in Locked
  PROVE  pc[s] # "score_insert"
  BY DEF FlockExcludes, Locked

LEMMA InitUploads == Init => UploadInProgress /\ OneFileOnly
  <1> SUFFICES ASSUME Init PROVE UploadInProgress /\ OneFileOnly
    OBVIOUS
  <1>1. UploadInProgress
    BY DEF Init, UploadInProgress
  <1>2. PICK csv \in CSV : TRUE
    BY ConstantsAssumption
  <1>3. 0 \in 0..Len(csv)
    BY LenOfFile
  <1>4. \A c \in Competition : playerScore[c] = RowsUpTo(csv, 0)
    BY NoRows DEF Init
  <1> QED
    BY <1>1, <1>3, <1>4 DEF OneFileOnly

LEMMA NextUploads ==
  ASSUME TypeOK, FlockExcludes, UploadInProgress, OneFileOnly, [Next]_vars
  PROVE  UploadInProgress' /\ OneFileOnly'
  <1>0. ControlOK /\ LocalsOK /\ playerScore \in [Competition -> SUBSET Row]
    BY DEF TypeOK, TablesOK
  <1>1. CASE KeepsUploads
    <2>1. UploadInProgress'
      BY <1>1 DEF KeepsUploads, UploadInProgress, NeedsCsv
    <2>2. OneFileOnly'
      BY <1>1 DEF KeepsUploads, OneFileOnly
    <2> QED
      BY <2>1, <2>2
  <1>2. ASSUME NEW r \in Request, ScoreReceive(r) PROVE UploadInProgress' /\ OneFileOnly'
    <2>1. playerScore' = playerScore
      BY <1>2 DEF ScoreReceive, tables
    <2>2. \A s \in Request : pc'[s] = "score_insert" => pc[s] = "score_insert" /\ req'[s] = req[s]
      BY <1>0, <1>2 DEF ScoreReceive, Goto, ControlOK, LocalsOK
    <2>3. UploadInProgress'
      BY <2>1, <2>2 DEF UploadInProgress
    <2>4. OneFileOnly'
      BY <2>1 DEF OneFileOnly
    <2> QED
      BY <2>3, <2>4
  <1>3. ASSUME NEW r \in Request, ScoreDelete(r) PROVE UploadInProgress' /\ OneFileOnly'
    <2> DEFINE c == req[r].competition
               csv == req[r].csv
    <2>1. pc[r] = "score_delete" /\ c \in Competition /\ csv \in CSV /\ req[r] \in Local
      BY <1>0, <1>3 DEF ScoreDelete, LocalsOK, NeedsCompetition, NeedsCsv
    <2>2. /\ playerScore' = [playerScore EXCEPT ![c] = {}]
          /\ req' = [req EXCEPT ![r].next = 1]
          /\ Goto(r, "score_insert")
      BY <1>3 DEF ScoreDelete
    <2>3. \A s \in Request : s # r => pc'[s] # "score_insert"
      BY <1>0, <2>1, <2>2, OneUploader DEF Goto, ControlOK, Locked
    <2>4. req'[r].next = 1 /\ req'[r].competition = c /\ req'[r].csv = csv
      BY <1>0, <2>1, <2>2 DEF LocalsOK, Local
    <2>5. playerScore'[c] = RowsUpTo(csv, 0)
      BY <1>0, <2>1, <2>2, NoRows
    <2>6. Len(csv) \in Nat
      BY <2>1, LenOfFile
    <2>7. UploadInProgress'
      <3> SUFFICES ASSUME NEW s \in Request, pc'[s] = "score_insert"
                   PROVE  /\ req'[s].next \in 1..(Len(req'[s].csv) + 1)
                          /\ playerScore'[req'[s].competition] =
                                RowsUpTo(req'[s].csv, req'[s].next - 1)
        BY DEF UploadInProgress
      <3>1. s = r
        BY <2>3
      <3> HIDE DEF c, csv
      <3> QED
        BY <2>4, <2>5, <2>6, <3>1
    <2>8. OneFileOnly'
      <3> SUFFICES ASSUME NEW d \in Competition
                   PROVE  \E f \in CSV : \E k \in 0..Len(f) : playerScore'[d] = RowsUpTo(f, k)
        BY DEF OneFileOnly
      <3>1. CASE d = c
        <4> HIDE DEF c, csv
        <4> QED
          BY <2>1, <2>5, <2>6, <3>1
      <3>2. CASE d # c
        BY <1>0, <2>2, <3>2 DEF OneFileOnly
      <3> QED
        BY <3>1, <3>2
    <2> QED
      BY <2>7, <2>8
  <1>4. ASSUME NEW r \in Request, ScoreInsert(r) PROVE UploadInProgress' /\ OneFileOnly'
    <2> DEFINE c == req[r].competition
               csv == req[r].csv
               k == req[r].next
    <2>1. pc[r] = "score_insert" /\ c \in Competition /\ csv \in CSV /\ req[r] \in Local
      BY <1>0, <1>4 DEF ScoreInsert, LocalsOK, NeedsCompetition, NeedsCsv
    <2>2. /\ playerScore' = [playerScore EXCEPT ![c] = @ \cup {RowOf(csv, k)}]
          /\ req' = [req EXCEPT ![r].next = @ + 1]
          /\ pc' = pc
      BY <1>4 DEF ScoreInsert
    <2>3. \A s \in Request : s # r => pc'[s] # "score_insert"
      BY <2>1, <2>2, OneUploader DEF Locked
    <2>4. k \in 1..Len(csv) /\ Len(csv) \in Nat /\ k \in Nat \ {0}
      BY <1>4, <2>1, LenOfFile DEF ScoreInsert
    <2>5. req'[r].next = k + 1 /\ req'[r].competition = c /\ req'[r].csv = csv
      BY <1>0, <2>1, <2>2 DEF LocalsOK, Local
    <2>6. playerScore[c] = RowsUpTo(csv, k - 1)
      BY <2>1 DEF UploadInProgress
    <2>7. playerScore'[c] = RowsUpTo(csv, k)
      <3>1. playerScore'[c] = playerScore[c] \cup {RowOf(csv, k)}
        BY <1>0, <2>1, <2>2
      <3> HIDE DEF c, csv, k
      <3> QED
        BY <2>4, <2>6, <3>1, OneMoreRow
    <2>8. UploadInProgress'
      <3> SUFFICES ASSUME NEW s \in Request, pc'[s] = "score_insert"
                   PROVE  /\ req'[s].next \in 1..(Len(req'[s].csv) + 1)
                          /\ playerScore'[req'[s].competition] =
                                RowsUpTo(req'[s].csv, req'[s].next - 1)
        BY DEF UploadInProgress
      <3>1. s = r
        BY <2>3
      <3>2. k + 1 \in 1..(Len(csv) + 1) /\ (k + 1) - 1 = k
        BY <2>4
      <3> HIDE DEF c, csv, k
      <3> QED
        BY <2>5, <2>7, <3>1, <3>2
    <2>9. OneFileOnly'
      <3> SUFFICES ASSUME NEW d \in Competition
                   PROVE  \E f \in CSV : \E n \in 0..Len(f) : playerScore'[d] = RowsUpTo(f, n)
        BY DEF OneFileOnly
      <3>1. CASE d = c
        <4>1. k \in 0..Len(csv)
          BY <2>4
        <4> HIDE DEF c, csv, k
        <4> QED
          BY <2>1, <2>7, <3>1, <4>1
      <3>2. CASE d # c
        BY <1>0, <2>2, <3>2 DEF OneFileOnly
      <3> QED
        BY <3>1, <3>2
    <2> QED
      BY <2>8, <2>9
  <1> QED
    BY <1>1, <1>2, <1>3, <1>4, StepsOfUploads

(* player_score of a competition is at every moment the first rows of a single *)
(* uploaded file, whatever statements fail and whenever the process dies: two  *)
(* uploads never mix.                                                          *)
THEOREM OneFile == Spec => []OneFileOnly
  <1>1. Init => TypeOK /\ FlockExcludes /\ UploadInProgress /\ OneFileOnly
    BY InitTypeOK, InitFlockExcludes, InitUploads
  <1>2. TypeOK /\ FlockExcludes /\ UploadInProgress /\ OneFileOnly /\ [Next]_vars
        => TypeOK' /\ FlockExcludes' /\ UploadInProgress' /\ OneFileOnly'
    BY NextTypeOK, NextFlockExcludes, NextUploads
  <1> QED
    BY <1>1, <1>2, PTL DEF Spec

(* What is proved of an upload that is inserting: the table holds its file up  *)
(* to the next row, so a 200 is answered only when the whole file is in.       *)
THEOREM UploadProgress == Spec => []UploadInProgress
  <1>1. Init => TypeOK /\ FlockExcludes /\ UploadInProgress /\ OneFileOnly
    BY InitTypeOK, InitFlockExcludes, InitUploads
  <1>2. TypeOK /\ FlockExcludes /\ UploadInProgress /\ OneFileOnly /\ [Next]_vars
        => TypeOK' /\ FlockExcludes' /\ UploadInProgress' /\ OneFileOnly'
    BY NextTypeOK, NextFlockExcludes, NextUploads
  <1> QED
    BY <1>1, <1>2, PTL DEF Spec

-----------------------------------------------------------------------------
(* Scores after the finish *)

LEMMA FinishedStays ==
  ASSUME TypeOK, [Next]_vars, NEW c \in Competition, Finished(c)
  PROVE  Finished(c)'
  <1>1. CASE finishedAt' = finishedAt
    BY <1>1 DEF Finished
  <1>2. ASSUME NEW r \in Request, FinishUpdate(r) PROVE Finished(c)'
    <2>1. req[r].at \in Nat
      BY <1>2 DEF TypeOK, LocalsOK, FinishUpdate, NeedsTime
    <2>2. req[r].at # NULL
      BY <2>1, ConstantsAssumption
    <2>3. finishedAt' = [finishedAt EXCEPT ![req[r].competition] = req[r].at]
      BY <1>2 DEF FinishUpdate
    <2> QED
      BY <2>2, <2>3 DEF Finished, TypeOK, TablesOK
  <1>3. ASSUME NEW r \in Request, ReceiveStep(r) PROVE finishedAt' = finishedAt
    BY <1>3 DEF ReceiveStep, ScoreReceive, ScoreRefuse, FinishReceive, RankingReceive,
       PlayerReceive, BillingReceive, CompetitionsReceive, DisqualifiedUpdate,
       PlayersAddReceive, CompetitionsAddDispense, tables
  <1>4. ASSUME NEW r \in Request, HandlerStep(r), ~FinishUpdate(r)
        PROVE  finishedAt' = finishedAt
    BY <1>4 DEF HandlerStep, ScoreParse, ScoreDelete, ScoreInsert, ScoreReturn,
       RankingCompetition, RankingVisit, RankingRead, PlayerRetrieve, PlayerRead,
       BillingCompetition, BillingVisits, BillingCount, CompetitionsSelect,
       DisqualifiedRetrieve, PlayersAddDispense, PlayersAddInsert,
       CompetitionsAddInsert, tables
  <1>5. ASSUME NEW r \in Request, LockStep(r) \/ StatementFails(r)
        PROVE  finishedAt' = finishedAt
    BY <1>5 DEF LockStep, ScoreLock, RankingLock, PlayerLock, BillingLock, Lock,
       StatementFails, tables
  <1>6. CASE Crash \/ Tick \/ UNCHANGED vars
    BY <1>1, <1>6 DEF Crash, Tick, vars, tables
  <1> QED
    BY <1>1, <1>2, <1>3, <1>4, <1>5, <1>6 DEF Next

LEMMA DrainedStays ==
  ASSUME TypeOK, [Next]_vars, NEW c \in Competition, Drained(c)
  PROVE  Drained(c)' /\ playerScore'[c] = playerScore[c]
  <1>0. ControlOK /\ LocalsOK /\ playerScore \in [Competition -> SUBSET Row]
    BY DEF TypeOK, TablesOK
  <1>1. Finished(c)'
    BY FinishedStays DEF Drained
  <1>2. CASE KeepsUploads
    <2>1. \A s \in Request : ~Uploading(s, c)'
      BY <1>2 DEF KeepsUploads, Uploading, NeedsCsv, Drained
    <2> QED
      BY <1>1, <1>2, <2>1 DEF Drained, KeepsUploads
  <1>3. ASSUME NEW r \in Request, ScoreReceive(r)
        PROVE  Drained(c)' /\ playerScore'[c] = playerScore[c]
    <2>1. PICK d \in competition, csv \in CSV :
             /\ AcceptsScores(d)
             /\ req' = [req EXCEPT ![r].competition = d, ![r].csv = csv]
      BY <1>3 DEF ScoreReceive
    <2>2. d # c
      BY <2>1 DEF AcceptsScores, Drained, Finished
    <2>3. req'[r].competition = d
      BY <1>0, <2>1 DEF LocalsOK, Local
    <2>4. \A s \in Request : s # r => pc'[s] = pc[s] /\ req'[s] = req[s]
      BY <1>0, <1>3, <2>1 DEF ScoreReceive, Goto, ControlOK, LocalsOK
    <2>5. \A s \in Request : ~Uploading(s, c)'
      BY <2>2, <2>3, <2>4 DEF Uploading, Drained
    <2> QED
      BY <1>1, <1>3, <2>5 DEF Drained, ScoreReceive, tables
  <1>4. ASSUME NEW r \in Request, ScoreDelete(r) \/ ScoreInsert(r)
        PROVE  Drained(c)' /\ playerScore'[c] = playerScore[c]
    <2>1. pc[r] \in {"score_delete", "score_insert"}
      BY <1>4 DEF ScoreDelete, ScoreInsert
    <2>2. req[r].competition # c
      BY <2>1 DEF Drained, Uploading
    <2>3. playerScore'[c] = playerScore[c]
      BY <1>0, <1>4, <2>2 DEF ScoreDelete, ScoreInsert
    <2>4. \A s \in Request : /\ s # r => pc'[s] = pc[s]
                             /\ req'[s].competition = req[s].competition
      BY <1>0, <1>4 DEF ScoreDelete, ScoreInsert, Goto, ControlOK, LocalsOK, Local
    <2>5. \A s \in Request : ~Uploading(s, c)'
      BY <2>2, <2>4 DEF Uploading, Drained
    <2> QED
      BY <1>1, <2>3, <2>5 DEF Drained
  <1> QED
    BY <1>2, <1>3, <1>4, StepsOfUploads

(* Once a finished competition has no upload left that was checked before the  *)
(* finish, no upload gets in any more and its scores never change: the ranking *)
(* can be cached from then on, and not before.                                 *)
THEOREM DrainedIsFinal == Spec => DrainedScoresAreFinal
  <1>1. TypeOK /\ [Next]_vars =>
          [\A c \in Competition :
             /\ Finished(c) => Finished(c)'
             /\ Drained(c) => Drained(c)' /\ playerScore'[c] = playerScore[c]]_vars
    BY FinishedStays, DrainedStays
  <1> QED
    BY <1>1, TypeCorrect, PTL DEF Spec, DrainedScoresAreFinal

-----------------------------------------------------------------------------
(* The board that the tables and an upload in progress stand for *)

Inserts(r, c) == pc[r] = "score_insert" /\ req[r].competition = c

LEMMA OneInserts ==
  ASSUME FlockExcludes, NEW r \in Request, NEW s \in Request,
         pc[r] = "score_insert", pc[s] = "score_insert"
  PROVE  r = s
  BY DEF FlockExcludes, Locked

LEMMA BoardOfUpload ==
  ASSUME FlockExcludes, NEW r \in Request, NEW c, Inserts(r, c)
  PROVE  Board(c) = Whole(req[r].csv)
  <1>1. \A s \in Request : pc[s] = "score_insert" /\ req[s].competition = c <=> s = r
    BY OneInserts DEF Inserts
  <1> QED
    BY <1>1 DEF Board

LEMMA BoardOtherwise ==
  ASSUME NEW c, \A r \in Request : ~Inserts(r, c)
  PROVE  Board(c) = playerScore[c]
  BY DEF Board, Inserts

(* The same after a step. *)
LEMMA BoardOfUploadNext ==
  ASSUME FlockExcludes', NEW r \in Request, NEW c, Inserts(r, c)'
  PROVE  Board(c)' = Whole(req'[r].csv)
  <1>1. \A s \in Request : pc'[s] = "score_insert" /\ req'[s].competition = c <=> s = r
    BY DEF Inserts, FlockExcludes, Locked
  <1> QED
    BY <1>1 DEF Board, Whole, RowsUpTo, RowOf

LEMMA BoardOtherwiseNext ==
  ASSUME NEW c, \A r \in Request : ~Inserts(r, c)'
  PROVE  Board(c)' = playerScore'[c]
  BY DEF Board, Inserts

(* Nobody starts or ends to insert, and no score is written. *)
SameUploads ==
    /\ playerScore' = playerScore
    /\ \A s \in Request :
          /\ pc'[s] = "score_insert" <=> pc[s] = "score_insert"
          /\ pc[s] = "score_insert" => /\ req'[s].competition = req[s].competition
                                       /\ req'[s].csv = req[s].csv

LEMMA BoardKept ==
  ASSUME FlockExcludes, FlockExcludes', SameUploads, NEW c
  PROVE  Board(c)' = Board(c)
  <1>1. CASE \E r \in Request : Inserts(r, c)
    <2>1. PICK r \in Request : Inserts(r, c)
      BY <1>1
    <2>2. Inserts(r, c)' /\ req'[r].csv = req[r].csv
      BY <2>1 DEF Inserts, SameUploads
    <2> QED
      BY <2>1, <2>2, BoardOfUpload, BoardOfUploadNext
  <1>2. CASE \A r \in Request : ~Inserts(r, c)
    <2>1. \A r \in Request : ~Inserts(r, c)'
      BY <1>2 DEF Inserts, SameUploads
    <2> QED
      BY <1>2, <2>1, BoardOtherwise, BoardOtherwiseNext DEF SameUploads
  <1> QED
    BY <1>1, <1>2

-----------------------------------------------------------------------------
(* The steps that neither upload nor show scores *)

NoPage == [page |-> "none", competition |-> NULL, rows |-> {}]

(* Not a page that shows scores. *)
Hides(response) == response.status # 200 \/ response.api \notin {"ranking", "player"}

LEMMA HidesShows ==
  /\ Hides(answer) => Shown = NoPage
  /\ Hides(answer') => Shown' = NoPage
  /\ answer' = answer => Shown' = Shown
  BY DEF Hides, Shown, NoPage

LEMMA StatusHides ==
  ASSUME NEW api, NEW code, api \notin {"ranking", "player"} \/ code # 200
  PROVE  Hides(Status(api, code))
  BY DEF Hides, Status, Response

(* r is not inserting, nobody else moves, and no scores are shown. *)
Quiet(r) ==
    /\ pc[r] # "score_insert" /\ pc'[r] # "score_insert"
    /\ \A s \in Request : s # r => pc'[s] = pc[s] /\ req'[s] = req[s]
    /\ playerScore' = playerScore
    /\ answer' = answer \/ Hides(answer')

LEMMA QuietReturn ==
  ASSUME TypeOK, NEW r \in Request, pc[r] # "score_insert", playerScore' = playerScore,
         NEW response, Hides(response), Return(r, response)
  PROVE  Quiet(r)
  BY DEF TypeOK, ControlOK, LocalsOK, Return, Goto, Quiet

LEMMA QuietStatus ==
  ASSUME TypeOK, NEW r \in Request, pc[r] # "score_insert", playerScore' = playerScore,
         NEW api, NEW code, api \notin {"ranking", "player"} \/ code # 200,
         Return(r, Status(api, code))
  PROVE  Quiet(r)
  BY StatusHides, QuietReturn

LEMMA QuietMove ==
  ASSUME TypeOK, NEW r \in Request, pc[r] # "score_insert", playerScore' = playerScore,
         NEW label, label # "score_insert", Goto(r, label),
         \A s \in Request : s # r => req'[s] = req[s], answer' = answer
  PROVE  Quiet(r)
  BY DEF TypeOK, ControlOK, Goto, Quiet

LEMMA QuietReceive ==
  ASSUME TypeOK, NEW r \in Request, ReceiveStep(r)
  PROVE  Quiet(r)
  <1> DEFINE Returns == \E api, code : /\ api \notin {"ranking", "player"} \/ code # 200
                                      /\ Return(r, Status(api, code))
             Moves == \E label \in Labels \ {"score_insert"} :
                         /\ Goto(r, label) /\ answer' = answer
                         /\ \A s \in Request : s # r => req'[s] = req[s]
  <1>0. playerScore' = playerScore /\ pc[r] # "score_insert"
    BY DEF ReceiveStep, ScoreReceive, ScoreRefuse, FinishReceive, RankingReceive,
       PlayerReceive, BillingReceive, CompetitionsReceive, DisqualifiedUpdate,
       PlayersAddReceive, CompetitionsAddDispense, tables, Receive
  <1>r. LocalsOK
    BY DEF TypeOK
  <1>1. Returns \/ Moves
    <2>1. CASE ScoreReceive(r)
      BY <1>r, <2>1 DEF ScoreReceive, LocalsOK, Labels
    <2>2. CASE ScoreRefuse(r)
      BY <2>2 DEF ScoreRefuse
    <2>3. CASE FinishReceive(r)
      BY <1>r, <2>3 DEF FinishReceive, LocalsOK, Labels
    <2>4. CASE RankingReceive(r)
      BY <1>r, <2>4 DEF RankingReceive, LocalsOK, Labels, Unauthorized
    <2>5. CASE PlayerReceive(r)
      BY <2>5 DEF PlayerReceive, Labels, Unauthorized
    <2>6. CASE BillingReceive(r)
      BY <1>r, <2>6 DEF BillingReceive, LocalsOK, Labels
    <2>7. CASE CompetitionsReceive(r)
      BY <2>7 DEF CompetitionsReceive, Labels
    <2>8. CASE DisqualifiedUpdate(r)
      BY <1>r, <2>8 DEF DisqualifiedUpdate, LocalsOK, Labels
    <2>9. CASE PlayersAddReceive(r)
      BY <1>r, <2>9 DEF PlayersAddReceive, LocalsOK, Labels
    <2>10. CASE CompetitionsAddDispense(r)
      BY <1>r, <2>10 DEF CompetitionsAddDispense, LocalsOK, Labels
    <2> QED
      BY <2>1, <2>2, <2>3, <2>4, <2>5, <2>6, <2>7, <2>8, <2>9, <2>10 DEF ReceiveStep
  <1>2. ASSUME Returns PROVE Quiet(r)
    BY <1>0, <1>2, QuietStatus
  <1>3. ASSUME Moves PROVE Quiet(r)
    BY <1>0, <1>3, QuietMove
  <1> QED
    BY <1>1, <1>2, <1>3

LEMMA QuietLock ==
  ASSUME TypeOK, NEW r \in Request, LockStep(r)
  PROVE  Quiet(r)
  <1>1. PICK from \in Labels \ {"score_insert"}, to \in Labels \ {"score_insert"} :
           Lock(r, from, to)
    BY DEF LockStep, ScoreLock, RankingLock, PlayerLock, BillingLock, Labels
  <1> QED
    BY <1>1, QuietMove DEF Lock, tables

LEMMA QuietHandler ==
  ASSUME TypeOK, NEW r \in Request, HandlerStep(r), ~ScoreDelete(r), ~ScoreInsert(r),
         ~ScoreReturn(r), ~RankingRead(r), ~PlayerRead(r)
  PROVE  Quiet(r)
  <1> DEFINE Returns == \E response : Hides(response) /\ Return(r, response)
             Moves == \E label \in Labels \ {"score_insert"} :
                         /\ Goto(r, label) /\ answer' = answer
                         /\ \A s \in Request : s # r => req'[s] = req[s]
  <1>0. playerScore' = playerScore /\ pc[r] # "score_insert"
    BY DEF HandlerStep, ScoreParse, FinishUpdate, RankingCompetition,
       RankingVisit, PlayerRetrieve, BillingCompetition,
       BillingVisits, BillingCount, CompetitionsSelect, DisqualifiedRetrieve,
       PlayersAddDispense, PlayersAddInsert, CompetitionsAddInsert, tables
  <1>r. LocalsOK
    BY DEF TypeOK
  <1>s. /\ \A api, code : api \notin {"ranking", "player"} \/ code # 200
                              => Hides(Status(api, code))
        /\ \A c, reports, fin :
              /\ Hides(Response("billing", 200, c, {}, reports, fin))
              /\ Hides(Response("competitions", 200, c, {}, reports, fin))
    BY StatusHides DEF Hides, Response
  <1>h. /\ Hides(Status("ranking", 404)) /\ Hides(Status("ranking", 500))
        /\ Hides(Status("player", 404))
    BY <1>s
  <1>1. Returns \/ Moves
    <2>1. CASE ScoreParse(r)
      BY <1>s, <2>1 DEF ScoreParse, Labels
    <2>2. CASE FinishUpdate(r) \/ DisqualifiedRetrieve(r) \/ CompetitionsAddInsert(r)
      <3>1. \A code : /\ Hides(Status("finish", code)) /\ Hides(Status("disqualified", code))
                     /\ Hides(Status("competitions_add", code))
        BY <1>s
      <3> QED
        BY <3>1, <2>2 DEF FinishUpdate, DisqualifiedRetrieve, CompetitionsAddInsert
    <2>3. CASE RankingCompetition(r)
      BY <1>r, <1>h, <2>3 DEF RankingCompetition, LocalsOK, Labels
    <2>4. CASE RankingVisit(r)
      BY <1>h, <2>4 DEF RankingVisit, Labels
    <2>5. CASE PlayerRetrieve(r)
      BY <1>r, <1>h, <2>5 DEF PlayerRetrieve, LocalsOK, Labels
    <2>6. CASE BillingCompetition(r)
      BY <1>r, <2>6 DEF BillingCompetition, LocalsOK, Labels
    <2>7. CASE BillingVisits(r)
      BY <1>r, <2>7 DEF BillingVisits, LocalsOK, Labels
    <2>8. CASE BillingCount(r)
      BY <1>r, <1>s, <2>8 DEF BillingCount, LocalsOK, Labels
    <2>9. CASE CompetitionsSelect(r)
      BY <1>s, <2>9 DEF CompetitionsSelect
    <2>10. CASE PlayersAddDispense(r)
      BY <1>r, <1>s, <2>10 DEF PlayersAddDispense, LocalsOK, Labels
    <2>11. CASE PlayersAddInsert(r)
      BY <1>r, <1>s, <2>11 DEF PlayersAddInsert, LocalsOK, Labels
    <2> QED
      BY <2>1, <2>2, <2>3, <2>4, <2>5, <2>6, <2>7, <2>8, <2>9, <2>10, <2>11 DEF HandlerStep
  <1>2. ASSUME Returns PROVE Quiet(r)
    BY <1>0, <1>2, QuietReturn
  <1>3. ASSUME Moves PROVE Quiet(r)
    BY <1>0, <1>3, QuietMove
  <1> QED
    BY <1>1, <1>2, <1>3

-----------------------------------------------------------------------------
(* Every step is a step of the board, or none *)

LEMMA FirstRowsAgree ==
  ASSUME NEW csv, NEW k
  PROVE  Abstract!FirstRows(csv, k) = RowsUpTo(csv, k)
  BY DEF Abstract!FirstRows, RowsUpTo, RowOf

LEMMA NoPageAgrees == Abstract!NoPage = NoPage
  BY DEF Abstract!NoPage, Abstract!Page, NoPage

LEMMA MapsUpload ==
  ASSUME NEW c \in Competition, NEW csv \in CSV, Board(c)' = Whole(csv),
         \A d \in Competition : d # c => Board(d)' = Board(d), Shown' = Shown
  PROVE  Abstract!BoardNext
  <1>1. [d \in Competition |-> Board(d)]' =
           [[d \in Competition |-> Board(d)] EXCEPT ![c] = Abstract!FirstRows(csv, Len(csv))]
    BY FirstRowsAgree DEF Whole
  <1>2. Abstract!Upload(c)
    BY <1>1 DEF Abstract!Upload
  <1> QED
    BY <1>2 DEF Abstract!BoardNext

LEMMA MapsBreakOff ==
  ASSUME Faults # {}, NEW c \in Competition, NEW csv \in CSV, NEW k \in 0..Len(csv),
         Board(c)' = RowsUpTo(csv, k),
         \A d \in Competition : d # c => Board(d)' = Board(d),
         Shown' \in {Shown, NoPage}
  PROVE  Abstract!BoardNext
  <1>1. [d \in Competition |-> Board(d)]' =
           [[d \in Competition |-> Board(d)] EXCEPT ![c] = Abstract!FirstRows(csv, k)]
    BY FirstRowsAgree
  <1>2. Abstract!BreakOff(c)
    BY <1>1, NoPageAgrees DEF Abstract!BreakOff
  <1> QED
    BY <1>2 DEF Abstract!BoardNext

LEMMA MapsQuiet ==
  ASSUME \A c \in Competition : Board(c)' = Board(c), Shown' \in {Shown, NoPage}
  PROVE  [Abstract!BoardNext]_(Abstract!boardVars)
  <1>1. [c \in Competition |-> Board(c)]' = [c \in Competition |-> Board(c)]
    OBVIOUS
  <1>2. CASE Shown' = Shown
    BY <1>1, <1>2 DEF Abstract!boardVars
  <1>3. CASE Shown' = NoPage
    BY <1>1, <1>3, NoPageAgrees DEF Abstract!BoardNext, Abstract!ShowNothing
  <1> QED
    BY <1>2, <1>3

(* The file of an upload, and what is in the table of it. *)
LEMMA Inserting ==
  ASSUME TypeOK, UploadInProgress, NEW r \in Request, pc[r] = "score_insert"
  PROVE  /\ req[r].competition \in Competition /\ req[r].csv \in CSV
         /\ Len(req[r].csv) \in Nat /\ DOMAIN req[r].csv = 1..Len(req[r].csv)
         /\ req[r].next \in 1..(Len(req[r].csv) + 1)
         /\ req[r].next - 1 \in 0..Len(req[r].csv)
         /\ playerScore[req[r].competition] = RowsUpTo(req[r].csv, req[r].next - 1)
  <1>1. req[r].competition \in Competition /\ req[r].csv \in CSV
    BY DEF TypeOK, LocalsOK, NeedsCompetition, NeedsCsv
  <1>2. Len(req[r].csv) \in Nat /\ DOMAIN req[r].csv = 1..Len(req[r].csv)
    BY <1>1, LenOfFile
  <1>3. /\ req[r].next \in 1..(Len(req[r].csv) + 1)
        /\ playerScore[req[r].competition] = RowsUpTo(req[r].csv, req[r].next - 1)
    BY DEF UploadInProgress
  <1>4. req[r].next - 1 \in 0..Len(req[r].csv)
    BY <1>2, <1>3
  <1> QED
    BY <1>1, <1>2, <1>3, <1>4

(* The inserting request goes: its competition is left as it is. *)
LEMMA Leaves ==
  ASSUME FlockExcludes, NEW r \in Request, NEW c, Inserts(r, c),
         \A s \in Request : pc'[s] # "score_insert", playerScore' = playerScore
  PROVE  /\ Board(c)' = playerScore[c]
         /\ \A d : d # c => Board(d)' = Board(d)
  <1>1. \A s \in Request : \A d : ~Inserts(s, d)'
    BY DEF Inserts
  <1>2. \A d : Board(d)' = playerScore[d]
    BY <1>1, BoardOtherwiseNext
  <1>3. \A d : d # c => \A s \in Request : ~Inserts(s, d)
    BY OneInserts DEF Inserts
  <1>4. \A d : d # c => Board(d) = playerScore[d]
    BY <1>3, BoardOtherwise
  <1> QED
    BY <1>2, <1>4

(* From the DELETE on the board is the file. *)
LEMMA DeleteBoards ==
  ASSUME TypeOK, FlockExcludes, FlockExcludes', NEW r \in Request, ScoreDelete(r)
  PROVE  \E c \in Competition, csv \in CSV :
            /\ Uploads(r, c) /\ csv = req[r].csv /\ Board(c)' = Whole(csv)
            /\ \A d \in Competition : d # c => Board(d)' = Board(d)
  <1>0. LocalsOK /\ ControlOK /\ playerScore \in [Competition -> SUBSET Row]
    BY DEF TypeOK, TablesOK
  <1>p. pc[r] = "score_delete" /\ req[r].competition \in Competition /\ req[r].csv \in CSV
        /\ req[r] \in Local
    BY <1>0 DEF ScoreDelete, LocalsOK, NeedsCompetition, NeedsCsv
  <1>1. PICK c \in Competition, csv \in CSV : c = req[r].competition /\ csv = req[r].csv
    BY <1>p
  <1>2. /\ playerScore' = [playerScore EXCEPT ![c] = {}]
        /\ req' = [req EXCEPT ![r].next = 1]
        /\ Goto(r, "score_insert") /\ answer' = answer
    BY <1>1 DEF ScoreDelete
  <1>3. req'[r].competition = c /\ req'[r].csv = csv /\ pc'[r] = "score_insert"
    BY <1>0, <1>p, <1>1, <1>2 DEF LocalsOK, ControlOK, Local, Goto
  <1>4. \A s \in Request : pc[s] # "score_insert"
    BY <1>p DEF FlockExcludes, Locked
  <1>5. \A s \in Request : s # r => pc'[s] # "score_insert"
    BY <1>0, <1>2, <1>4 DEF ControlOK, Goto
  <1>6. Board(c)' = Whole(csv)
    <2>1. Inserts(r, c)'
      BY <1>3 DEF Inserts
    <2> QED
      BY <1>3, <2>1, BoardOfUploadNext
  <1>7. ASSUME NEW d \in Competition, d # c PROVE Board(d)' = Board(d)
    <2>1. \A s \in Request : ~Inserts(s, d) /\ ~Inserts(s, d)'
      BY <1>3, <1>4, <1>5, <1>7 DEF Inserts
    <2>2. playerScore'[d] = playerScore[d]
      BY <1>0, <1>2, <1>7
    <2> QED
      BY <2>1, <2>2, BoardOtherwise, BoardOtherwiseNext
  <1>8. Uploads(r, c) /\ csv = req[r].csv
    BY <1>p, <1>1 DEF Uploads
  <1> QED
    BY <1>6, <1>7, <1>8

LEMMA MapsDelete ==
  ASSUME TypeOK, FlockExcludes, FlockExcludes', NEW r \in Request, ScoreDelete(r)
  PROVE  Abstract!BoardNext
  <1>1. Shown' = Shown
    BY HidesShows DEF ScoreDelete
  <1> QED
    BY <1>1, DeleteBoards, MapsUpload

LEMMA InsertBoards ==
  ASSUME TypeOK, FlockExcludes, FlockExcludes', NEW r \in Request, ScoreInsert(r)
  PROVE  \A d \in Competition : Board(d)' = Board(d)
  <1> DEFINE c == req[r].competition
             csv == req[r].csv
  <1>0. LocalsOK /\ playerScore \in [Competition -> SUBSET Row]
    BY DEF TypeOK, TablesOK
  <1>1. pc[r] = "score_insert" /\ c \in Competition /\ req[r] \in Local
    BY <1>0 DEF ScoreInsert, LocalsOK, NeedsCompetition
  <1>2. /\ \E row : playerScore' = [playerScore EXCEPT ![c] = @ \cup {row}]
        /\ req' = [req EXCEPT ![r].next = @ + 1] /\ pc' = pc /\ answer' = answer
    BY DEF ScoreInsert
  <1>3. req'[r].competition = c /\ req'[r].csv = csv
    BY <1>0, <1>1, <1>2 DEF LocalsOK, Local
  <1>4. \A s \in Request : pc[s] = "score_insert" => s = r
    BY <1>1, OneInserts
  <1>5. ASSUME NEW d \in Competition PROVE Board(d)' = Board(d)
    <2>1. CASE d = c
      <3>1. Inserts(r, d) /\ Inserts(r, d)'
        BY <1>1, <1>2, <1>3, <2>1 DEF Inserts
      <3> QED
        BY <1>3, <3>1, BoardOfUpload, BoardOfUploadNext
    <2>2. CASE d # c
      <3>1. \A s \in Request : ~Inserts(s, d) /\ ~Inserts(s, d)'
        BY <1>2, <1>3, <1>4, <2>2 DEF Inserts
      <3>2. playerScore'[d] = playerScore[d]
        BY <1>0, <1>2, <2>2
      <3> QED
        BY <3>1, <3>2, BoardOtherwise, BoardOtherwiseNext
    <2> QED
      BY <2>1, <2>2
  <1> QED
    BY <1>5

LEMMA MapsInsert ==
  ASSUME TypeOK, FlockExcludes, FlockExcludes', NEW r \in Request, ScoreInsert(r)
  PROVE  [Abstract!BoardNext]_(Abstract!boardVars)
  <1>1. Shown' = Shown
    BY HidesShows DEF ScoreInsert
  <1> QED
    BY <1>1, InsertBoards, MapsQuiet

(* The whole file is in: the board is what it was, and the response shows none. *)
LEMMA ReturnBoards ==
  ASSUME TypeOK, FlockExcludes, UploadInProgress, NEW r \in Request, ScoreReturn(r)
  PROVE  \A d : Board(d)' = Board(d)
  <1>1. pc[r] = "score_insert" /\ playerScore' = playerScore
    BY DEF ScoreReturn, tables
  <1>2. \A s \in Request : pc'[s] # "score_insert"
    BY <1>1, OneInserts DEF ScoreReturn, Return, Goto, TypeOK, ControlOK
  <1>4. req[r].next - 1 = Len(req[r].csv)
    BY <1>1, Inserting DEF ScoreReturn
  <1>5. PICK c \in Competition : c = req[r].competition
    BY <1>1, Inserting
  <1>6. Inserts(r, c) /\ playerScore[c] = Whole(req[r].csv)
    BY <1>1, <1>4, <1>5, Inserting DEF Inserts, Whole
  <1>7. Board(c)' = Board(c) /\ \A d : d # c => Board(d)' = Board(d)
    BY <1>1, <1>2, <1>6, Leaves, BoardOfUpload
  <1> QED
    BY <1>7

LEMMA MapsScoreReturn ==
  ASSUME TypeOK, FlockExcludes, UploadInProgress, NEW r \in Request, ScoreReturn(r)
  PROVE  [Abstract!BoardNext]_(Abstract!boardVars)
  <1>1. Hides(answer')
    BY StatusHides DEF ScoreReturn, Return
  <1> QED
    BY <1>1, HidesShows, ReturnBoards, MapsQuiet

(* The first rows of the file stay. *)
LEMMA MapsBrokenUpload ==
  ASSUME TypeOK, FlockExcludes, UploadInProgress, Faults # {},
         NEW r \in Request, pc[r] = "score_insert",
         \A s \in Request : pc'[s] # "score_insert", playerScore' = playerScore,
         Shown' \in {Shown, NoPage}
  PROVE  Abstract!BoardNext
  <1> DEFINE n == req[r].next - 1
  <1>0. /\ req[r].competition \in Competition /\ req[r].csv \in CSV
        /\ n \in 0..Len(req[r].csv)
        /\ playerScore[req[r].competition] = RowsUpTo(req[r].csv, n)
    BY Inserting
  <1> HIDE DEF n
  <1>1. PICK c \in Competition, csv \in CSV : c = req[r].competition /\ csv = req[r].csv
    BY <1>0
  <1>2. PICK k \in 0..Len(csv) : playerScore[c] = RowsUpTo(csv, k)
    BY <1>0, <1>1
  <1>3. Inserts(r, c)
    BY <1>1 DEF Inserts
  <1>4. Board(c)' = RowsUpTo(csv, k) /\ \A d : d # c => Board(d)' = Board(d)
    BY <1>2, <1>3, Leaves
  <1> QED
    BY <1>4, MapsBreakOff

LEMMA MapsFault ==
  ASSUME TypeOK, FlockExcludes, FlockExcludes', UploadInProgress,
         Crash \/ \E r \in Request : StatementFails(r)
  PROVE  [Abstract!BoardNext]_(Abstract!boardVars)
  <1>1. /\ Faults # {} /\ playerScore' = playerScore
        /\ Shown' \in {Shown, NoPage}
    <2>1. Faults # {} /\ playerScore' = playerScore /\ (answer' = answer \/ Hides(answer'))
      BY StatusHides DEF Crash, StatementFails, tables, Return
    <2> QED
      BY <2>1, HidesShows
  <1>2. \A s \in Request : /\ pc'[s] = "score_insert" =>
                                 pc[s] = "score_insert" /\ req'[s] = req[s]
    BY DEF Crash, StatementFails, Return, Goto, TypeOK, ControlOK, LocalsOK
  <1>3. CASE \E r \in Request : pc[r] = "score_insert" /\ pc'[r] # "score_insert"
    <2>1. PICK r \in Request : pc[r] = "score_insert" /\ pc'[r] # "score_insert"
      BY <1>3
    <2>2. \A s \in Request : pc'[s] # "score_insert"
      BY <1>2, <2>1, OneInserts
    <2> QED
      BY <1>1, <2>1, <2>2, MapsBrokenUpload
  <1>4. CASE \A r \in Request : pc[r] = "score_insert" => pc'[r] = "score_insert"
    <2>1. SameUploads
      BY <1>1, <1>2, <1>4 DEF SameUploads
    <2> QED
      BY <1>1, <2>1, BoardKept, MapsQuiet
  <1> QED
    BY <1>3, <1>4

(* Whoever reads holds the lock: nobody is inserting, and the board is what    *)
(* is in the table.                                                            *)
LEMMA ReadBoards ==
  ASSUME TypeOK, FlockExcludes, FlockExcludes', NEW r \in Request,
         RankingRead(r) \/ PlayerRead(r)
  PROVE  \A c : Board(c) = playerScore[c] /\ Board(c)' = playerScore[c]
  <1>0. LocalsOK /\ ControlOK
    BY DEF TypeOK
  <1>1. /\ pc[r] \in {"ranking_read", "player_read"} /\ playerScore' = playerScore
        /\ Goto(r, "idle")
    BY DEF RankingRead, PlayerRead, Return, tables
  <1>2. \A s \in Request : pc[s] # "score_insert" /\ pc'[s] # "score_insert"
    BY <1>0, <1>1 DEF FlockExcludes, Locked, ControlOK, Goto
  <1> QED
    BY <1>1, <1>2, BoardOtherwise, BoardOtherwiseNext DEF Inserts

LEMMA MapsRead ==
  ASSUME TypeOK, FlockExcludes, FlockExcludes', NEW r \in Request,
         RankingRead(r) \/ PlayerRead(r)
  PROVE  Abstract!BoardNext
  <1>0. LocalsOK
    BY DEF TypeOK
  <1>3. \A c : Board(c) = playerScore[c] /\ Board(c)' = playerScore[c]
    BY ReadBoards
  <1>4. [c \in Competition |-> Board(c)]' = [c \in Competition |-> Board(c)]
    BY <1>3
  <1>5. CASE RankingRead(r)
    <2>1. req[r].competition \in Competition
      BY <1>0, <1>5 DEF RankingRead, LocalsOK, NeedsCompetition
    <2>2. Shown' = Abstract!Page("ranking", req[r].competition, playerScore[req[r].competition])
      BY <1>5 DEF RankingRead, Return, Response, Shown, Abstract!Page
    <2>3. Abstract!ShowRanking
      BY <1>3, <1>4, <2>1, <2>2 DEF Abstract!ShowRanking, Abstract!Page
    <2> QED
      BY <2>3 DEF Abstract!BoardNext
  <1>6. CASE PlayerRead(r)
    <2> DEFINE p == req[r].player
               cs == req[r].todo
    <2>1. p \in Player /\ cs \in SUBSET Competition
      BY <1>0, <1>6 DEF PlayerRead, LocalsOK, NeedsPlayer, Local
    <2>2. Shown' = Abstract!Page("player", NULL, UNION {LastRow(playerScore[c], p) : c \in cs})
      BY <1>6 DEF PlayerRead, Return, Response, Shown, Abstract!Page
    <2>3. \A rows : Abstract!Counts(rows, p) = LastRow(rows, p)
      BY DEF Abstract!Counts, LastRow
    <2> HIDE DEF p, cs
    <2>4. \A c \in cs : Abstract!Counts([d \in Competition |-> Board(d)][c], p)
                           = LastRow(playerScore[c], p)
      BY <1>3, <2>1, <2>3
    <2>5. Shown' = Abstract!Page("player", NULL,
              UNION {Abstract!Counts([d \in Competition |-> Board(d)][c], p) : c \in cs})
      BY <2>2, <2>4
    <2>6. Abstract!ShowPlayer
      BY <1>4, <2>1, <2>5 DEF Abstract!ShowPlayer
    <2> QED
      BY <2>6 DEF Abstract!BoardNext
  <1> QED
    BY <1>5, <1>6

LEMMA MapsQuietStep ==
  ASSUME TypeOK, FlockExcludes, FlockExcludes', NEW r \in Request, Quiet(r)
  PROVE  [Abstract!BoardNext]_(Abstract!boardVars)
  <1>1. SameUploads
    BY DEF Quiet, SameUploads
  <1> QED
    BY <1>1, BoardKept, MapsQuiet, HidesShows DEF Quiet

LEMMA MapsNext ==
  ASSUME TypeOK, FlockExcludes, FlockExcludes', UploadInProgress, [Next]_vars
  PROVE  [Abstract!BoardNext]_(Abstract!boardVars)
  <1>1. ASSUME NEW r \in Request, ReceiveStep(r) \/ LockStep(r)
        PROVE  [Abstract!BoardNext]_(Abstract!boardVars)
    BY <1>1, QuietReceive, QuietLock, MapsQuietStep
  <1>2. ASSUME NEW r \in Request, HandlerStep(r)
        PROVE  [Abstract!BoardNext]_(Abstract!boardVars)
    BY <1>2, QuietHandler, MapsQuietStep, MapsDelete, MapsInsert, MapsScoreReturn, MapsRead
  <1>3. ASSUME Tick \/ UNCHANGED vars
        PROVE  [Abstract!BoardNext]_(Abstract!boardVars)
    <2>1. SameUploads /\ answer' = answer
      BY <1>3 DEF Tick, vars, tables, SameUploads
    <2> QED
      BY <2>1, BoardKept, MapsQuiet, HidesShows
  <1> QED
    BY <1>1, <1>2, <1>3, MapsFault DEF Next

LEMMA MapsInit == Init => Abstract!BoardInit
  <1> SUFFICES ASSUME Init PROVE Abstract!BoardInit
    OBVIOUS
  <1>1. \A r \in Request : pc[r] # "score_insert"
    BY DEF Init
  <1>2. \A c \in Competition : Board(c) = {}
    BY <1>1, BoardOtherwise DEF Inserts, Init
  <1>3. Shown = NoPage
    BY StatusHides, HidesShows DEF Init, NoAnswer
  <1> QED
    BY <1>2, <1>3, NoPageAgrees DEF Abstract!BoardInit

(* The handlers, with their lock and their separate statements, implement the  *)
(* board on which an upload is one step and every ranking and player page,     *)
(* empty or not, is read at one instant, for any number of requests and        *)
(* whatever fails.                                                             *)
THEOREM Implements == Spec => ImplementsScoreBoard
  <1>1. TypeOK /\ FlockExcludes /\ FlockExcludes' /\ UploadInProgress /\ [Next]_vars
        => [Abstract!BoardNext]_(Abstract!boardVars)
    BY MapsNext
  <1> QED
    BY <1>1, MapsInit, TypeCorrect, Exclusion, UploadProgress, PTL
       DEF Spec, ImplementsScoreBoard, Abstract!BoardSpec

-----------------------------------------------------------------------------
(* Rankings while nothing fails *)

LEMMA OthersStay ==
  ASSUME TypeOK, NEW r \in Request,
         ReceiveStep(r) \/ LockStep(r) \/ HandlerStep(r) \/ StatementFails(r)
  PROVE  \A s \in Request : s # r => pc'[s] = pc[s] /\ req'[s] = req[s]
  <1>0. ControlOK /\ LocalsOK
    BY DEF TypeOK
  <1>1. CASE ReceiveStep(r)
    BY <1>0, <1>1 DEF ReceiveStep, ScoreReceive, ScoreRefuse, FinishReceive, RankingReceive,
       PlayerReceive, BillingReceive, CompetitionsReceive, DisqualifiedUpdate,
       PlayersAddReceive, CompetitionsAddDispense, Return, Goto, ControlOK, LocalsOK
  <1>2. CASE LockStep(r)
    BY <1>0, <1>2 DEF LockStep, ScoreLock, RankingLock, PlayerLock, BillingLock, Lock,
       Goto, ControlOK
  <1>3. CASE HandlerStep(r)
    <2>1. CASE ScoreParse(r) \/ ScoreDelete(r)
      BY <1>0, <2>1 DEF ScoreParse, ScoreDelete, Return, Goto, ControlOK, LocalsOK
    <2>2. CASE ScoreInsert(r) \/ ScoreReturn(r)
      BY <1>0, <2>2 DEF ScoreInsert, ScoreReturn, Return, Goto, ControlOK, LocalsOK
    <2>3. CASE FinishUpdate(r)
      BY <1>0, <2>3 DEF FinishUpdate, Return, Goto, ControlOK, LocalsOK
    <2>4. CASE RankingCompetition(r) \/ RankingVisit(r)
      BY <1>0, <2>4 DEF RankingCompetition, RankingVisit, Return, Goto, ControlOK, LocalsOK
    <2>5. CASE RankingRead(r)
      BY <1>0, <2>5 DEF RankingRead, Return, Goto, ControlOK, LocalsOK
    <2>6. CASE PlayerRetrieve(r) \/ PlayerRead(r)
      BY <1>0, <2>6 DEF PlayerRetrieve, PlayerRead, Return, Goto, ControlOK, LocalsOK
    <2>7. CASE BillingCompetition(r) \/ BillingVisits(r) \/ BillingCount(r)
      BY <1>0, <2>7 DEF BillingCompetition, BillingVisits, BillingCount, Return, Goto, ControlOK, LocalsOK
    <2>8. CASE CompetitionsSelect(r) \/ DisqualifiedRetrieve(r)
      BY <1>0, <2>8 DEF CompetitionsSelect, DisqualifiedRetrieve, Return, Goto, ControlOK, LocalsOK
    <2>9. CASE PlayersAddDispense(r) \/ PlayersAddInsert(r)
      BY <1>0, <2>9 DEF PlayersAddDispense, PlayersAddInsert, Return, Goto, ControlOK, LocalsOK
    <2>10. CASE CompetitionsAddInsert(r)
      BY <1>0, <2>10 DEF CompetitionsAddInsert, Return, Goto, ControlOK, LocalsOK
    <2> QED
      BY <1>3, <2>1, <2>2, <2>3, <2>4, <2>5, <2>6, <2>7, <2>8, <2>9, <2>10 DEF HandlerStep
  <1>4. CASE StatementFails(r)
    BY <1>0, <1>4 DEF StatementFails, Return, Goto, ControlOK, LocalsOK
  <1> QED
    BY <1>1, <1>2, <1>3, <1>4

(* A ranking is answered by the handler that reads it. *)
LEMMA ReadsRanking ==
  ASSUME TypeOK, Faults = {}, [Next]_vars, NEW r \in Request,
         pc[r] = "ranking_read", pc'[r] = "idle"
  PROVE  RankingRead(r)
  <1>1. ASSUME NEW s \in Request,
               ReceiveStep(s) \/ LockStep(s) \/ HandlerStep(s) \/ StatementFails(s)
        PROVE  s = r
    BY <1>1, OthersStay
  <1>2. ~StatementFails(r) /\ ~Crash
    BY DEF StatementFails, Crash
  <1>3. ~ReceiveStep(r)
    BY DEF ReceiveStep, ScoreReceive, ScoreRefuse, FinishReceive, RankingReceive,
       PlayerReceive, BillingReceive, CompetitionsReceive, DisqualifiedUpdate,
       PlayersAddReceive, CompetitionsAddDispense, Receive
  <1>4. ~LockStep(r)
    BY DEF LockStep, ScoreLock, RankingLock, PlayerLock, BillingLock, Lock
  <1>5. HandlerStep(r) => RankingRead(r)
    BY DEF HandlerStep, ScoreParse, ScoreDelete, ScoreInsert, ScoreReturn, FinishUpdate,
       RankingCompetition, RankingVisit, PlayerRetrieve, PlayerRead, BillingCompetition,
       BillingVisits, BillingCount, CompetitionsSelect, DisqualifiedRetrieve,
       PlayersAddDispense, PlayersAddInsert, CompetitionsAddInsert
  <1>6. ~Tick /\ ~UNCHANGED vars
    BY DEF Tick, vars
  <1> QED
    BY <1>1, <1>2, <1>3, <1>4, <1>5, <1>6 DEF Next

(* While nothing fails, nothing but a DELETE changes a board. *)
LEMMA BoardStep ==
  ASSUME Faults = {}, TypeOK, FlockExcludes, FlockExcludes', UploadInProgress, [Next]_vars,
         NEW c \in Competition, Board(c)' # Board(c)
  PROVE  \E r \in Request : Uploads(r, c) /\ Board(c)' = Whole(req[r].csv)
  <1>1. ASSUME NEW r \in Request, Quiet(r) PROVE FALSE
    <2>1. SameUploads
      BY <1>1 DEF Quiet, SameUploads
    <2> QED
      BY <2>1, BoardKept
  <1>2. ~(Tick \/ UNCHANGED vars)
    <2>1. Tick \/ UNCHANGED vars => SameUploads
      BY DEF Tick, vars, tables, SameUploads
    <2> QED
      BY <2>1, BoardKept
  <1>3. ~Crash /\ \A r \in Request : ~StatementFails(r)
    BY DEF StatementFails, Crash
  <1>4. \A r \in Request : ~ReceiveStep(r) /\ ~LockStep(r)
    BY <1>1, QuietReceive, QuietLock
  <1>5. \A r \in Request : HandlerStep(r) => ScoreDelete(r)
    BY <1>1, QuietHandler, InsertBoards, ReturnBoards, ReadBoards
  <1>6. PICK r \in Request : ScoreDelete(r)
    BY <1>2, <1>3, <1>4, <1>5 DEF Next
  <1>7. PICK d \in Competition, csv \in CSV :
           /\ Uploads(r, d) /\ csv = req[r].csv /\ Board(d)' = Whole(csv)
           /\ \A e \in Competition : e # d => Board(e)' = Board(e)
    BY <1>6, DeleteBoards
  <1>8. c = d
    BY <1>7
  <1> QED
    BY <1>7, <1>8

LEMMA RankingStep ==
  ASSUME Faults = {}, TypeOK, FlockExcludes, FlockExcludes', [Next]_vars,
         NEW r \in Request, pc[r] = "ranking_read", pc'[r] = "idle"
  PROVE  /\ answer'.api = "ranking" /\ answer'.status = 200
         /\ answer'.competition = req[r].competition
         /\ answer'.rows = Board(req[r].competition)
  <1>1. RankingRead(r)
    BY ReadsRanking
  <1>2. /\ answer'.api = "ranking" /\ answer'.status = 200
        /\ answer'.competition = req[r].competition
        /\ answer'.rows = playerScore[req[r].competition]
    BY <1>1 DEF RankingRead, Return, Response
  <1> QED
    BY <1>1, <1>2, ReadBoards

(* While no statement fails and the process lives, the board of a competition  *)
(* is always the whole file of the last upload that has run its DELETE, or     *)
(* still empty, and a ranking shows it: a reader never meets the table between *)
(* the DELETE and the last INSERT, not even as an empty ranking.               *)
THEOREM WholeUploads ==
  ASSUME Faults = {}
  PROVE  Spec => RankingShowsWholeUpload
  <1>1. TypeOK /\ FlockExcludes /\ FlockExcludes' /\ UploadInProgress /\ [Next]_vars
        => [/\ \A c \in Competition :
                  Board(c)' # Board(c) =>
                     \E r \in Request : Uploads(r, c) /\ Board(c)' = Whole(req[r].csv)
            /\ \A r \in Request :
                  pc[r] = "ranking_read" /\ pc'[r] = "idle" =>
                     /\ answer'.api = "ranking" /\ answer'.status = 200
                     /\ answer'.competition = req[r].competition
                     /\ answer'.rows = Board(req[r].competition)]_vars
    BY BoardStep, RankingStep
  <1> QED
    BY <1>1, TypeCorrect, Exclusion, UploadProgress, PTL DEF Spec, RankingShowsWholeUpload

---------------------------------------------------------------------------
(* What a tenant is charged for a finished competition: the billing handler   *)
(* next to uploads, finishes and visits.                                      *)

-----------------------------------------------------------------------------
(* What a step changes of the state a bill depends on *)

Reported == {"billing_visits", "billing_lock", "billing_count"}
Billing == Reported \cup {"billing_competition"}
Followed == Billing \cup {"finish_update", "ranking_competition", "ranking_visit"}

BillingSteps(r) == \/ BillingReceive(r) \/ BillingCompetition(r) \/ BillingVisits(r)
                   \/ BillingLock(r) \/ BillingCount(r)

(* How r gets to a label that is followed here. *)
Arrives(r) ==
    \/ pc'[r] = pc[r] /\ req'[r] = req[r]
    \/ pc'[r] \notin Followed
    \/ FinishReceive(r) \/ RankingReceive(r) \/ RankingCompetition(r) \/ BillingSteps(r)

LEMMA Arrival ==
  ASSUME TypeOK, [Next]_vars, NEW s \in Request
  PROVE  Arrives(s)
  <1>0. ControlOK
    BY DEF TypeOK
  <1>1. ASSUME NEW r \in Request, s # r,
               ReceiveStep(r) \/ LockStep(r) \/ HandlerStep(r) \/ StatementFails(r)
        PROVE  Arrives(s)
    BY <1>1, OthersStay DEF Arrives
  <1>2. ASSUME NEW label, label \notin Followed, Goto(s, label) PROVE Arrives(s)
    BY <1>0, <1>2 DEF Goto, ControlOK, Arrives
  <1>3. ASSUME NEW response, Return(s, response) PROVE Arrives(s)
    BY <1>2, <1>3 DEF Return, Followed, Billing, Reported
  <1>4. CASE ReceiveStep(s)
    <2>1. \/ FinishReceive(s) \/ BillingReceive(s) \/ RankingReceive(s)
          \/ \E response : Return(s, response)
          \/ \E label : label \notin Followed /\ Goto(s, label)
      BY <1>4 DEF ReceiveStep, ScoreReceive, ScoreRefuse,
         PlayerReceive, CompetitionsReceive, DisqualifiedUpdate,
         PlayersAddReceive, CompetitionsAddDispense, Followed, Billing, Reported
    <2> QED
      BY <2>1, <1>2, <1>3 DEF Arrives, BillingSteps
  <1>5. CASE LockStep(s)
    <2>1. BillingLock(s) \/ \E label : label \notin Followed /\ Goto(s, label)
      BY <1>5 DEF LockStep, ScoreLock, RankingLock, PlayerLock, Lock, Followed, Billing, Reported
    <2> QED
      BY <2>1, <1>2 DEF Arrives, BillingSteps
  <1>6. CASE HandlerStep(s)
    <2>1. \/ RankingCompetition(s) \/ BillingCompetition(s) \/ BillingVisits(s) \/ BillingCount(s)
          \/ ScoreInsert(s) \/ \E response : Return(s, response)
          \/ \E label : label \notin Followed /\ Goto(s, label)
      BY <1>6 DEF HandlerStep, ScoreParse, ScoreDelete, ScoreReturn,
         FinishUpdate, RankingVisit, RankingRead, PlayerRetrieve, PlayerRead,
         CompetitionsSelect, DisqualifiedRetrieve, PlayersAddDispense, PlayersAddInsert,
         CompetitionsAddInsert, Followed, Billing, Reported
    <2>2. ScoreInsert(s) => pc'[s] = "score_insert"
      BY DEF ScoreInsert
    <2> QED
      BY <2>1, <2>2, <1>2, <1>3 DEF Arrives, BillingSteps, Followed, Billing, Reported
  <1>7. CASE StatementFails(s)
    BY <1>3, <1>7 DEF StatementFails
  <1>8. CASE Crash
    BY <1>8 DEF Crash, Arrives, Followed, Billing, Reported
  <1>9. CASE Tick \/ UNCHANGED vars
    BY <1>9 DEF Tick, vars, Arrives
  <1> QED
    BY <1>1, <1>4, <1>5, <1>6, <1>7, <1>8, <1>9 DEF Next

(* The clock goes forward; a finish and a visit are written by one statement. *)
LEMMA TablesStep ==
  ASSUME TypeOK, [Next]_vars
  PROVE  /\ now' \in {now, now + 1}
         /\ finishedAt' = finishedAt \/ \E r \in Request : FinishUpdate(r)
         /\ visitHistory' = visitHistory \/ \E r \in Request : RankingVisit(r)
  <1>1. ASSUME NEW r \in Request, ReceiveStep(r)
        PROVE  UNCHANGED <<now, finishedAt, visitHistory>>
    BY <1>1 DEF ReceiveStep, ScoreReceive, ScoreRefuse, FinishReceive, RankingReceive,
       PlayerReceive, BillingReceive, CompetitionsReceive, DisqualifiedUpdate,
       PlayersAddReceive, CompetitionsAddDispense, tables
  <1>2. ASSUME NEW r \in Request, LockStep(r) \/ StatementFails(r)
        PROVE  UNCHANGED <<now, finishedAt, visitHistory>>
    BY <1>2 DEF LockStep, ScoreLock, RankingLock, PlayerLock, BillingLock, Lock,
       StatementFails, tables
  <1>3. ASSUME NEW r \in Request, HandlerStep(r), ~FinishUpdate(r), ~RankingVisit(r)
        PROVE  UNCHANGED <<now, finishedAt, visitHistory>>
    BY <1>3 DEF HandlerStep, ScoreParse, ScoreDelete, ScoreInsert, ScoreReturn,
       RankingCompetition, RankingRead, PlayerRetrieve, PlayerRead,
       BillingCompetition, BillingVisits, BillingCount, CompetitionsSelect,
       DisqualifiedRetrieve, PlayersAddDispense, PlayersAddInsert,
       CompetitionsAddInsert, tables
  <1>4. ASSUME NEW r \in Request, FinishUpdate(r) \/ RankingVisit(r) PROVE now' = now
    BY <1>4 DEF FinishUpdate, RankingVisit
  <1>5. ASSUME NEW r \in Request, FinishUpdate(r) PROVE visitHistory' = visitHistory
    BY <1>5 DEF FinishUpdate
  <1>6. ASSUME NEW r \in Request, RankingVisit(r) PROVE finishedAt' = finishedAt
    BY <1>6 DEF RankingVisit
  <1>7. CASE Crash \/ Tick \/ UNCHANGED vars
    BY <1>7 DEF Crash, Tick, vars, tables
  <1> QED
    BY <1>1, <1>2, <1>3, <1>4, <1>5, <1>6, <1>7 DEF Next

(* Where a billing request is after one of its steps. *)
LEMMA BillingGoes ==
  ASSUME TypeOK, NEW r \in Request, BillingSteps(r)
  PROVE  pc'[r] \in Billing \cup {"idle"}
  <1>1. \E label \in Billing \cup {"idle"} : Goto(r, label)
    BY DEF BillingSteps, BillingReceive, BillingCompetition, BillingVisits, BillingLock,
       BillingCount, Lock, Return, Billing, Reported
  <1> QED
    BY <1>1 DEF TypeOK, ControlOK, Goto

(* A visit and a finish are stamped with the time of their request. *)
LEMMA Stamps ==
  ASSUME TypeOK, [Next]_vars, NEW s \in Request, pc'[s] \in {"ranking_visit", "finish_update"}
  PROVE  (pc'[s] = pc[s] /\ req'[s] = req[s]) \/ req'[s].at = now
  <1>0. ControlOK /\ req \in [Request -> Local]
    BY DEF TypeOK, LocalsOK
  <1>1. CASE FinishReceive(s)
    <2>1. CASE \E response : Return(s, response)
      BY <1>0, <2>1 DEF Return, Goto, ControlOK
    <2>2. CASE \E c \in competition : req' = [req EXCEPT ![s].competition = c, ![s].at = now]
      BY <1>0, <2>2 DEF Local
    <2> QED
      BY <1>1, <2>1, <2>2 DEF FinishReceive
  <1>2. CASE RankingCompetition(s)
    <2>1. CASE \E response : Return(s, response)
      BY <1>0, <2>1 DEF Return, Goto, ControlOK
    <2>2. CASE \E c \in competition :
                  req' = [req EXCEPT ![s].competition = c, ![s].fin = finishedAt[c], ![s].at = now]
      BY <1>0, <2>2 DEF Local
    <2> QED
      BY <1>2, <2>1, <2>2 DEF RankingCompetition
  <1>3. ~BillingSteps(s)
    BY BillingGoes DEF Billing, Reported
  <1>4. ~RankingReceive(s)
    BY <1>0 DEF RankingReceive, Return, Goto, ControlOK
  <1>5. Arrives(s)
    BY Arrival
  <1> QED
    BY <1>1, <1>2, <1>3, <1>4, <1>5 DEF Arrives, Followed

-----------------------------------------------------------------------------
(* Settled competitions *)

(* No visit stamped at f or before is on its way. *)
NoLateVisit(c, f) ==
    /\ f < now
    /\ \A s \in Request : pc[s] = "ranking_visit" /\ req[s].competition = c => req[s].at > f

LEMMA NoLateVisitStays ==
  ASSUME TypeOK, [Next]_vars, NEW c \in Competition, NEW f \in Nat, NoLateVisit(c, f)
  PROVE  NoLateVisit(c, f)'
  <1>1. now \in Nat /\ now' \in Nat /\ f < now'
    BY TablesStep DEF TypeOK, TablesOK, NoLateVisit
  <1>2. ASSUME NEW s \in Request, pc'[s] = "ranking_visit", req'[s].competition = c
        PROVE  req'[s].at > f
    BY <1>1, <1>2, Stamps DEF NoLateVisit
  <1> QED
    BY <1>1, <1>2 DEF NoLateVisit

(* The visits until f are what they are. *)
LEMMA VisitsStay ==
  ASSUME TypeOK, [Next]_vars, NEW c \in Competition, NEW f \in Nat, NoLateVisit(c, f)
  PROVE  /\ visitHistory \subseteq visitHistory'
         /\ \A v \in visitHistory' \ visitHistory : v.competition = c => v.at > f
         /\ \A v \in visitHistory' : v.at \in Nat
  <1>0. /\ visitHistory \subseteq Visit /\ visitHistory' \subseteq Visit
    BY NextTypeOK DEF TypeOK, TablesOK
  <1>1. ASSUME NEW r \in Request, RankingVisit(r)
        PROVE  /\ visitHistory \subseteq visitHistory'
               /\ \A v \in visitHistory' \ visitHistory : v.competition = c => v.at > f
    BY <1>1 DEF RankingVisit, NoLateVisit
  <1> QED
    BY <1>0, <1>1, TablesStep DEF Visit

LEMMA VisitorsStay ==
  ASSUME TypeOK, [Next]_vars, NEW c \in Competition, NEW f \in Nat, NoLateVisit(c, f)
  PROVE  VisitorsInTime(c, f)' = VisitorsInTime(c, f)
  <1>0. now \in Nat /\ now' \in Nat /\ now <= now' /\ f < now /\ f # NULL
    BY TablesStep, ConstantsAssumption DEF TypeOK, TablesOK, NoLateVisit
  <1>1. /\ visitHistory \subseteq visitHistory'
        /\ \A v \in visitHistory' \ visitHistory : v.competition = c => v.at > f
        /\ \A v \in visitHistory' : v.at \in Nat
    BY VisitsStay
  <1>2. ASSUME NEW p \in Player, NEW t \in 1..now, FirstVisit(p, c, t), f >= t
        PROVE  t \in 1..now' /\ FirstVisit(p, c, t)'
    <2>1. \A v \in visitHistory' : v.player = p /\ v.competition = c => t <= v.at
      BY <1>1, <1>2 DEF FirstVisit
    <2>2. t \in 1..now'
      BY <1>0
    <2> QED
      BY <1>1, <1>2, <2>1, <2>2 DEF FirstVisit
  <1>3. ASSUME NEW p \in Player, NEW t \in 1..now', FirstVisit(p, c, t)', f >= t
        PROVE  t \in 1..now /\ FirstVisit(p, c, t)
    <2> DEFINE v == [player |-> p, competition |-> c, at |-> t]
    <2>1. v \in visitHistory' /\ v.competition = c /\ v.at = t
      BY <1>3 DEF FirstVisit
    <2>2. v \in visitHistory
      <3> HIDE DEF v
      <3> QED
        BY <1>0, <1>1, <1>3, <2>1
    <2>3. t \in 1..now
      BY <1>0, <1>3
    <2> QED
      BY <1>1, <1>3, <2>2, <2>3 DEF FirstVisit
  <1>4. ASSUME NEW p \in Player
        PROVE  (\E t \in 1..now' : FirstVisit(p, c, t)' /\ (f = NULL \/ f >= t))
               <=> (\E t \in 1..now : FirstVisit(p, c, t) /\ (f = NULL \/ f >= t))
    BY <1>0, <1>2, <1>3
  <1> QED
    BY <1>4 DEF VisitorsInTime

LEMMA SettledSays ==
  ASSUME TypeOK, NEW c \in Competition, Settled(c)
  PROVE  finishedAt[c] \in Nat /\ Drained(c) /\ NoLateVisit(c, finishedAt[c])
  BY DEF Settled, Drained, Finished, TypeOK, TablesOK, NoLateVisit

LEMMA SettledStays ==
  ASSUME TypeOK, [Next]_vars, NEW c \in Competition, Settled(c), finishedAt'[c] = finishedAt[c]
  PROVE  Settled(c)' /\ Bill(c)' = Bill(c)
  <1>1. PICK f \in Nat : f = finishedAt[c] /\ f = finishedAt'[c]
    BY SettledSays
  <1>2. Drained(c)' /\ playerScore'[c] = playerScore[c]
    BY SettledSays, DrainedStays
  <1>3. NoLateVisit(c, f)
    BY <1>1, SettledSays
  <1>4. NoLateVisit(c, f)'
    BY <1>3, NoLateVisitStays
  <1>5. VisitorsInTime(c, f)' = VisitorsInTime(c, f)
    BY <1>3, VisitorsStay
  <1>6. Settled(c)'
    BY <1>1, <1>2, <1>4 DEF Settled, NoLateVisit
  <1>7. Bill(c) = ReportOf(c, f, VisitorsInTime(c, f), Scored(playerScore[c]))
    BY <1>1 DEF Bill
  <1>8. Bill(c)' = ReportOf(c, f, VisitorsInTime(c, f)', Scored(playerScore'[c]))
    BY <1>1 DEF Bill, ReportOf, VisitorsInTime, FirstVisit, Scored
  <1> QED
    BY <1>2, <1>5, <1>6, <1>7, <1>8

(* The bill of a competition is final once its uploads are drained, the clock  *)
(* has left the second of its finish and no older visit is on its way, unless  *)
(* it is finished a second time: from then on the report can be cached.        *)
THEOREM SettledIsFinal == Spec => SettledBillIsFinal
  <1>1. TypeOK /\ [Next]_vars =>
          [\A c \in Competition :
             Settled(c) /\ finishedAt'[c] = finishedAt[c] =>
                Settled(c)' /\ Bill(c)' = Bill(c)]_vars
    BY SettledStays
  <1> QED
    BY <1>1, TypeCorrect, PTL DEF Spec, SettledBillIsFinal

-----------------------------------------------------------------------------
(* What a billing request reports of a competition that was settled when it    *)
(* came                                                                        *)

(* Competition c was finished at t, and whatever finishes it again does so     *)
(* later than t; until then it is settled.                                     *)
Safe(c, t) ==
    /\ c \in Competition /\ t \in Nat /\ t < now
    /\ \A s \in Request : pc[s] = "finish_update" /\ req[s].competition = c => req[s].at > t
    /\ finishedAt[c] = t => Settled(c)

LEMMA SafeStays ==
  ASSUME TypeOK, [Next]_vars, NEW c, NEW t, Safe(c, t)
  PROVE  /\ Safe(c, t)'
         /\ finishedAt'[c] = t => /\ finishedAt[c] = t
                                  /\ VisitorsInTime(c, t)' = VisitorsInTime(c, t)
  <1>0. c \in Competition /\ t \in Nat /\ t < now /\ now \in Nat
    BY DEF Safe, TypeOK, TablesOK
  <1>1. now' \in Nat /\ t < now'
    BY <1>0, TablesStep
  <1>2. \A s \in Request : pc'[s] = "finish_update" /\ req'[s].competition = c => req'[s].at > t
    BY <1>0, Stamps DEF Safe
  <1>3. finishedAt'[c] = t => finishedAt[c] = t
    <2>1. ASSUME NEW s \in Request, FinishUpdate(s), finishedAt'[c] = t PROVE finishedAt[c] = t
      <3>1. /\ pc[s] = "finish_update"
            /\ finishedAt' = [finishedAt EXCEPT ![req[s].competition] = req[s].at]
        BY <2>1 DEF FinishUpdate
      <3>2. req[s].competition = c => req[s].at > t
        BY <3>1 DEF Safe
      <3> QED
        BY <2>1, <3>1, <3>2, <1>0 DEF TypeOK, TablesOK
    <2> QED
      BY <2>1, TablesStep
  <1>4. ASSUME finishedAt'[c] = t
        PROVE  /\ finishedAt[c] = t /\ Settled(c)'
               /\ VisitorsInTime(c, t)' = VisitorsInTime(c, t)
    <2>1. finishedAt[c] = t /\ Settled(c)
      BY <1>3, <1>4 DEF Safe
    <2>2. NoLateVisit(c, t)
      BY <1>0, <2>1, SettledSays
    <2> QED
      BY <1>0, <1>4, <2>1, <2>2, SettledStays, VisitorsStay
  <1> QED
    BY <1>0, <1>1, <1>2, <1>4 DEF Safe

(* Until c is finished again, what r has read of it so far makes up its bill.  *)
ReadsBill(r, c, t) ==
    finishedAt[c] = t /\ req[r].competition = c =>
        /\ pc[r] \in Reported => req[r].fin = t
        /\ pc[r] \in {"billing_lock", "billing_count"} => req[r].visitors = VisitorsInTime(c, t)

SettledInv ==
    \A r \in Request : pc[r] \in Billing =>
        \A pair \in req[r].settled : /\ pair = <<pair[1], pair[2]>>
                                     /\ Safe(pair[1], pair[2])
                                     /\ ReadsBill(r, pair[1], pair[2])

LEMMA SettledInvStep == TypeOK /\ SettledInv /\ [Next]_vars => SettledInv'
  <1> SUFFICES ASSUME TypeOK, SettledInv, [Next]_vars,
                      NEW r \in Request, pc'[r] \in Billing, NEW pair \in req'[r].settled
               PROVE  /\ pair = <<pair[1], pair[2]>>
                      /\ Safe(pair[1], pair[2])'
                      /\ ReadsBill(r, pair[1], pair[2])'
    BY DEF SettledInv
  <1>0. ControlOK /\ req \in [Request -> Local] /\ req[r] \in Local
    BY DEF TypeOK, LocalsOK
  <1> DEFINE c == pair[1]
             t == pair[2]
  <1>o. ASSUME pc[r] \in Billing, pair \in req[r].settled
        PROVE  /\ pair = <<c, t>> /\ Safe(c, t) /\ Safe(c, t)' /\ ReadsBill(r, c, t)
               /\ finishedAt'[c] = t => /\ finishedAt[c] = t
                                        /\ VisitorsInTime(c, t)' = VisitorsInTime(c, t)
    BY <1>o, SafeStays DEF SettledInv
  <1>1. CASE pc'[r] = pc[r] /\ req'[r] = req[r]
    BY <1>1, <1>o DEF ReadsBill
  <1>2. CASE BillingReceive(r)
    <2>1. CASE Goto(r, "billing_competition") /\
               req' = [req EXCEPT ![r].todo = competition, ![r].settled = SettledBills]
      <3>1. pc'[r] = "billing_competition" /\ req'[r].settled = SettledBills
        BY <1>0, <2>1 DEF Goto, ControlOK, Local
      <3>2. PICK d \in Competition :
               /\ pair = <<d, finishedAt[d]>> /\ Settled(d)
               /\ \A s \in Request : ~(pc[s] = "finish_update" /\ req[s].competition = d)
        BY <3>1 DEF SettledBills
      <3>3. c = d /\ t = finishedAt[d] /\ pair = <<c, t>>
        BY <3>2
      <3>4. Safe(d, finishedAt[d])
        BY <3>2, SettledSays DEF Safe, Settled
      <3>5. Safe(c, t)'
        BY <3>3, <3>4, SafeStays
      <3>6. pc'[r] \notin Reported /\ pc'[r] \notin {"billing_lock", "billing_count"}
        BY <3>1 DEF Reported
      <3> QED
        BY <3>3, <3>5, <3>6 DEF ReadsBill
    <2>2. CASE \E response : Return(r, response)
      BY <1>0, <2>2 DEF Return, Goto, ControlOK, Billing, Reported
    <2> QED
      BY <1>2, <2>1, <2>2 DEF BillingReceive
  <1>3. CASE BillingCompetition(r)
    <2>1. PICK d \in req[r].todo :
             req' = [req EXCEPT ![r].competition = d, ![r].fin = finishedAt[d],
                                ![r].todo = @ \ {d}]
      BY <1>3 DEF BillingCompetition
    <2>2. /\ req'[r].settled = req[r].settled /\ req'[r].competition = d
          /\ req'[r].fin = finishedAt[d]
      BY <1>0, <2>1 DEF Local
    <2>3. pc[r] \in Billing /\ pc'[r] = "billing_visits" /\ finishedAt' = finishedAt
      BY <1>0, <1>3 DEF BillingCompetition, Goto, ControlOK, Billing, tables
    <2>4. pair \in req[r].settled
      BY <2>2
    <2> QED
      BY <1>o, <2>2, <2>3, <2>4 DEF ReadsBill
  <1>4. CASE BillingVisits(r)
    <2>1. /\ req' = [req EXCEPT ![r].visitors = VisitorsInTime(req[r].competition, req[r].fin)]
          /\ pc[r] \in Reported /\ pc[r] \in Billing
      BY <1>4 DEF BillingVisits, Reported, Billing
    <2>2. /\ req'[r].settled = req[r].settled /\ req'[r].competition = req[r].competition
          /\ req'[r].fin = req[r].fin
          /\ req'[r].visitors = VisitorsInTime(req[r].competition, req[r].fin)
      BY <1>0, <2>1 DEF Local
    <2> QED
      BY <1>o, <2>1, <2>2 DEF ReadsBill
  <1>5. CASE BillingLock(r)
    <2>1. req' = req /\ pc[r] = "billing_lock"
      BY <1>5 DEF BillingLock, Lock
    <2> QED
      BY <1>o, <2>1 DEF ReadsBill, Billing, Reported
  <1>6. CASE BillingCount(r)
    <2>1. CASE Goto(r, "billing_competition") /\
               \E reports : req' = [req EXCEPT ![r].reports = reports]
      <3>1. pc'[r] = "billing_competition" /\ req'[r].settled = req[r].settled
        BY <1>0, <2>1 DEF Goto, ControlOK, Local
      <3>2. pc[r] \in Billing
        BY <1>6 DEF BillingCount, Billing, Reported
      <3>3. pc'[r] \notin Reported /\ pc'[r] \notin {"billing_lock", "billing_count"}
        BY <3>1 DEF Reported
      <3> QED
        BY <1>o, <3>1, <3>2, <3>3 DEF ReadsBill
    <2>2. CASE \E response : Return(r, response)
      BY <1>0, <2>2 DEF Return, Goto, ControlOK, Billing, Reported
    <2> QED
      BY <1>6, <2>1, <2>2 DEF BillingCount
  <1>7. ~RankingReceive(r) /\ ~RankingCompetition(r) /\ ~FinishReceive(r)
    <2>1. ASSUME RankingReceive(r) \/ RankingCompetition(r) \/ FinishReceive(r)
          PROVE  \E label \in {"ranking_competition", "ranking_visit", "finish_update", "idle"} :
                    Goto(r, label)
      BY <2>1 DEF RankingReceive, RankingCompetition, FinishReceive, Return
    <2> QED
      BY <1>0, <2>1 DEF Goto, ControlOK, Billing, Reported
  <1> QED
    BY <1>1, <1>2, <1>3, <1>4, <1>5, <1>6, <1>7, Arrival DEF Arrives, BillingSteps, Followed

LEMMA SettledInvReports ==
  ASSUME TypeOK, SettledInv
  PROVE  SettledBillIsReported
  <1> SUFFICES ASSUME NEW r \in Request, pc[r] = "billing_count",
                      <<req[r].competition, finishedAt[req[r].competition]>> \in req[r].settled
               PROVE  ReportNow(r) = Bill(req[r].competition)
    BY DEF SettledBillIsReported
  <1> DEFINE c == req[r].competition
             t == finishedAt[c]
  <1>1. ReadsBill(r, c, t)
    <2>1. pc[r] \in Billing
      BY DEF Billing, Reported
    <2>2. ReadsBill(r, <<c, t>>[1], <<c, t>>[2])
      BY <2>1 DEF SettledInv
    <2> QED
      BY <2>2
  <1>2. req[r].fin = t /\ req[r].visitors = VisitorsInTime(c, t)
    BY <1>1 DEF ReadsBill, Reported
  <1> QED
    BY <1>2 DEF ReportNow, Bill

(* billingReportByCompetition reads the competition, the visits and the scores *)
(* at three times; of a competition that was settled when the request came and *)
(* has not been finished again it nevertheless reports the bill.               *)
THEOREM SettledIsReported == Spec => []SettledBillIsReported
  <1>1. Init => SettledInv
    BY DEF Init, SettledInv, Billing, Reported
  <1>2. TypeOK /\ SettledInv => SettledBillIsReported
    BY SettledInvReports
  <1> QED
    BY <1>1, <1>2, SettledInvStep, TypeCorrect, PTL DEF Spec

-----------------------------------------------------------------------------
(* Only finished competitions are charged *)

Charges(report) == report.player \cup report.visitor # {}
OnlyFinished(reports) == \A report \in reports : Charges(report) => Finished(report.competition)

ChargesInv ==
    /\ OnlyFinished(answer.reports)
    /\ \A r \in Request :
          /\ OnlyFinished(req[r].reports)
          /\ pc[r] \in Reported /\ req[r].fin # NULL => Finished(req[r].competition)

(* Reports are made by BillingCount and nowhere else. *)
LEMMA ReportsStep ==
  ASSUME TypeOK, [Next]_vars
  PROVE  /\ \/ answer'.reports \in {answer.reports, {}}
            \/ \E r \in Request : BillingCount(r)
         /\ \A s \in Request : req'[s].reports \in {req[s].reports, {}} \/ BillingCount(s)
  <1>0. ControlOK /\ req \in [Request -> Local]
    BY DEF TypeOK, LocalsOK
  <1>s. /\ \A api, code : Status(api, code).reports = {}
        /\ \A api, code, c, rows, fin : Response(api, code, c, rows, {}, fin).reports = {}
        /\ Idle.reports = {}
    BY DEF Status, Response, Idle
  <1> DEFINE Goal(r) == /\ answer'.reports \in {answer.reports, {}}
                        /\ req'[r].reports \in {req[r].reports, {}}
  <1>r. ASSUME NEW r \in Request, NEW response, Return(r, response), response.reports = {}
        PROVE  Goal(r)
    BY <1>0, <1>s, <1>r DEF Return
  <1>l. \A r \in Request : req[r] \in Local
    BY <1>0
  <1>1. ASSUME NEW r \in Request, ReceiveStep(r) PROVE Goal(r)
    <2>1. \/ \E response : response.reports = {} /\ Return(r, response)
          \/ answer' = answer /\ req'[r].reports = req[r].reports
      <3>1. CASE ScoreReceive(r)
        BY <1>0, <3>1 DEF ScoreReceive, Local
      <3>2. CASE ScoreRefuse(r)
        BY <1>s, <3>2 DEF ScoreRefuse
      <3>3. CASE FinishReceive(r)
        <4>1. ASSUME NEW c, req' = [req EXCEPT ![r].competition = c, ![r].at = now], answer' = answer
              PROVE  answer' = answer /\ req'[r].reports = req[r].reports
          BY <1>0, <4>1 DEF Local
        <4>2. \A code : Status("finish", code).reports = {}
          BY <1>s
        <4> QED
          BY <3>3, <4>1, <4>2 DEF FinishReceive
      <3>4. CASE RankingReceive(r)
        BY <1>0, <1>s, <3>4 DEF RankingReceive, Local
      <3>5. CASE PlayerReceive(r)
        BY <1>s, <3>5 DEF PlayerReceive
      <3>6. CASE BillingReceive(r)
        BY <1>0, <1>s, <3>6 DEF BillingReceive, Local
      <3>7. CASE CompetitionsReceive(r)
        BY <1>s, <3>7 DEF CompetitionsReceive
      <3>8. CASE DisqualifiedUpdate(r)
        BY <1>0, <3>8 DEF DisqualifiedUpdate, Local
      <3>9. CASE PlayersAddReceive(r)
        BY <1>0, <1>s, <3>9 DEF PlayersAddReceive, Local
      <3>10. CASE CompetitionsAddDispense(r)
        BY <1>0, <3>10 DEF CompetitionsAddDispense, Local
      <3> QED
        BY <1>1, <3>1, <3>2, <3>3, <3>4, <3>5, <3>6, <3>7, <3>8, <3>9, <3>10 DEF ReceiveStep
    <2> QED
      BY <2>1, <1>r
  <1>2. ASSUME NEW r \in Request, LockStep(r) PROVE Goal(r)
    BY <1>2 DEF LockStep, ScoreLock, RankingLock, PlayerLock, BillingLock, Lock
  <1>3. ASSUME NEW r \in Request, HandlerStep(r), ~BillingCount(r) PROVE Goal(r)
    <2>1. \/ \E response : response.reports = {} /\ Return(r, response)
          \/ answer' = answer /\ req'[r].reports = req[r].reports
      <3>1. CASE ScoreParse(r)
        BY <1>s, <3>1 DEF ScoreParse
      <3>2. CASE ScoreDelete(r) \/ ScoreInsert(r)
        BY <1>0, <3>2 DEF ScoreDelete, ScoreInsert, Local
      <3>3. CASE ScoreReturn(r) \/ FinishUpdate(r) \/ DisqualifiedRetrieve(r)
                 \/ CompetitionsAddInsert(r)
        BY <1>s, <3>3 DEF ScoreReturn, FinishUpdate, DisqualifiedRetrieve, CompetitionsAddInsert
      <3>4. CASE RankingCompetition(r)
        <4>1. CASE \E c \in competition :
                      /\ req' = [req EXCEPT ![r].competition = c, ![r].fin = finishedAt[c],
                                            ![r].at = now]
                      /\ UNCHANGED <<flock, answer>>
          BY <1>0, <4>1 DEF Local
        <4>2. CASE \E c : Return(r, Status("ranking", 404))
          BY <1>s, <4>2
        <4> QED
          BY <3>4, <4>1, <4>2 DEF RankingCompetition
      <3>5. CASE RankingVisit(r)
        BY <1>s, <3>5 DEF RankingVisit
      <3>6. CASE RankingRead(r)
        BY <1>s, <3>6 DEF RankingRead
      <3>7. CASE PlayerRetrieve(r)
        <4>1. ASSUME NEW c, req' = [req EXCEPT ![r].player = c, ![r].todo = competition], answer' = answer
              PROVE  answer' = answer /\ req'[r].reports = req[r].reports
          BY <1>0, <4>1 DEF Local
        <4>2. \A code : Status("player", code).reports = {}
          BY <1>s
        <4> QED
          BY <3>7, <4>1, <4>2 DEF PlayerRetrieve
      <3>8. CASE PlayerRead(r)
        BY <1>s, <3>8 DEF PlayerRead
      <3>9. CASE BillingCompetition(r) \/ BillingVisits(r)
        BY <1>0, <3>9 DEF BillingCompetition, BillingVisits, Local
      <3>10. CASE CompetitionsSelect(r)
        BY <1>s, <3>10 DEF CompetitionsSelect
      <3>11. CASE PlayersAddDispense(r)
        BY <1>0, <1>s, <3>11 DEF PlayersAddDispense, Local
      <3>12. CASE PlayersAddInsert(r)
        BY <1>0, <1>s, <3>12 DEF PlayersAddInsert, Local
      <3> QED
        BY <1>3, <3>1, <3>2, <3>3, <3>4, <3>5, <3>6, <3>7, <3>8, <3>9, <3>10, <3>11, <3>12
           DEF HandlerStep
    <2> QED
      BY <2>1, <1>r
  <1>4. ASSUME NEW r \in Request, StatementFails(r) PROVE Goal(r)
    BY <1>4, <1>r, <1>s DEF StatementFails
  <1>5. ASSUME NEW r \in Request,
               ReceiveStep(r) \/ LockStep(r) \/ HandlerStep(r) \/ StatementFails(r)
        PROVE  /\ answer'.reports \in {answer.reports, {}} \/ BillingCount(r)
               /\ \A s \in Request : req'[s].reports \in {req[s].reports, {}} \/ BillingCount(s)
    BY <1>1, <1>2, <1>3, <1>4, <1>5, OthersStay
  <1>6. ASSUME Crash \/ Tick \/ UNCHANGED vars
        PROVE  /\ answer'.reports = answer.reports
               /\ \A s \in Request : req'[s].reports \in {req[s].reports, {}}
    BY <1>6, <1>s DEF Crash, Tick, vars
  <1> QED
    BY <1>5, <1>6 DEF Next

LEMMA ChargesStep == TypeOK /\ ChargesInv /\ [Next]_vars => ChargesInv'
  <1> SUFFICES ASSUME TypeOK, ChargesInv, [Next]_vars PROVE ChargesInv'
    OBVIOUS
  <1>0. /\ ControlOK /\ req \in [Request -> Local] /\ answer.reports \in SUBSET Report
        /\ \A s \in Request : req[s] \in Local /\ req[s].reports \in SUBSET Report
    BY DEF TypeOK, LocalsOK, AnswerOK, Answer, Local
  <1>1. \A c \in Competition : Finished(c) => Finished(c)'
    BY FinishedStays
  <1>2. ASSUME NEW reports \in SUBSET Report, OnlyFinished(reports) PROVE OnlyFinished(reports)'
    BY <1>1, <1>2 DEF OnlyFinished, Charges, Report
  <1>3. OnlyFinished({})'
    BY DEF OnlyFinished
  <1>4. ASSUME NEW r \in Request, BillingCount(r)
        PROVE  OnlyFinished(req[r].reports \cup {ReportNow(r)})
    <2>1. req[r].competition \in Competition /\ pc[r] \in Reported
      BY <1>4 DEF BillingCount, TypeOK, LocalsOK, NeedsCompetition, Reported
    <2>2. /\ ReportNow(r).competition = req[r].competition
          /\ Charges(ReportNow(r)) => req[r].fin # NULL
      BY DEF ReportNow, ReportOf, Charges
    <2>3. Charges(ReportNow(r)) => Finished(ReportNow(r).competition)
      BY <2>1, <2>2 DEF ChargesInv
    <2> QED
      BY <2>3 DEF OnlyFinished, ChargesInv
  <1>5. ASSUME NEW r \in Request, BillingCount(r)
        PROVE  /\ answer'.reports \in {answer.reports, req[r].reports \cup {ReportNow(r)}}
               /\ req'[r].reports \in {{}, req[r].reports \cup {ReportNow(r)}}
    BY <1>0, <1>5 DEF BillingCount, Return, Response, Idle, Local
  <1>6. ASSUME NEW r \in Request, BillingCount(r)
        PROVE  \A report \in req[r].reports \cup {ReportNow(r)} :
                  Charges(report) => Finished(report.competition)'
    <2>1. finishedAt' = finishedAt
      BY <1>6 DEF BillingCount, tables
    <2> QED
      BY <1>4, <1>6, <2>1 DEF OnlyFinished, Finished
  <1>7. \A report \in answer'.reports : Charges(report) => Finished(report.competition)'
    BY <1>0, <1>2, <1>3, <1>5, <1>6, ReportsStep DEF ChargesInv, OnlyFinished
  <1>8. ASSUME NEW s \in Request
        PROVE  \A report \in req'[s].reports : Charges(report) => Finished(report.competition)'
    BY <1>0, <1>2, <1>3, <1>5, <1>6, ReportsStep DEF ChargesInv, OnlyFinished
  <1>9. ASSUME NEW s \in Request, pc'[s] \in Reported, req'[s].fin # NULL
        PROVE  finishedAt'[req'[s].competition] # NULL
    <2>1. CASE /\ pc[s] \in Reported /\ req'[s].competition = req[s].competition
               /\ req'[s].fin = req[s].fin
      <3>1. req[s].competition \in Competition /\ Finished(req[s].competition)
        BY <1>9, <2>1 DEF ChargesInv, TypeOK, LocalsOK, NeedsCompetition, Reported
      <3>2. PICK c \in Competition : c = req[s].competition
        BY <3>1
      <3>3. Finished(c)'
        BY <1>1, <3>1, <3>2
      <3> QED
        BY <2>1, <3>2, <3>3 DEF Finished
    <2>2. CASE pc'[s] = pc[s] /\ req'[s] = req[s]
      BY <1>9, <2>1, <2>2
    <2>3. CASE BillingCompetition(s)
      <3>1. PICK d \in req[s].todo :
               req' = [req EXCEPT ![s].competition = d, ![s].fin = finishedAt[d],
                                  ![s].todo = @ \ {d}]
        BY <2>3 DEF BillingCompetition
      <3>2. req'[s].competition = d /\ req'[s].fin = finishedAt[d]
        BY <1>0, <3>1 DEF Local
      <3>3. finishedAt' = finishedAt
        BY <2>3 DEF BillingCompetition, tables
      <3> QED
        BY <1>9, <3>2, <3>3
    <2>4. CASE BillingVisits(s)
      <3>1. /\ req' = [req EXCEPT ![s].visitors = VisitorsInTime(req[s].competition, req[s].fin)]
            /\ pc[s] \in Reported
        BY <2>4 DEF BillingVisits, Reported
      <3>2. req'[s].competition = req[s].competition /\ req'[s].fin = req[s].fin
        BY <1>0, <3>1 DEF Local
      <3> QED
        BY <2>1, <3>1, <3>2
    <2>5. CASE BillingLock(s)
      BY <2>1, <2>5 DEF BillingLock, Lock, Reported
    <2>6. ASSUME BillingReceive(s) \/ BillingCount(s) \/ RankingReceive(s)
                 \/ RankingCompetition(s) \/ FinishReceive(s)
          PROVE  FALSE
      <3>1. \E label \in {"billing_competition", "ranking_competition", "ranking_visit",
                           "finish_update", "idle"} : Goto(s, label)
        BY <2>6 DEF BillingReceive, BillingCount, RankingReceive, RankingCompetition,
           FinishReceive, Return
      <3> QED
        BY <1>0, <1>9, <3>1 DEF Goto, ControlOK, Reported
    <2> QED
      BY <1>9, <2>2, <2>3, <2>4, <2>5, <2>6, Arrival
         DEF Arrives, BillingSteps, Followed, Billing
  <1> QED
    BY <1>7, <1>8, <1>9 DEF ChargesInv, OnlyFinished, Finished, Charges

(* No billing answer charges a competition that is still running, whatever is  *)
(* finished, uploaded and visited between the statements of the report.        *)
THEOREM ChargesFinished == Spec => []ChargesOnlyFinished
  <1>1. Init => ChargesInv
    BY DEF Init, ChargesInv, OnlyFinished, NoAnswer, Status, Response, Idle, Reported
  <1>2. ChargesInv => ChargesOnlyFinished
    BY DEF ChargesInv, OnlyFinished, Charges, ChargesOnlyFinished
  <1> QED
    BY <1>1, <1>2, ChargesStep, TypeCorrect, PTL DEF Spec

-----------------------------------------------------------------------------
(* Visits of the disqualified *)

LEMMA DisqualifiedStays ==
  ASSUME [Next]_vars
  PROVE  disqualified \subseteq disqualified'
  <1>1. ASSUME NEW r \in Request, ReceiveStep(r) PROVE disqualified \subseteq disqualified'
    BY <1>1 DEF ReceiveStep, ScoreReceive, ScoreRefuse, FinishReceive, RankingReceive,
       PlayerReceive, BillingReceive, CompetitionsReceive, DisqualifiedUpdate,
       PlayersAddReceive, CompetitionsAddDispense, tables
  <1>2. ASSUME NEW r \in Request, LockStep(r) \/ StatementFails(r)
        PROVE  disqualified' = disqualified
    BY <1>2 DEF LockStep, ScoreLock, RankingLock, PlayerLock, BillingLock, Lock,
       StatementFails, tables
  <1>3. ASSUME NEW r \in Request, HandlerStep(r) PROVE disqualified' = disqualified
    BY <1>3 DEF HandlerStep, ScoreParse, ScoreDelete, ScoreInsert, ScoreReturn, FinishUpdate,
       RankingCompetition, RankingVisit, RankingRead, PlayerRetrieve, PlayerRead,
       BillingCompetition, BillingVisits, BillingCount, CompetitionsSelect,
       DisqualifiedRetrieve, PlayersAddDispense, PlayersAddInsert,
       CompetitionsAddInsert, tables
  <1>4. CASE Crash \/ Tick \/ UNCHANGED vars
    BY <1>4 DEF Crash, Tick, vars, tables
  <1> QED
    BY <1>1, <1>2, <1>3, <1>4 DEF Next

Visiting == {"ranking_competition", "ranking_visit"}

(* Only authorizePlayer lets a ranking request of p in. *)
LEMMA NobodyStartsToVisit ==
  ASSUME TypeOK, [Next]_vars, NEW p \in disqualified, ~VisitPending(p),
         NEW s \in Request, pc'[s] \in Visiting
  PROVE  req'[s].player # p
  <1>0. ControlOK /\ req \in [Request -> Local]
    BY DEF TypeOK, LocalsOK
  <1>p. pc[s] \in Visiting => req[s].player # p
    BY DEF VisitPending, Visiting
  <1>1. CASE pc'[s] = pc[s] /\ req'[s] = req[s]
    BY <1>1, <1>p
  <1>2. CASE RankingReceive(s)
    <2>1. CASE \E response : Return(s, response)
      BY <1>0, <2>1 DEF Return, Goto, ControlOK, Visiting
    <2>2. CASE \E q \in Player : Authorized(q) /\ req' = [req EXCEPT ![s].player = q]
      BY <1>0, <2>2 DEF Authorized, Local
    <2> QED
      BY <1>2, <2>1, <2>2 DEF RankingReceive
  <1>3. CASE RankingCompetition(s)
    <2>1. CASE \E response : Return(s, response)
      BY <1>0, <2>1 DEF Return, Goto, ControlOK, Visiting
    <2>2. CASE \E c \in competition :
                  req' = [req EXCEPT ![s].competition = c, ![s].fin = finishedAt[c], ![s].at = now]
      <3>1. req'[s].player = req[s].player
        BY <1>0, <2>2 DEF Local
      <3> QED
        BY <1>3, <1>p, <3>1 DEF RankingCompetition, Visiting
    <2> QED
      BY <1>3, <2>1, <2>2 DEF RankingCompetition
  <1>4. ~FinishReceive(s)
    BY <1>0 DEF FinishReceive, Return, Goto, ControlOK, Visiting
  <1>5. ~BillingSteps(s)
    BY BillingGoes DEF Visiting, Billing, Reported
  <1> QED
    BY <1>1, <1>2, <1>3, <1>4, <1>5, Arrival DEF Arrives, Followed, Visiting

LEMMA NoVisitOf ==
  ASSUME TypeOK, [Next]_vars, NEW p \in disqualified, ~VisitPending(p)
  PROVE  ~VisitPending(p)' /\ \A v \in visitHistory' \ visitHistory : v.player # p
  <1>1. ~VisitPending(p)'
    BY NobodyStartsToVisit DEF VisitPending, Visiting
  <1>2. ASSUME NEW r \in Request, RankingVisit(r)
        PROVE  \A v \in visitHistory' \ visitHistory : v.player # p
    BY <1>2 DEF RankingVisit, VisitPending
  <1> QED
    BY <1>1, <1>2, TablesStep

(* Disqualification is for ever, and once the ranking requests that were       *)
(* authorized before it are through, the participant leaves no visit any more  *)
(* that the tenant would be charged for.                                       *)
THEOREM DisqualifiedLeavesNoVisit == Spec => DisqualifiedStaysOut
  <1>1. TypeOK /\ [Next]_vars =>
          [\A p \in Player :
             p \in disqualified =>
                /\ p \in disqualified'
                /\ ~VisitPending(p) =>
                      /\ ~VisitPending(p)'
                      /\ \A v \in visitHistory' \ visitHistory : v.player # p]_vars
    BY DisqualifiedStays, NoVisitOf
  <1> QED
    BY <1>1, TypeCorrect, PTL DEF Spec, DisqualifiedStaysOut
===========================================================================
