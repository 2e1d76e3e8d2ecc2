-------------------------- MODULE Validation_proofs --------------------------
(* Theorems about Service, for any tables and any request, and about           *)
(* Validation, for any server, any goroutines and any time the minute ends;    *)
(* and what the proofs in Checks_proofs need: facts about orders and           *)
(* sequences, what a server that is as written answers to each request of the  *)
(* checks, and that each of these answers is one the check wants, from the     *)
(* tables the check's earlier requests have made.                              *)
EXTENDS Validation, FiniteSetTheorems, SequenceTheorems, TLAPS

-----------------------------------------------------------------------------
(* Service: the tables of a tenant, for any rows and any visitors *)

CompetitionsOf(R, V) ==
    [finished : BOOLEAN, rows : Seq(R), visitors : SUBSET V, late : SUBSET V]
TenantsOf(R, V) ==
    [file : BOOLEAN, players : Nat, disqualified : SUBSET Nat, competitions : Seq(CompetitionsOf(R, V))]

(* A request has the parameters its handler reads. *)
HasParameters(q, R, V) ==
    /\ q.op \in OrganizerApi \cup PlayerApi
    /\ q.op = "players_add" => q.n \in Nat
    /\ q.op = "score" => q.rows \in Seq(R)
    /\ q.op = "ranking" => q.as.player \in V

(* What a competition owes stays; or it is no less. *)
SameBill(old, new) == Report(new) = Report(old)
NobodyLetOff(old, new) == Scored(new) = Scored(old) /\ old.visitors \subseteq new.visitors

(* The competition a request finishes. *)
Finishes(q) == IF q.op = "finish" THEN {q.competition} ELSE {}

(* What was finished stays so, with what is owed for it, unless it is among    *)
(* those finished again.                                                       *)
StandsFor(old, new, finishedAgain) ==
    old.finished => /\ new.finished /\ NobodyLetOff(old, new)
                    /\ ~finishedAgain => SameBill(old, new)
Stands(old, new, again) ==
    DOMAIN old \subseteq DOMAIN new /\ \A c \in DOMAIN old : StandsFor(old[c], new[c], c \in again)

LEMMA CompetitionChanged ==
  ASSUME NEW R, NEW V, NEW t \in TenantsOf(R, V), NEW c \in DOMAIN t.competitions,
         NEW k \in CompetitionsOf(R, V), NEW again, StandsFor(t.competitions[c], k, c \in again)
  PROVE  LET new == [t EXCEPT !.competitions = [t.competitions EXCEPT ![c] = k]]
         IN new \in TenantsOf(R, V) /\ Stands(t.competitions, new.competitions, again)
  <1> DEFINE cs == [t.competitions EXCEPT ![c] = k]
             new == [t EXCEPT !.competitions = cs]
  <1>1. t.competitions \in Seq(CompetitionsOf(R, V))
    BY DEF TenantsOf
  <1>2. c \in 1..Len(t.competitions) /\ DOMAIN t.competitions = 1..Len(t.competitions)
    BY <1>1, LenProperties
  <1>3. cs \in Seq(CompetitionsOf(R, V))
    BY <1>1, <1>2, ExceptSeq
  <1>4. /\ DOMAIN cs = DOMAIN t.competitions
        /\ \A d \in DOMAIN cs : cs[d] = IF d = c THEN k ELSE t.competitions[d]
    BY <1>1
  <1> HIDE DEF cs
  <1>5. new \in TenantsOf(R, V) /\ new.competitions = cs
    BY <1>3 DEF TenantsOf
  <1>6. Stands(t.competitions, cs, again)
    BY <1>4 DEF Stands, StandsFor, SameBill, NobodyLetOff
  <1> QED
    BY <1>5, <1>6 DEF cs

LEMMA TenantFields ==
  ASSUME NEW R, NEW V, NEW t \in TenantsOf(R, V)
  PROVE  /\ t.players \in Nat /\ t.disqualified \subseteq Nat
         /\ t.competitions \in Seq(CompetitionsOf(R, V))
         /\ \A c \in DOMAIN t.competitions : t.competitions[c] \in CompetitionsOf(R, V)
         /\ \A again : Stands(t.competitions, t.competitions, again)
  <1>1. /\ t.players \in Nat /\ t.disqualified \subseteq Nat
        /\ t.competitions \in Seq(CompetitionsOf(R, V))
    BY DEF TenantsOf
  <1>2. \A c \in DOMAIN t.competitions : t.competitions[c] \in CompetitionsOf(R, V)
    BY <1>1, LenProperties, ElementOfSeq
  <1> QED
    BY <1>1, <1>2 DEF Stands, StandsFor, SameBill, NobodyLetOff

LEMMA FinishKeepsBill ==
  ASSUME NEW R, NEW V, NEW t \in TenantsOf(R, V), NEW q, q.op = "finish"
  PROVE  LET new == CompetitionFinish(t, q).tenant
         IN new \in TenantsOf(R, V) /\ Stands(t.competitions, new.competitions, Finishes(q))
  <1>1. CASE ~Has(t, q.competition)
    BY <1>1, TenantFields DEF CompetitionFinish, Refused
  <1>2. CASE Has(t, q.competition)
    <2> DEFINE c == q.competition
               old == t.competitions[c]
               k == Finish(old)
    <2>1. c \in DOMAIN t.competitions /\ old \in CompetitionsOf(R, V)
      BY <1>2, TenantFields DEF Has
    <2>2. CompetitionFinish(t, q).tenant =
             [t EXCEPT !.competitions = [t.competitions EXCEPT ![c] = k]]
      BY <1>2 DEF CompetitionFinish, Done
    <2> HIDE DEF old
    <2>3. /\ k \in CompetitionsOf(R, V) /\ k.finished
          /\ k.rows = old.rows /\ old.visitors \subseteq k.visitors
      BY <2>1 DEF CompetitionsOf, Finish
    <2> HIDE DEF k, c
    <2>4. StandsFor(old, k, c \in Finishes(q))
      BY <2>3 DEF Finishes, c, StandsFor, NobodyLetOff, Scored
    <2> QED
      BY <2>1, <2>2, <2>3, <2>4, CompetitionChanged DEF old
  <1> QED
    BY <1>1, <1>2

LEMMA ScoreKeepsBill ==
  ASSUME NEW R, NEW V, NEW t \in TenantsOf(R, V), NEW q, q.rows \in Seq(R)
  PROVE  LET new == CompetitionScore(t, q).tenant
         IN new \in TenantsOf(R, V) /\ Stands(t.competitions, new.competitions, Finishes(q))
  <1> DEFINE c == q.competition
             old == t.competitions[c]
             k == [old EXCEPT !.rows = q.rows]
             changed == [t EXCEPT !.competitions = [t.competitions EXCEPT ![c] = k]]
  <1>1. \/ CompetitionScore(t, q).tenant = t
        \/ /\ Has(t, c) /\ ~old.finished
           /\ CompetitionScore(t, q).tenant = changed
    BY DEF CompetitionScore, Refused, Done
  <1>2. CASE CompetitionScore(t, q).tenant = t
    BY <1>2, TenantFields
  <1>3. CASE Has(t, c) /\ ~old.finished /\ CompetitionScore(t, q).tenant = changed
    <2>1. c \in DOMAIN t.competitions /\ old \in CompetitionsOf(R, V)
      BY <1>3, TenantFields DEF Has
    <2> HIDE DEF old
    <2>2. k \in CompetitionsOf(R, V)
      BY <2>1 DEF CompetitionsOf
    <2> HIDE DEF k, c
    <2>3. StandsFor(old, k, c \in Finishes(q))
      BY <1>3 DEF StandsFor, old
    <2>4. LET new == changed
          IN new \in TenantsOf(R, V) /\ Stands(t.competitions, new.competitions, Finishes(q))
      BY <2>1, <2>2, <2>3, CompetitionChanged DEF old
    <2> HIDE DEF changed
    <2> QED
      BY <1>3, <2>4
  <1> QED
    BY <1>1, <1>2, <1>3

LEMMA VisitKeepsBill ==
  ASSUME NEW R, NEW V, NEW t \in TenantsOf(R, V), NEW q, q.as.player \in V
  PROVE  LET new == CompetitionRanking(t, q).tenant
         IN new \in TenantsOf(R, V) /\ Stands(t.competitions, new.competitions, Finishes(q))
  <1>1. CASE ~Has(t, q.competition)
    BY <1>1, TenantFields DEF CompetitionRanking, Refused
  <1>2. CASE Has(t, q.competition)
    <2> DEFINE c == q.competition
               old == t.competitions[c]
               k == Visit(old, q.as.player)
    <2>1. c \in DOMAIN t.competitions /\ old \in CompetitionsOf(R, V)
      BY <1>2, TenantFields DEF Has
    <2>2. CompetitionRanking(t, q).tenant =
             [t EXCEPT !.competitions = [t.competitions EXCEPT ![c] = k]]
      BY <1>2 DEF CompetitionRanking, Done
    <2> HIDE DEF old
    <2>3. /\ k \in CompetitionsOf(R, V)
          /\ k.finished = old.finished /\ k.rows = old.rows
          /\ old.finished => k.visitors = old.visitors
      BY <2>1 DEF CompetitionsOf, Visit
    <2> HIDE DEF k, c
    <2>4. StandsFor(old, k, c \in Finishes(q))
      BY <2>3 DEF StandsFor, SameBill, NobodyLetOff, Report, Scored
    <2> QED
      BY <2>1, <2>2, <2>3, <2>4, CompetitionChanged DEF old
  <1> QED
    BY <1>1, <1>2

LEMMA AddKeepsBill ==
  ASSUME NEW R, NEW V, NEW t \in TenantsOf(R, V), NEW q
  PROVE  LET new == CompetitionsAdd(t, q).tenant
         IN new \in TenantsOf(R, V) /\ Stands(t.competitions, new.competitions, Finishes(q))
  <1> DEFINE cs == Append(t.competitions, NewCompetition)
             n == Len(t.competitions)
  <1>1. t.competitions \in Seq(CompetitionsOf(R, V)) /\ n \in Nat /\ DOMAIN t.competitions = 1..n
    BY TenantFields, LenProperties
  <1>2. NewCompetition \in CompetitionsOf(R, V)
    BY EmptySeq DEF NewCompetition, CompetitionsOf
  <1>3. /\ cs \in Seq(CompetitionsOf(R, V)) /\ Len(cs) = n + 1
        /\ \A c \in 1..n : cs[c] = t.competitions[c]
    BY <1>1, <1>2, AppendProperties
  <1>4. DOMAIN cs = 1..(n + 1)
    BY <1>3, LenProperties
  <1>5. CompetitionsAdd(t, q).tenant = [t EXCEPT !.competitions = cs]
    BY DEF CompetitionsAdd, Done
  <1> HIDE DEF cs, n
  <1>6. [t EXCEPT !.competitions = cs] \in TenantsOf(R, V)
        /\ [t EXCEPT !.competitions = cs].competitions = cs
    BY <1>3 DEF TenantsOf
  <1>7. Stands(t.competitions, cs, Finishes(q))
    BY <1>1, <1>3, <1>4 DEF Stands, StandsFor, SameBill, NobodyLetOff
  <1> QED
    BY <1>5, <1>6, <1>7

LEMMA PlayersKeepBill ==
  ASSUME NEW R, NEW V, NEW t \in TenantsOf(R, V), NEW q, HasParameters(q, R, V),
         q.op \in {"players_add", "disqualified"}
  PROVE  LET new == Handler(t, q).tenant
         IN new \in TenantsOf(R, V) /\ new.competitions = t.competitions
  <1>1. CASE q.op = "players_add"
    <2>1. t.players + q.n \in Nat
      BY <1>1, TenantFields DEF HasParameters
    <2>2. Handler(t, q).tenant = [t EXCEPT !.players = t.players + q.n]
      BY <1>1 DEF Handler, PlayersAdd, Done
    <2> QED
      BY <2>1, <2>2 DEF TenantsOf
  <1>2. CASE q.op = "disqualified"
    <2>1. Handler(t, q) = PlayerDisqualified(t, q)
      BY <1>2 DEF Handler
    <2>2. CASE q.player \notin Player(t)
      BY <2>1, <2>2 DEF PlayerDisqualified, Refused
    <2>3. CASE q.player \in Player(t)
      <3>1. t.disqualified \cup {q.player} \subseteq Nat
        BY <2>3, TenantFields DEF Player
      <3>2. Handler(t, q).tenant = [t EXCEPT !.disqualified = t.disqualified \cup {q.player}]
        BY <2>1, <2>3 DEF PlayerDisqualified, Done
      <3> QED
        BY <3>1, <3>2 DEF TenantsOf
    <2> QED
      BY <2>2, <2>3
  <1> QED
    BY <1>1, <1>2

LEMMA HandlerKeepsBill ==
  ASSUME NEW R, NEW V, NEW t \in TenantsOf(R, V), NEW q, HasParameters(q, R, V)
  PROVE  LET new == Handler(t, q).tenant
         IN new \in TenantsOf(R, V) /\ Stands(t.competitions, new.competitions, Finishes(q))
  <1>1. CASE q.op \in {"players_add", "disqualified"}
    <2>1. LET new == Handler(t, q).tenant
          IN new \in TenantsOf(R, V) /\ new.competitions = t.competitions
      BY <1>1, PlayersKeepBill
    <2>2. Stands(t.competitions, t.competitions, Finishes(q))
      BY TenantFields
    <2> QED
      BY <2>1, <2>2
  <1>2. CASE q.op = "competitions_add"
    <2>1. Handler(t, q) = CompetitionsAdd(t, q)
      BY <1>2 DEF Handler
    <2> QED
      BY <2>1, AddKeepsBill
  <1>3. CASE q.op = "finish"
    <2>1. Handler(t, q) = CompetitionFinish(t, q)
      BY <1>3 DEF Handler
    <2> QED
      BY <1>3, <2>1, FinishKeepsBill
  <1>4. CASE q.op = "score"
    <2>1. Handler(t, q) = CompetitionScore(t, q) /\ q.rows \in Seq(R)
      BY <1>4 DEF Handler, HasParameters
    <2> QED
      BY <2>1, ScoreKeepsBill
  <1>5. CASE q.op = "ranking"
    <2>1. Handler(t, q) = CompetitionRanking(t, q) /\ q.as.player \in V
      BY <1>5 DEF Handler, HasParameters
    <2> QED
      BY <2>1, VisitKeepsBill
  <1>6. CASE q.op \in {"players", "billing", "organizer_competitions", "player_competitions", "player"}
    <2>1. Handler(t, q).tenant = t
      BY <1>6 DEF Handler, PlayersList, Billing, Competitions, PlayerPage, Done, Refused
    <2> QED
      BY <2>1, TenantFields
  <1> QED
    BY <1>1, <1>2, <1>3, <1>4, <1>5, <1>6 DEF HasParameters, OrganizerApi, PlayerApi

(* No request opens a finished competition again, and none but a second finish *)
(* changes what is owed for it, whatever scores are sent and whoever looks at  *)
(* the ranking afterwards.  A second finish charges for those who looked in    *)
(* between, and lets nobody off.                                               *)
THEOREM FinishedBillStands ==
  ASSUME NEW R, NEW V, NEW t \in TenantsOf(R, V), NEW q, HasParameters(q, R, V), NEW known
  PROVE  LET new == Answer(t, q, known).tenant
         IN new \in TenantsOf(R, V) /\ Stands(t.competitions, new.competitions, Finishes(q))
  <1>1. Answer(t, q, known).tenant = t \/ Answer(t, q, known) = Handler(t, q)
    BY DEF Answer, Refused
  <1> QED
    BY <1>1, HandlerKeepsBill, TenantFields

-----------------------------------------------------------------------------
(* The inductive invariant of the checks *)

Length(c) == Len(Script(c, choice))

(* A check that is over has been through its script, or gave up in the group. *)
OverIsThrough ==
    \A c \in Check : c \in started /\ result[c] = "nil" =>
        at[c] = Length(c) + 1 \/ (c = "allAPI" /\ at[c] = GroupStep /\ failed)

(* Who gave up in the group had a reason that fails the validation, or time    *)
(* was up.                                                                     *)
FailureIsKnown == failed => errors # {} \/ expired

PassedIsClean == main = "passed" => errors = {} /\ \A c \in Check : result[c] = "nil"

IInv ==
    /\ at \in [Check -> Int] /\ result \in [Check -> {"running", "nil", "error"}]
    /\ started \subseteq Check
    /\ OverIsThrough /\ FailureIsKnown /\ PassedIsClean

LEMMA Initially == Init => IInv
  <1> SUFFICES ASSUME Init PROVE IInv
    OBVIOUS
  <1>1. started \subseteq Check
    <2>1. \A c \in Check : {c} \subseteq Check
      OBVIOUS
    <2>2. PrepareCheck \subseteq Check /\ LoadCheck \subseteq Check /\ Interrupted \subseteq SUBSET Check
      <3>1. PrepareCheck \subseteq Check /\ LoadCheck \subseteq Check
        BY DEF Check
      <3>2. \A S \in Interrupted : S \subseteq PrepareCheck \/ S \subseteq LoadCheck
        BY ValidationAssumption
      <3>3. ASSUME NEW S \in Interrupted, NEW c \in S PROVE c \in Check
        BY <3>1, <3>2
      <3> QED
        BY <3>1, <3>3
    <2>3. \/ started \in {PrepareCheck, LoadCheck} \cup Interrupted
          \/ \E c \in Check : started = {c}
      BY <2>2 DEF Init
    <2> QED
      BY <2>1, <2>2, <2>3
  <1>2. /\ at \in [Check -> Int] /\ result \in [Check -> {"running", "nil", "error"}]
        /\ \A c \in started : result[c] = "running"
    BY <1>1 DEF Init
  <1>3. ~failed /\ main # "passed"
    BY DEF Init
  <1> QED
    BY <1>1, <1>2, <1>3 DEF IInv, OverIsThrough, FailureIsKnown, PassedIsClean

(* A check goes on or fails: whatever it asked and was told. *)
LEMMA CheckKeeps ==
  ASSUME IInv, NEW c \in Check, Running(c), GoOn(c) \/ Fail(c), errors \subseteq errors',
         UNCHANGED <<started, choice, main, failed, expired>>
  PROVE  IInv'
  <1>1. main = "checks" /\ result[c] = "running" /\ at[c] \in Int
    BY DEF Running, IInv
  <1>2. CASE Fail(c)
    <2>1. result' = [result EXCEPT ![c] = "error"] /\ UNCHANGED at
      BY <1>2 DEF Fail
    <2>2. result' \in [Check -> {"running", "nil", "error"}] /\ at' \in [Check -> Int]
      BY <2>1 DEF IInv
    <2>3. \A d \in Check : result'[d] = "nil" => result[d] = "nil"
      BY <2>1 DEF IInv
    <2> QED
      BY <1>1, <2>1, <2>2, <2>3 DEF IInv, OverIsThrough, FailureIsKnown, PassedIsClean, Length
  <1>3. CASE GoOn(c)
    <2>1. /\ at' = [at EXCEPT ![c] = at[c] + 1]
          /\ result' = [result EXCEPT ![c] = IF at[c] = Length(c) THEN "nil" ELSE result[c]]
      BY <1>3 DEF GoOn, Length
    <2>2. result' \in [Check -> {"running", "nil", "error"}] /\ at' \in [Check -> Int]
      BY <1>1, <2>1 DEF IInv
    <2>3. /\ at'[c] = at[c] + 1 /\ (result'[c] = "nil" => at[c] = Length(c))
          /\ \A d \in Check : d # c => result'[d] = result[d] /\ at'[d] = at[d]
      BY <1>1, <2>1 DEF IInv
    <2>4. \A d \in Check : Length(d)' = Length(d)
      BY DEF Length
    <2>5. OverIsThrough'
      BY <2>3, <2>4 DEF IInv, OverIsThrough
    <2> QED
      BY <1>1, <2>2, <2>5 DEF IInv, FailureIsKnown, PassedIsClean
  <1> QED
    BY <1>2, <1>3

LEMMA ReceiveGoesOn ==
  ASSUME NEW c, NEW s, NEW q, NEW a, Receive(c, s, q, a)
  PROVE  (GoOn(c) \/ Fail(c)) /\ errors \subseteq errors'
  BY DEF Receive

LEMMA WorksKeeps ==
  ASSUME IInv, NEW c \in Check, Works(c)
  PROVE  IInv'
  <1>1. Running(c) /\ UNCHANGED <<started, choice, main, failed, expired>>
    BY DEF Works, Asks, AsksPage, AddsTenant, AddsFile, Canceled, settings, group
  <1>2. CASE Canceled(c)
    BY <1>1, <1>2, CheckKeeps DEF Canceled, CutOff
  <1>3. CASE Asks(c)
    BY <1>1, <1>3, ReceiveGoesOn, CheckKeeps DEF Asks
  <1>4. CASE AsksPage(c)
    BY <1>1, <1>4, ReceiveGoesOn, CheckKeeps DEF AsksPage
  <1>5. CASE AddsFile(c)
    BY <1>1, <1>5, ReceiveGoesOn, CheckKeeps DEF AddsFile
  <1>6. CASE AddsTenant(c)
    <2>1. CASE UNCHANGED <<at, result, errors>>
      BY <1>1, <2>1 DEF IInv, OverIsThrough, FailureIsKnown, PassedIsClean, Length
    <2>2. CASE GoOn(c) \/ Fail(c)
      <3>1. errors \subseteq errors'
        BY <1>6 DEF AddsTenant, Receive
      <3> QED
        BY <1>1, <2>2, <3>1, CheckKeeps
    <2> QED
      BY <1>6, <2>1, <2>2, ReceiveGoesOn DEF AddsTenant
  <1> QED
    BY <1>2, <1>3, <1>4, <1>5, <1>6 DEF Works

(* A goroutine of the group fails only with something to show for it. *)
LEMMA GroupKeeps ==
  ASSUME IInv, InGroup, UNCHANGED <<started, choice, main, at, result, expired>>,
         errors \subseteq errors', failed => failed',
         failed' => failed \/ expired \/ errors' # {}
  PROVE  IInv'
  <1>1. main = "checks"
    BY DEF InGroup, Running
  <1> QED
    BY <1>1 DEF IInv, OverIsThrough, FailureIsKnown, PassedIsClean, Length

LEMMA RankerKeeps ==
  ASSUME IInv, NEW r \in Ranker, Reads(r)
  PROVE  IInv'
  <1>1. InGroup /\ UNCHANGED <<started, choice, main, at, result, expired>>
    BY DEF Reads, RankerPolls, RankerAsks, groupless, settings
  <1>2. CASE RankerPolls(r)
    BY <1>1, <1>2, GroupKeeps DEF RankerPolls
  <1>3. CASE RankerAsks(r)
    <2>1. PICK canceled \in BOOLEAN, ok \in BOOLEAN :
             /\ canceled => expired \/ failed
             /\ ok => ~canceled
             /\ errors' \in IF ok THEN {errors} ELSE IF canceled THEN CutOff("allAPI")
                             ELSE {errors \cup {<<"allAPI", "at_once">>}}
             /\ failed' = (failed \/ (~ok /\ strict))
      <3>1. PICK q \in AtOnce.ask :
               LET c == Contestant(q)
                   canceled == expired \/ failed
                   ok == ~canceled /\ Fits("allAPI", AtOnce, q, c.answer, memory["allAPI"], initial.billing)
               IN  /\ errors' \in IF ok THEN {errors} ELSE IF canceled THEN CutOff("allAPI")
                                  ELSE {errors \cup {<<"allAPI", "at_once">>}}
                   /\ failed' = (failed \/ (~ok /\ strict))
        BY <1>3 DEF RankerAsks
      <3> DEFINE canceled == expired \/ failed
                 ok == ~canceled /\ Fits("allAPI", AtOnce, q, Contestant(q).answer, memory["allAPI"],
                                         initial.billing)
      <3> QED
        BY <3>1, Zenon
    <2>2. errors \subseteq errors'
      BY <2>1 DEF CutOff
    <2>3. failed => failed'
      BY <2>1
    <2>4. failed' => failed \/ expired \/ errors' # {}
      BY <2>1
    <2> QED
      BY <1>1, <2>2, <2>3, <2>4, GroupKeeps
  <1> QED
    BY <1>2, <1>3 DEF Reads

LEMMA UploadsKeep ==
  ASSUME IInv, Uploads
  PROVE  IInv'
  <1>1. InGroup /\ UNCHANGED <<started, choice, main, at, result, expired>>
    BY DEF Uploads, UploaderHalf, UploaderAsks, groupless, settings
  <1>2. CASE UploaderHalf
    BY <1>1, <1>2, GroupKeeps DEF UploaderHalf
  <1>3. CASE UploaderAsks
    <2>1. PICK canceled \in BOOLEAN, ok \in BOOLEAN :
             /\ canceled => expired \/ failed
             /\ ok => ~canceled
             /\ errors' \in IF ok THEN {errors} ELSE IF canceled THEN CutOff("allAPI")
                             ELSE {errors \cup {<<"allAPI", "at_once">>}}
             /\ failed' = (failed \/ ~ok)
      <3>1. PICK q \in AllApiUpload.ask :
               LET c == Contestant(q)
                   canceled == expired \/ failed
                   ok == ~canceled /\ c.answer.status = 200
               IN  /\ errors' \in IF ok THEN {errors} ELSE IF canceled THEN CutOff("allAPI")
                                  ELSE {errors \cup {<<"allAPI", "at_once">>}}
                   /\ failed' = (failed \/ ~ok)
        BY <1>3 DEF UploaderAsks
      <3> DEFINE canceled == expired \/ failed
                 ok == ~canceled /\ Contestant(q).answer.status = 200
      <3> QED
        BY <3>1, Zenon
    <2>2. errors \subseteq errors'
      BY <2>1 DEF CutOff
    <2>3. failed => failed'
      BY <2>1
    <2>4. failed' => failed \/ expired \/ errors' # {}
      BY <2>1
    <2> QED
      BY <1>1, <2>2, <2>3, <2>4, GroupKeeps
  <1> QED
    BY <1>2, <1>3 DEF Uploads

LEMMA GroupEndsKeeps ==
  ASSUME IInv, GroupEnds
  PROVE  IInv'
  <1>1. /\ InGroup /\ UNCHANGED <<started, choice, main, failed, errors, expired>>
        /\ "allAPI" \in Check /\ Running("allAPI") /\ at["allAPI"] = GroupStep
        /\ main = "checks"
    BY DEF GroupEnds, settings, group, InGroup, Running, Check, PrepareCheck
  <1>2. CASE failed
    <2>1. result' = [result EXCEPT !["allAPI"] = "nil"] /\ UNCHANGED at
      BY <1>2 DEF GroupEnds
    <2>2. \A d \in Check : d # "allAPI" => result'[d] = result[d]
      BY <2>1 DEF IInv
    <2>3. OverIsThrough'
      BY <1>1, <1>2, <2>1, <2>2 DEF IInv, OverIsThrough, Length
    <2> QED
      BY <1>1, <2>1, <2>3 DEF IInv, FailureIsKnown, PassedIsClean
  <1>3. CASE ~failed
    BY <1>1, <1>3, CheckKeeps DEF GroupEnds
  <1> QED
    BY <1>2, <1>3

LEMMA Inductive == IInv /\ [Next]_vars => IInv'
  <1> SUFFICES ASSUME IInv, [Next]_vars PROVE IInv'
    OBVIOUS
  <1>1. CASE CreateTenant
    BY <1>1 DEF CreateTenant, settings, group, IInv, OverIsThrough, FailureIsKnown, PassedIsClean, Length
  <1>2. CASE Conclude
    <2>1. UNCHANGED <<started, choice, at, result, errors, failed, expired>>
      BY <1>2 DEF Conclude, settings, group
    <2>2. main' = "passed" => errors = {} /\ \A c \in Check : result[c] = "nil"
      BY <1>2 DEF Conclude
    <2> QED
      BY <2>1, <2>2 DEF IInv, OverIsThrough, FailureIsKnown, PassedIsClean, Length
  <1>3. CASE Deadline
    BY <1>3 DEF Deadline, settings, group, IInv, OverIsThrough, FailureIsKnown, PassedIsClean, Length
  <1>4. CASE UNCHANGED vars
    BY <1>4 DEF vars, settings, group, IInv, OverIsThrough, FailureIsKnown, PassedIsClean, Length
  <1> QED
    BY <1>1, <1>2, <1>3, <1>4, WorksKeeps, UploadsKeep, RankerKeeps, GroupEndsKeeps DEF Next

LEMMA Invariant == Spec => []IInv
  BY Initially, Inductive, PTL DEF Spec

-----------------------------------------------------------------------------
(* Who passes the validation has been asked every step of every check, unless  *)
(* the minute was over while getRankingFunc's goroutines raced the upload.     *)
THEOREM PassedWasAsked == Spec => []UncheckedOnlyInGroup
  <1>1. IInv => UncheckedOnlyInGroup
    <2> SUFFICES ASSUME IInv, main = "passed", NEW c \in started
                 PROVE  at[c] = Length(c) + 1 \/ (c = "allAPI" /\ at[c] = GroupStep /\ expired)
      BY DEF UncheckedOnlyInGroup, Length
    <2>1. c \in Check /\ errors = {} /\ result[c] = "nil"
      BY DEF IInv, PassedIsClean
    <2> QED
      BY <2>1 DEF IInv, OverIsThrough, FailureIsKnown
  <1> QED
    BY <1>1, Invariant, PTL

-----------------------------------------------------------------------------
(* Facts about orders, sequences and sums.  The library's induction theorems   *)
(* take an operator as a parameter, which no prover here can instantiate; the  *)
(* induction below is over a set of numbers instead.                           *)

-----------------------------------------------------------------------------
(* Arranging a finite set in a strict total order: each element comes behind as *)
(* many as are before it.                                                      *)

StrictTotal(S, before) ==
    /\ \A x \in S : <<x, x>> \notin before
    /\ \A x, y, z \in S : <<x, y>> \in before /\ <<y, z>> \in before => <<x, z>> \in before
    /\ \A x, y \in S : x = y \/ <<x, y>> \in before \/ <<y, x>> \in before

Before(S, before, x) == {y \in S : <<y, x>> \in before}

LEMMA BeforeCounts ==
  ASSUME NEW S, IsFiniteSet(S), NEW before, StrictTotal(S, before)
  PROVE  /\ \A x \in S : Cardinality(Before(S, before, x)) \in 0..(Cardinality(S) - 1)
         /\ \A x, y \in S : <<x, y>> \in before =>
               Cardinality(Before(S, before, x)) < Cardinality(Before(S, before, y))
  <1>1. \A x \in S : /\ IsFiniteSet(Before(S, before, x))
                     /\ Cardinality(Before(S, before, x)) \in Nat
                     /\ x \notin Before(S, before, x)
                     /\ Before(S, before, x) \in SUBSET S
    <2> SUFFICES ASSUME NEW x \in S
                 PROVE  /\ IsFiniteSet(Before(S, before, x))
                        /\ Cardinality(Before(S, before, x)) \in Nat
                        /\ x \notin Before(S, before, x)
                        /\ Before(S, before, x) \in SUBSET S
      OBVIOUS
    <2>1. Before(S, before, x) \in SUBSET S /\ x \notin Before(S, before, x)
      BY DEF Before, StrictTotal
    <2>2. IsFiniteSet(Before(S, before, x))
      BY <2>1, FS_Subset
    <2> QED
      BY <2>1, <2>2, FS_CardinalityType
  <1>2. Cardinality(S) \in Nat
    BY FS_CardinalityType
  <1>3. ASSUME NEW x \in S PROVE Cardinality(Before(S, before, x)) \in 0..(Cardinality(S) - 1)
    <2>1. Before(S, before, x) # S
      BY <1>1
    <2>2. Cardinality(Before(S, before, x)) <= Cardinality(S)
          /\ Cardinality(Before(S, before, x)) # Cardinality(S)
      BY <1>1, <2>1, FS_Subset
    <2> QED
      BY <1>1, <1>2, <2>2
  <1>4. ASSUME NEW x \in S, NEW y \in S, <<x, y>> \in before
        PROVE  Cardinality(Before(S, before, x)) < Cardinality(Before(S, before, y))
    <2>1. Before(S, before, x) \in SUBSET Before(S, before, y)
      BY <1>4 DEF Before, StrictTotal
    <2>2. x \in Before(S, before, y)
      BY <1>4 DEF Before
    <2>3. Cardinality(Before(S, before, x)) <= Cardinality(Before(S, before, y))
          /\ Cardinality(Before(S, before, x)) # Cardinality(Before(S, before, y))
      BY <1>1, <2>1, <2>2, FS_Subset
    <2> QED
      BY <1>1, <2>3
  <1> QED
    BY <1>3, <1>4

LEMMA ArrangementExists ==
  ASSUME NEW S, IsFiniteSet(S), NEW before, StrictTotal(S, before)
  PROVE  \E f \in [1..Cardinality(S) -> S] :
            \A i, j \in 1..Cardinality(S) : i < j => <<f[i], f[j]>> \in before
  <1> DEFINE n == Cardinality(S)
             p == [x \in S |-> Cardinality(Before(S, before, x)) + 1]
             g == [k \in 1..n |-> CHOOSE x \in S : p[x] = k]
  <1>1. n \in Nat /\ IsFiniteSet(1..n) /\ Cardinality(1..n) = n
    <2>1. n \in Nat
      BY FS_CardinalityType
    <2> HIDE DEF n
    <2> QED
      BY <2>1, FS_Interval
  <1>2. /\ p \in [S -> 1..n]
        /\ \A x, y \in S : <<x, y>> \in before => p[x] < p[y]
    <2>1. \A x \in S : p[x] \in 1..n
      BY <1>1, BeforeCounts
    <2>2. \A x, y \in S : <<x, y>> \in before => p[x] < p[y]
      <3> SUFFICES ASSUME NEW x \in S, NEW y \in S, <<x, y>> \in before PROVE p[x] < p[y]
        OBVIOUS
      <3>1. /\ Cardinality(Before(S, before, x)) \in 0..(n - 1)
            /\ Cardinality(Before(S, before, y)) \in 0..(n - 1)
            /\ Cardinality(Before(S, before, x)) < Cardinality(Before(S, before, y))
        BY BeforeCounts
      <3> HIDE DEF n
      <3> QED
        BY <1>1, <3>1
    <2> QED
      BY <2>1, <2>2
  <1> HIDE DEF p, n
  <1>3. \A x, y \in S : p[x] = p[y] => x = y
    <2> SUFFICES ASSUME NEW x \in S, NEW y \in S, p[x] = p[y], x # y PROVE FALSE
      OBVIOUS
    <2>1. p[x] < p[y] \/ p[y] < p[x]
      BY <1>2 DEF StrictTotal
    <2>2. p[x] \in Nat
      BY <1>1, <1>2
    <2> QED
      BY <2>1, <2>2
  <1>4. p \in Injection(S, 1..n)
    BY <1>2, <1>3 DEF Injection, IsInjective
  <1>5. p \in Surjection(S, 1..n)
    BY <1>1, <1>4, FS_Injection DEF n
  <1>6. \A k \in 1..n : g[k] \in S /\ p[g[k]] = k
    BY <1>5 DEF Surjection
  <1>7. g \in [1..n -> S]
    BY <1>6
  <1> HIDE DEF g
  <1>8. \A i, j \in 1..n : i < j => <<g[i], g[j]>> \in before
    <2> SUFFICES ASSUME NEW i \in 1..n, NEW j \in 1..n, i < j, <<g[i], g[j]>> \notin before
                 PROVE  FALSE
      OBVIOUS
    <2>1. g[i] \in S /\ g[j] \in S /\ p[g[i]] = i /\ p[g[j]] = j
      BY <1>6
    <2>2. g[i] = g[j] \/ <<g[j], g[i]>> \in before
      BY <2>1 DEF StrictTotal
    <2>3. i = j \/ j < i
      BY <1>2, <2>1, <2>2
    <2> QED
      BY <1>1, <2>3
  <1> QED
    BY <1>7, <1>8 DEF n

IsArrangement(f, S, before) ==
    /\ f \in [1..Cardinality(S) -> S]
    /\ \A i, j \in 1..Cardinality(S) : i < j => <<f[i], f[j]>> \in before

LEMMA ArrangementIs ==
  ASSUME NEW S, IsFiniteSet(S), NEW before, StrictTotal(S, before),
         NEW n, n = Cardinality(S), NEW f, IsArrangement(f, S, before)
  PROVE  /\ n \in Nat
         /\ \A x \in S : \E k \in 1..n : f[k] = x
         /\ \A k \in 1..n : Cardinality(Before(S, before, f[k])) = k - 1
  <1>1. n \in Nat /\ IsFiniteSet(1..n) /\ Cardinality(1..n) = n
    BY FS_CardinalityType, FS_Interval
  <1>2. f \in [1..n -> S] /\ \A i, j \in 1..n : i < j => <<f[i], f[j]>> \in before
    BY DEF IsArrangement
  <1>3. \A i, j \in 1..n : f[i] = f[j] => i = j
    <2> SUFFICES ASSUME NEW i \in 1..n, NEW j \in 1..n, f[i] = f[j], i # j PROVE FALSE
      OBVIOUS
    <2>1. i < j \/ j < i
      BY <1>1
    <2>2. f[i] \in S /\ (<<f[i], f[j]>> \in before \/ <<f[j], f[i]>> \in before)
      BY <1>2, <2>1
    <2> QED
      BY <2>2 DEF StrictTotal
  <1>4. f \in Injection(1..n, S)
    BY <1>2, <1>3 DEF Injection, IsInjective
  <1>5. f \in Surjection(1..n, S)
    BY <1>1, <1>4, FS_Injection
  <1>6. \A x \in S : \E k \in 1..n : f[k] = x
    BY <1>5 DEF Surjection
  <1>7. ASSUME NEW k \in 1..n PROVE Cardinality(Before(S, before, f[k])) = k - 1
    <2> DEFINE h == [i \in 1..(k - 1) |-> f[i]]
    <2>1. k \in Nat /\ k - 1 \in Nat /\ \A i \in 1..(k - 1) : i \in 1..n /\ i < k
      BY <1>1
    <2>2. \A i \in 1..(k - 1) : f[i] \in Before(S, before, f[k])
      BY <1>2, <2>1 DEF Before
    <2>3. \A y \in Before(S, before, f[k]) : \E i \in 1..(k - 1) : f[i] = y
      <3> SUFFICES ASSUME NEW y \in S, <<y, f[k]>> \in before
                   PROVE  \E i \in 1..(k - 1) : f[i] = y
        BY DEF Before
      <3>1. PICK i \in 1..n : f[i] = y
        BY <1>6
      <3>2. ~(k < i)
        <4> SUFFICES ASSUME k < i PROVE FALSE
          OBVIOUS
        <4>1. <<f[k], f[i]>> \in before /\ <<f[i], f[k]>> \in before /\ f[k] \in S /\ f[i] \in S
          BY <1>2, <3>1
        <4>2. <<f[k], f[k]>> \in before
          BY <4>1 DEF StrictTotal
        <4> QED
          BY <4>1, <4>2 DEF StrictTotal
      <3>3. i # k
        <4>1. f[k] \in S
          BY <1>2
        <4> QED
          BY <3>1, <4>1 DEF StrictTotal
      <3>4. i \in 1..(k - 1)
        BY <1>1, <3>2, <3>3
      <3> QED
        BY <3>1, <3>4
    <2>4. h \in [1..(k - 1) -> Before(S, before, f[k])]
      BY <2>2
    <2>5. \A i, j \in 1..(k - 1) : h[i] = h[j] => i = j
      BY <1>3, <2>1
    <2>6. h \in Bijection(1..(k - 1), Before(S, before, f[k]))
      <3>1. h \in Injection(1..(k - 1), Before(S, before, f[k]))
        BY <2>4, <2>5 DEF Injection, IsInjective
      <3>2. h \in Surjection(1..(k - 1), Before(S, before, f[k]))
        BY <2>3, <2>4 DEF Surjection
      <3> QED
        BY <3>1, <3>2 DEF Bijection
    <2>7. IsFiniteSet(1..(k - 1)) /\ Cardinality(1..(k - 1)) = k - 1
      BY <2>1, FS_Interval
    <2> QED
      BY <2>6, <2>7, FS_Bijection DEF ExistsBijection
  <1> QED
    BY <1>1, <1>2, <1>6, <1>7
-----------------------------------------------------------------------------
(* Induction *)

LEMMA LeastOf ==
  ASSUME NEW T \in SUBSET Nat, T # {}
  PROVE  \E x \in T : \A y \in T : x <= y
  <1>1. PICK n \in T : TRUE
    OBVIOUS
  <1> DEFINE U == {y \in T : y <= n}
             below == {p \in U \X U : p[1] < p[2]}
             m == Cardinality(U)
  <1>2. U \in SUBSET Nat /\ n \in Nat /\ n \in U /\ \A y \in U : y <= n
    <2>1. n \in Nat /\ n <= n
      BY <1>1
    <2> QED
      BY <1>1, <2>1
  <1>3. IsFiniteSet(U)
    BY <1>2, FS_BoundedSetOfNaturals
  <1> HIDE DEF U
  <1>4. m \in Nat /\ m # 0
    BY <1>2, <1>3, FS_CardinalityType, FS_EmptySet
  <1>5. StrictTotal(U, below)
    <2>1. \A x, y \in U : <<x, y>> \in below <=> x < y
      OBVIOUS
    <2> HIDE DEF below
    <2> QED
      BY <1>2, <2>1 DEF StrictTotal
  <1>6. PICK f \in [1..m -> U] : \A i, j \in 1..m : i < j => <<f[i], f[j]>> \in below
    BY <1>3, <1>5, ArrangementExists
  <1>7. \A x \in U : \E k \in 1..m : f[k] = x
    <2> HIDE DEF below
    <2>1. IsArrangement(f, U, below)
      BY <1>6 DEF IsArrangement, m
    <2>2. \A x \in U : \E k \in 1..Cardinality(U) : f[k] = x
      BY <1>3, <1>5, <2>1, ArrangementIs
    <2> QED
      BY <2>2 DEF m
  <1>8. 1 \in 1..m /\ f[1] \in U
    BY <1>4, <1>6
  <1>9. \A y \in U : f[1] <= y
    <2> SUFFICES ASSUME NEW y \in U PROVE f[1] <= y
      OBVIOUS
    <2>1. PICK k \in 1..m : f[k] = y
      BY <1>7
    <2>2. k = 1 \/ (1 < k /\ <<f[1], f[k]>> \in below)
      <3> HIDE DEF m, below
      <3> QED
        BY <1>4, <1>6, <1>8
    <2>3. f[1] \in Nat /\ f[k] \in Nat /\ (k = 1 \/ f[1] < f[k])
      BY <1>2, <1>8, <2>1, <2>2
    <2> QED
      BY <2>1, <2>3
  <1>10. f[1] \in T /\ \A y \in T : f[1] <= y
    BY <1>1, <1>2, <1>8, <1>9 DEF U
  <1> QED
    BY <1>10

LEMMA Induction ==
  ASSUME NEW S, 0 \in S, \A n \in Nat : n \in S => n + 1 \in S
  PROVE  \A n \in Nat : n \in S
  <1> DEFINE T == Nat \ S
  <1> SUFFICES ASSUME T # {} PROVE FALSE
    OBVIOUS
  <1>1. PICK x \in T : \A y \in T : x <= y
    BY LeastOf
  <1>2. x - 1 \in Nat /\ x - 1 \notin T
    BY <1>1
  <1> QED
    BY <1>1, <1>2

-----------------------------------------------------------------------------
(* FlattenSeq: the recursive function it is made with exists, and each of the  *)
(* sequences is in its place of the result.                                    *)

LEMMA FlattenExists ==
  ASSUME NEW ss, NEW m \in Nat
  PROVE  \E g : g = [i \in 1..m |-> IF i = 1 THEN ss[i] ELSE g[i - 1] \o ss[i]]
  <1> DEFINE Unfolds(n, g) == g = [i \in 1..n |-> IF i = 1 THEN ss[i] ELSE g[i - 1] \o ss[i]]
             S == {n \in Nat : \E g : Unfolds(n, g)}
  <1>1. 0 \in S
    <2>1. Unfolds(0, <<>>)
      OBVIOUS
    <2> QED
      BY <2>1
  <1>2. ASSUME NEW n \in Nat, n \in S PROVE n + 1 \in S
    <2>1. PICK g : Unfolds(n, g)
      BY <1>2
    <2> DEFINE h == [i \in 1..(n + 1) |-> IF i <= n THEN g[i] ELSE IF i = 1 THEN ss[i] ELSE g[i - 1] \o ss[i]]
    <2>2. \A i \in 1..n : g[i] = IF i = 1 THEN ss[i] ELSE g[i - 1] \o ss[i]
      BY <2>1, Zenon
    <2>3. \A i \in 1..(n + 1) : i # 1 => i - 1 \in 1..n /\ i - 1 \in 1..(n + 1) /\ i - 1 <= n
      OBVIOUS
    <2>4. \A i \in 1..(n + 1) : h[i] = IF i = 1 THEN ss[i] ELSE h[i - 1] \o ss[i]
      BY <2>2, <2>3
    <2>5. Unfolds(n + 1, h)
      BY <2>4
    <2> HIDE DEF Unfolds, h
    <2> QED
      BY <2>5
  <1> HIDE DEF Unfolds
  <1>3. m \in S
    BY <1>1, <1>2, Induction
  <1> QED
    BY <1>3 DEF Unfolds

LEMMA FlattenIs ==
  ASSUME NEW ss, Len(ss) \in Nat \ {0}
  PROVE  \E g : /\ g = [i \in 1..Len(ss) |-> IF i = 1 THEN ss[i] ELSE g[i - 1] \o ss[i]]
                /\ FlattenSeq(ss) = g[Len(ss)]
  <1> DEFINE g == CHOOSE g : g = [i \in 1..Len(ss) |-> IF i = 1 THEN ss[i] ELSE g[i - 1] \o ss[i]]
  <1>1. g = [i \in 1..Len(ss) |-> IF i = 1 THEN ss[i] ELSE g[i - 1] \o ss[i]]
    BY FlattenExists, Zenon
  <1>2. FlattenSeq(ss) = g[Len(ss)]
    BY DEF FlattenSeq
  <1> QED
    BY <1>1, <1>2

(* Where each sequence begins, and that it is there. *)
Blocks(o, n, ss) ==
    /\ o \in [1..(n + 1) -> Nat] /\ o[1] = 0
    /\ \A k \in 1..n : o[k + 1] = o[k] + Len(ss[k])
InPlace(f, o, n, ss) ==
    /\ Len(f) = o[n + 1]
    /\ \A k \in 1..n : \A i \in 1..Len(ss[k]) : o[k] + i \in 1..Len(f) /\ f[o[k] + i] = ss[k][i]

LEMMA AnotherBlock ==
  ASSUME NEW S, NEW ss, NEW n \in Nat, ss[n + 1] \in Seq(S), \A k \in 1..n : Len(ss[k]) \in Nat,
         NEW f \in Seq(S), NEW o, Blocks(o, n, ss), InPlace(f, o, n, ss)
  PROVE  \E p : Blocks(p, n + 1, ss) /\ InPlace(f \o ss[n + 1], p, n + 1, ss)
  <1> DEFINE p == [k \in 1..(n + 2) |-> IF k <= n + 1 THEN o[k] ELSE o[n + 1] + Len(ss[n + 1])]
             h == f \o ss[n + 1]
             m == Len(ss[n + 1])
  <1>1. m \in Nat /\ Len(f) \in Nat /\ Len(f) = o[n + 1] /\ o[n + 1] \in Nat
    BY LenProperties DEF Blocks, InPlace
  <1>2. /\ Len(h) = Len(f) + m
        /\ \A i \in 1..(Len(f) + m) : h[i] = IF i <= Len(f) THEN f[i] ELSE ss[n + 1][i - Len(f)]
    BY ConcatProperties
  <1> HIDE DEF h, m
  <1>3. /\ \A k \in 1..(n + 1) : p[k] = o[k] /\ o[k] \in Nat
        /\ p[n + 2] = o[n + 1] + m
    BY DEF Blocks, m
  <1>4. Blocks(p, n + 1, ss)
    <2>1. p \in [1..(n + 2) -> Nat] /\ (n + 1) + 1 = n + 2
      <3>1. \A k \in 1..(n + 2) : k \in 1..(n + 1) \/ k = n + 2
        OBVIOUS
      <3>2. DOMAIN p = 1..(n + 2) /\ p = [k \in 1..(n + 2) |-> p[k]]
        BY DEF p
      <3> HIDE DEF p
      <3>3. \A k \in 1..(n + 2) : p[k] \in Nat
        BY <1>1, <1>3, <3>1
      <3> QED
        BY <3>2, <3>3
    <2>2. p[1] = 0
      BY <1>3 DEF Blocks
    <2>3. ASSUME NEW k \in 1..(n + 1) PROVE p[k + 1] = p[k] + Len(ss[k])
      <3>1. CASE k = n + 1
        BY <1>3, <3>1 DEF m
      <3>2. CASE k \in 1..n
        BY <1>3, <3>2 DEF Blocks
      <3> QED
        BY <3>1, <3>2
    <2> HIDE DEF p
    <2> QED
      BY <2>1, <2>2, <2>3 DEF Blocks
  <1> HIDE DEF p
  <1>5. ASSUME NEW k \in 1..(n + 1), NEW i \in 1..Len(ss[k])
        PROVE  p[k] + i \in 1..Len(h) /\ h[p[k] + i] = ss[k][i]
    <2>1. CASE k = n + 1
      <3>1. p[k] + i = Len(f) + i /\ i \in 1..m
        BY <1>1, <1>3, <2>1 DEF m
      <3>2. p[k] + i \in 1..(Len(f) + m) /\ ~(p[k] + i <= Len(f)) /\ (p[k] + i) - Len(f) = i
        BY <1>1, <3>1
      <3> QED
        BY <1>2, <2>1, <3>2
    <2>2. CASE k \in 1..n
      <3> DEFINE j == o[k] + i
      <3>1. j \in 1..Len(f) /\ f[j] = ss[k][i] /\ p[k] + i = j
        BY <1>3, <2>2 DEF InPlace
      <3> HIDE DEF j
      <3>2. j \in 1..(Len(f) + m) /\ j <= Len(f)
        BY <1>1, <3>1
      <3>3. h[j] = f[j]
        BY <1>2, <3>2
      <3> QED
        BY <1>2, <3>1, <3>2, <3>3
    <2> QED
      BY <2>1, <2>2
  <1>6. InPlace(h, p, n + 1, ss)
    <2>1. Len(h) = p[(n + 1) + 1]
      BY <1>1, <1>2, <1>3
    <2> QED
      BY <1>5, <2>1 DEF InPlace
  <1> QED
    BY <1>4, <1>6 DEF h

LEMMA FlattenProperties ==
  ASSUME NEW S, NEW ss \in Seq(Seq(S))
  PROVE  /\ FlattenSeq(ss) \in Seq(S)
         /\ \E o : Blocks(o, Len(ss), ss) /\ InPlace(FlattenSeq(ss), o, Len(ss), ss)
  <1> DEFINE n == Len(ss)
  <1>1. n \in Nat /\ \A k \in 1..n : ss[k] \in Seq(S) /\ Len(ss[k]) \in Nat
    BY LenProperties, ElementOfSeq
  <1>2. CASE n = 0
    <2>1. ss = <<>> /\ FlattenSeq(ss) = ss
      BY <1>2, EmptySeq DEF FlattenSeq
    <2>2. Blocks([k \in 1..1 |-> 0], 0, ss) /\ InPlace(ss, [k \in 1..1 |-> 0], 0, ss)
      BY <1>2 DEF Blocks, InPlace
    <2> QED
      BY <1>2, <2>1, <2>2, EmptySeq
  <1>3. CASE n # 0
    <2> DEFINE Right(f, k) == f \in Seq(S) /\ \E o : Blocks(o, k, ss) /\ InPlace(f, o, k, ss)
    <2>1. PICK g : /\ g = [i \in 1..n |-> IF i = 1 THEN ss[i] ELSE g[i - 1] \o ss[i]]
                   /\ FlattenSeq(ss) = g[n]
      BY <1>1, <1>3, FlattenIs
    <2>2. \A i \in 1..n : g[i] = IF i = 1 THEN ss[i] ELSE g[i - 1] \o ss[i]
      BY <2>1, Zenon
    <2>3. Right(<<>>, 0)
      <3>1. Blocks([k \in 1..1 |-> 0], 0, ss) /\ InPlace(<<>>, [k \in 1..1 |-> 0], 0, ss)
        BY EmptySeq DEF Blocks, InPlace
      <3> QED
        BY <3>1, EmptySeq
    <2>4. ASSUME NEW k \in Nat, k + 1 <= n, NEW f, Right(f, k) PROVE Right(f \o ss[k + 1], k + 1)
      <3>1. ss[k + 1] \in Seq(S) /\ (\A j \in 1..k : Len(ss[j]) \in Nat)
        BY <1>1, <2>4
      <3>2. PICK o : Blocks(o, k, ss) /\ InPlace(f, o, k, ss)
        BY <2>4
      <3>3. \E p : Blocks(p, k + 1, ss) /\ InPlace(f \o ss[k + 1], p, k + 1, ss)
        BY <2>4, <3>1, <3>2, AnotherBlock
      <3> QED
        BY <2>4, <3>1, <3>3, ConcatProperties
    <2>5. \A k \in Nat : k \in {j \in Nat : j \in 1..n => Right(g[j], j)}
      <3> DEFINE T == {j \in Nat : j \in 1..n => Right(g[j], j)}
      <3> HIDE DEF Right
      <3>1. 0 \in T
        OBVIOUS
      <3>2. ASSUME NEW k \in Nat, k \in T PROVE k + 1 \in T
        <4>1. CASE k = 0
          <5>1. ss[1] \in Seq(S) /\ 1 \in 1..n
            BY <1>1, <1>3
          <5>2. g[1] = <<>> \o ss[1]
            BY <2>2, <5>1, ConcatEmptySeq
          <5>3. 0 \in Nat /\ 0 + 1 <= n
            BY <1>1, <1>3
          <5>4. Right(<<>> \o ss[0 + 1], 0 + 1)
            BY <2>3, <2>4, <5>3, Zenon
          <5> QED
            BY <4>1, <5>2, <5>4
        <4>2. CASE k # 0 /\ k + 1 <= n
          <5>1. Right(g[k], k) /\ k + 1 \in 1..n /\ k + 1 # 1 /\ (k + 1) - 1 = k
            BY <1>1, <3>2, <4>2
          <5>2. g[k + 1] = g[k] \o ss[k + 1]
            BY <2>2, <5>1
          <5>3. Right(g[k] \o ss[k + 1], k + 1)
            BY <2>4, <4>2, <5>1, Zenon
          <5>4. Right(g[k + 1], k + 1)
            BY <5>2, <5>3, Zenon
          <5> QED
            BY <5>4
        <4>3. CASE ~(k + 1 <= n)
          BY <1>1, <4>3
        <4> QED
          BY <4>1, <4>2, <4>3
      <3> HIDE DEF T
      <3> QED
        BY <3>1, <3>2, Induction DEF T
    <2>6. Right(g[n], n)
      BY <1>1, <1>3, <2>5
    <2> QED
      BY <2>1, <2>6
  <1> QED
    BY <1>2, <1>3

-----------------------------------------------------------------------------
(* The order of a set *)

Enumerates(f, n, S, before) ==
    /\ n \in Nat /\ f \in [1..n -> S]
    /\ \A i, j \in 1..n : i < j => <<f[i], f[j]>> \in before
    /\ \A x \in S : \E k \in 1..n : f[k] = x

LEMMA OrderedIs ==
  ASSUME NEW S, NEW before, StrictTotal(S, before), NEW n, NEW f, Enumerates(f, n, S, before)
  PROVE  IsFiniteSet(S) /\ Cardinality(S) = n /\ Ordered(S, before) = f
  <1>0. /\ n \in Nat /\ f \in [1..n -> S]
        /\ \A i, j \in 1..n : i < j => <<f[i], f[j]>> \in before
        /\ \A x \in S : \E k \in 1..n : f[k] = x
    BY DEF Enumerates
  <1>1. IsFiniteSet(1..n) /\ Cardinality(1..n) = n
    BY <1>0, FS_Interval
  <1>2. \A i, j \in 1..n : f[i] = f[j] => i = j
    <2> SUFFICES ASSUME NEW i \in 1..n, NEW j \in 1..n, f[i] = f[j], i # j PROVE FALSE
      OBVIOUS
    <2>1. i < j \/ j < i
      BY <1>0
    <2>2. f[i] \in S /\ (<<f[i], f[j]>> \in before \/ <<f[j], f[i]>> \in before)
      BY <1>0, <2>1
    <2> QED
      BY <2>2 DEF StrictTotal
  <1>3. f \in Bijection(1..n, S)
    <2>1. f \in Injection(1..n, S)
      BY <1>0, <1>2 DEF Injection, IsInjective
    <2>2. f \in Surjection(1..n, S)
      BY <1>0 DEF Surjection
    <2> QED
      BY <2>1, <2>2 DEF Bijection
  <1>4. IsFiniteSet(S) /\ Cardinality(S) = n
    BY <1>1, <1>3, FS_Bijection DEF ExistsBijection
  <1>5. IsArrangement(f, S, before)
    BY <1>0, <1>4 DEF IsArrangement
  <1>6. \A k \in 1..n : Cardinality({y \in S : <<y, f[k]>> \in before}) = k - 1
    <2>1. \A k \in 1..n : Cardinality(Before(S, before, f[k])) = k - 1
      BY <1>4, <1>5, ArrangementIs
    <2> QED
      BY <2>1 DEF Before
  <1> DEFINE ahead(x) == Cardinality({y \in S : <<y, x>> \in before})
  <1>7. ASSUME NEW k \in 1..n PROVE (CHOOSE x \in S : ahead(x) = k - 1) = f[k]
    <2>0. ahead(f[k]) = k - 1
      BY <1>6
    <2> HIDE DEF ahead
    <2>1. \A x \in S : ahead(x) = k - 1 => x = f[k]
      <3> SUFFICES ASSUME NEW x \in S, ahead(x) = k - 1 PROVE x = f[k]
        OBVIOUS
      <3>1. PICK j \in 1..n : f[j] = x
        BY <1>0
      <3>2. ahead(x) = j - 1
        BY <1>6, <3>1 DEF ahead
      <3>3. j = k
        BY <1>0, <3>2
      <3> QED
        BY <3>1, <3>3
    <2>2. f[k] \in S /\ ahead(f[k]) = k - 1
      BY <1>0, <2>0
    <2> QED
      BY <2>1, <2>2
  <1> HIDE DEF ahead
  <1>8. [k \in 1..n |-> CHOOSE x \in S : ahead(x) = k - 1] = f
    BY <1>0, <1>7
  <1> QED
    BY <1>4, <1>8 DEF Ordered, ahead

LEMMA OrderedProperties ==
  ASSUME NEW S, IsFiniteSet(S), NEW before, StrictTotal(S, before)
  PROVE  Enumerates(Ordered(S, before), Cardinality(S), S, before)
  <1> DEFINE n == Cardinality(S)
  <1>1. n \in Nat
    BY FS_CardinalityType
  <1>2. PICK f \in [1..n -> S] : \A i, j \in 1..n : i < j => <<f[i], f[j]>> \in before
    BY ArrangementExists
  <1>3. IsArrangement(f, S, before)
    BY <1>2 DEF IsArrangement
  <1>4. \A x \in S : \E k \in 1..n : f[k] = x
    BY <1>3, ArrangementIs
  <1>5. Enumerates(f, n, S, before)
    BY <1>1, <1>2, <1>4 DEF Enumerates
  <1> QED
    BY <1>5, OrderedIs

-----------------------------------------------------------------------------
(* The standings of a file *)

Lines == [player : Nat, score : Int]

LEMMA AheadIsTotal ==
  ASSUME NEW rows \in Seq(Lines)
  PROVE  StrictTotal(LastRows(rows), Ahead(rows)) /\ LastRows(rows) \subseteq 1..Len(rows)
  <1>1. DOMAIN rows = 1..Len(rows) /\ Len(rows) \in Nat /\ \A i \in 1..Len(rows) : rows[i].score \in Int
    <2>1. DOMAIN rows = 1..Len(rows) /\ Len(rows) \in Nat
      BY LenProperties
    <2>2. \A i \in 1..Len(rows) : rows[i] \in Lines
      BY ElementOfSeq
    <2> QED
      BY <2>1, <2>2 DEF Lines
  <1> DEFINE D == 1..Len(rows)
             s == [i \in D |-> rows[i].score]
  <1>2. \A i, j \in D : <<i, j>> \in Ahead(rows) <=> s[i] > s[j] \/ (s[i] = s[j] /\ i < j)
    BY <1>1 DEF Ahead
  <1>3. (\A i \in D : s[i] \in Int) /\ D \subseteq Int
    BY <1>1
  <1>4. LastRows(rows) \subseteq D
    BY <1>1 DEF LastRows
  <1> HIDE DEF s, D
  <1>5. StrictTotal(D, Ahead(rows))
    <2>1. \A x \in D : <<x, x>> \notin Ahead(rows)
      BY <1>2, <1>3
    <2>2. \A x, y, z \in D : <<x, y>> \in Ahead(rows) /\ <<y, z>> \in Ahead(rows) => <<x, z>> \in Ahead(rows)
      BY <1>2, <1>3
    <2>3. ASSUME NEW x \in D, NEW y \in D
          PROVE  x = y \/ <<x, y>> \in Ahead(rows) \/ <<y, x>> \in Ahead(rows)
      <3>1. x \in Int /\ y \in Int /\ s[x] \in Int /\ s[y] \in Int
        BY <1>3
      <3>2. x = y \/ s[x] > s[y] \/ s[y] > s[x] \/ (s[x] = s[y] /\ (x < y \/ y < x))
        BY <3>1
      <3> QED
        BY <1>2, <3>2
    <2> QED
      BY <2>1, <2>2, <2>3 DEF StrictTotal
  <1>6. StrictTotal(LastRows(rows), Ahead(rows))
    BY <1>4, <1>5 DEF StrictTotal
  <1> QED
    BY <1>4, <1>6 DEF D

LEMMA StandingsAre ==
  ASSUME NEW rows \in Seq(Lines), NEW n, NEW f, Enumerates(f, n, LastRows(rows), Ahead(rows))
  PROVE  Standings(rows) = [k \in 1..n |-> [rank |-> k, player |-> rows[f[k]].player, score |-> rows[f[k]].score]]
  <1>1. Ordered(LastRows(rows), Ahead(rows)) = f
    BY AheadIsTotal, OrderedIs
  <1>2. DOMAIN f = 1..n
    BY DEF Enumerates
  <1> QED
    BY <1>1, <1>2 DEF Standings

(* A file of n lines, one of each player, whose scores rise by the player,     *)
(* or fall, and one that has each player twice.                                *)
Rising(n, a) == Rows([p \in 1..n |-> a + p])
Falling(n, a) == Rows([p \in 1..n |-> a - p])
Twice(n) == [i \in 1..(2 * n) |-> Line((i + 1) \div 2, IF i % 2 = 1 THEN 1 ELSE 1000)]

LEMMA RisingStandings ==
  ASSUME NEW n \in Nat, NEW a \in Nat
  PROVE  /\ Rising(n, a) \in Seq(Lines) /\ Len(Rising(n, a)) = n /\ DOMAIN Rising(n, a) = 1..n
         /\ \A i \in 1..n : Rising(n, a)[i].player = i /\ Rising(n, a)[i].score = a + i
         /\ LastRows(Rising(n, a)) = 1..n
         /\ Standings(Rising(n, a)) =
               [k \in 1..n |-> [rank |-> k, player |-> n + 1 - k, score |-> a + (n + 1 - k)]]
  <1> DEFINE R == Rising(n, a)
  <1>1. R = [p \in 1..n |-> [player |-> p, score |-> a + p]]
    BY DEF Rising, Rows, Line
  <1>2. R \in [1..n -> Lines]
    <2>1. \A p \in 1..n : [player |-> p, score |-> a + p] \in Lines
      BY DEF Lines
    <2> QED
      BY <1>1, <2>1
  <1>3. R \in Seq(Lines) /\ Len(R) = n /\ DOMAIN R = 1..n
    BY <1>2, SeqDef, LenProperties
  <1>4. \A i \in 1..n : R[i].player = i /\ R[i].score = a + i
    BY <1>1
  <1> HIDE DEF R
  <1>5. LastRows(R) = 1..n
    BY <1>3, <1>4 DEF LastRows
  <1> DEFINE f == [k \in 1..n |-> n + 1 - k]
  <1>6. Enumerates(f, n, LastRows(R), Ahead(R))
    <2>1. f \in [1..n -> 1..n]
      OBVIOUS
    <2>2. ASSUME NEW i \in 1..n, NEW j \in 1..n, i < j
          PROVE  <<f[i], f[j]>> \in Ahead(R)
      <3>1. f[i] \in 1..n /\ f[j] \in 1..n /\ f[i] > f[j]
        BY <2>2
      <3> HIDE DEF f
      <3>2. R[f[i]].score > R[f[j]].score
        BY <1>4, <3>1
      <3> QED
        BY <1>3, <3>1, <3>2 DEF Ahead
    <2>3. \A x \in 1..n : n + 1 - x \in 1..n /\ f[n + 1 - x] = x
      OBVIOUS
    <2> HIDE DEF f
    <2> QED
      BY <1>5, <2>1, <2>2, <2>3 DEF Enumerates
  <1>7. Standings(R) = [k \in 1..n |-> [rank |-> k, player |-> R[f[k]].player, score |-> R[f[k]].score]]
    BY <1>3, <1>6, StandingsAre
  <1>8. \A k \in 1..n : f[k] = n + 1 - k /\ R[f[k]].player = n + 1 - k /\ R[f[k]].score = a + (n + 1 - k)
    BY <1>4
  <1> HIDE DEF f
  <1>9. [k \in 1..n |-> [rank |-> k, player |-> R[f[k]].player, score |-> R[f[k]].score]]
          = [k \in 1..n |-> [rank |-> k, player |-> n + 1 - k, score |-> a + (n + 1 - k)]]
    BY <1>8
  <1> QED
    BY <1>3, <1>4, <1>5, <1>7, <1>9 DEF R

LEMMA FallingStandings ==
  ASSUME NEW n \in Nat, NEW a \in Nat
  PROVE  /\ Falling(n, a) \in Seq(Lines) /\ Len(Falling(n, a)) = n /\ DOMAIN Falling(n, a) = 1..n
         /\ \A i \in 1..n : Falling(n, a)[i].player = i /\ Falling(n, a)[i].score = a - i
         /\ LastRows(Falling(n, a)) = 1..n
         /\ Standings(Falling(n, a)) = [k \in 1..n |-> [rank |-> k, player |-> k, score |-> a - k]]
  <1> DEFINE R == Falling(n, a)
  <1>1. R = [p \in 1..n |-> [player |-> p, score |-> a - p]]
    BY DEF Falling, Rows, Line
  <1>2. R \in [1..n -> Lines]
    <2>1. \A p \in 1..n : [player |-> p, score |-> a - p] \in Lines
      BY DEF Lines
    <2> QED
      BY <1>1, <2>1
  <1>3. R \in Seq(Lines) /\ Len(R) = n /\ DOMAIN R = 1..n
    BY <1>2, SeqDef, LenProperties
  <1>4. \A i \in 1..n : R[i].player = i /\ R[i].score = a - i
    BY <1>1
  <1> HIDE DEF R
  <1>5. LastRows(R) = 1..n
    BY <1>3, <1>4 DEF LastRows
  <1> DEFINE f == [k \in 1..n |-> k]
  <1>6. Enumerates(f, n, LastRows(R), Ahead(R))
    <2>1. f \in [1..n -> 1..n]
      OBVIOUS
    <2>2. ASSUME NEW i \in 1..n, NEW j \in 1..n, i < j
          PROVE  <<f[i], f[j]>> \in Ahead(R)
      <3>1. f[i] \in 1..n /\ f[j] \in 1..n /\ f[i] < f[j]
        BY <2>2
      <3> HIDE DEF f
      <3>2. R[f[i]].score > R[f[j]].score
        BY <1>4, <3>1
      <3> QED
        BY <1>3, <3>1, <3>2 DEF Ahead
    <2>3. \A x \in 1..n : f[x] = x
      OBVIOUS
    <2> HIDE DEF f
    <2> QED
      BY <1>5, <2>1, <2>2, <2>3 DEF Enumerates
  <1>7. Standings(R) = [k \in 1..n |-> [rank |-> k, player |-> R[f[k]].player, score |-> R[f[k]].score]]
    BY <1>3, <1>6, StandingsAre
  <1>8. \A k \in 1..n : f[k] = k /\ R[f[k]].player = k /\ R[f[k]].score = a - k
    BY <1>4
  <1> HIDE DEF f
  <1>9. [k \in 1..n |-> [rank |-> k, player |-> R[f[k]].player, score |-> R[f[k]].score]]
          = [k \in 1..n |-> [rank |-> k, player |-> k, score |-> a - k]]
    BY <1>8
  <1> QED
    BY <1>3, <1>4, <1>5, <1>7, <1>9 DEF R

LEMMA TwiceStandings ==
  ASSUME NEW n \in Nat
  PROVE  /\ Twice(n) \in Seq(Lines) /\ Len(Twice(n)) = 2 * n /\ DOMAIN Twice(n) = 1..(2 * n)
         /\ \A i \in 1..(2 * n) : Twice(n)[i].player \in 1..n
         /\ Standings(Twice(n)) = [k \in 1..n |-> [rank |-> k, player |-> k, score |-> 1000]]
  <1> DEFINE R == Twice(n)
             m == 2 * n
  <1>0. m \in Nat
    OBVIOUS
  <1>1. R = [i \in 1..m |-> [player |-> (i + 1) \div 2, score |-> IF i % 2 = 1 THEN 1 ELSE 1000]]
    BY DEF Twice, Line
  <1>2. \A i \in 1..m : (i + 1) \div 2 \in 1..n /\ (IF i % 2 = 1 THEN 1 ELSE 1000) \in Int
    OBVIOUS
  <1> HIDE DEF m
  <1>3. R \in [1..m -> Lines]
    <2>1. \A i \in 1..m : [player |-> (i + 1) \div 2, score |-> IF i % 2 = 1 THEN 1 ELSE 1000] \in Lines
      BY <1>2 DEF Lines
    <2> HIDE DEF R
    <2> QED
      BY <1>1, <2>1
  <1>4. R \in Seq(Lines) /\ Len(R) = m /\ DOMAIN R = 1..m
    BY <1>0, <1>3, SeqDef, LenProperties
  <1>5. \A i \in 1..m : R[i].player = (i + 1) \div 2 /\ (i % 2 = 0 => R[i].score = 1000)
    <2> HIDE DEF R
    <2>1. \A i \in 1..m : R[i].player = (i + 1) \div 2 /\ R[i].score = IF i % 2 = 1 THEN 1 ELSE 1000
      BY <1>1
    <2> QED
      BY <2>1
  <1> HIDE DEF R
  <1> DEFINE f == [k \in 1..n |-> 2 * k]
  <1>6. \A k \in 1..n : f[k] = 2 * k /\ 2 * k \in 1..m /\ R[2 * k].player = k /\ R[2 * k].score = 1000
    <2>1. \A k \in 1..n : 2 * k \in 1..m /\ (2 * k) % 2 = 0 /\ (2 * k + 1) \div 2 = k
      BY DEF m
    <2> QED
      BY <1>5, <2>1
  <1>7. LastRows(R) = {2 * k : k \in 1..n}
    <2>1. \A i \in 1..m : i \in LastRows(R) <=>
             \A j \in 1..m : (j + 1) \div 2 = (i + 1) \div 2 => j <= i
      <3> DEFINE half == [i \in 1..m |-> (i + 1) \div 2]
      <3>1. \A i \in 1..m : R[i].player = half[i]
        BY <1>5
      <3> HIDE DEF half
      <3>2. \A i \in 1..m : i \in LastRows(R) <=> \A j \in 1..m : half[j] = half[i] => j <= i
        BY <1>4, <3>1 DEF LastRows
      <3> QED
        BY <3>2 DEF half
    <2>2. ASSUME NEW i \in 1..m, i \in LastRows(R) PROVE \E k \in 1..n : i = 2 * k
      <3>1. CASE i % 2 = 1
        <4>1. i + 1 \in 1..m /\ (i + 1 + 1) \div 2 = (i + 1) \div 2
          BY <3>1 DEF m
        <4> QED
          BY <2>1, <2>2, <4>1
      <3>2. CASE i % 2 = 0
        <4>1. i \div 2 \in 1..n /\ i = 2 * (i \div 2)
          BY <3>2 DEF m
        <4> QED
          BY <4>1
      <3> QED
        BY <3>1, <3>2
    <2>3. ASSUME NEW k \in 1..n PROVE 2 * k \in LastRows(R)
      <3>1. 2 * k \in 1..m /\ \A j \in 1..m : (j + 1) \div 2 = (2 * k + 1) \div 2 => j <= 2 * k
        BY DEF m
      <3> QED
        BY <2>1, <3>1
    <2>4. LastRows(R) \subseteq 1..m
      BY <1>4, AheadIsTotal
    <2> QED
      BY <2>2, <2>3, <2>4
  <1>8. Enumerates(f, n, LastRows(R), Ahead(R))
    <2>1. f \in [1..n -> LastRows(R)]
      BY <1>7
    <2>2. ASSUME NEW i \in 1..n, NEW j \in 1..n, i < j
          PROVE  <<f[i], f[j]>> \in Ahead(R)
      <3>1. f[i] = 2 * i /\ f[j] = 2 * j /\ 2 * i \in 1..m /\ 2 * j \in 1..m /\ 2 * i < 2 * j
            /\ R[2 * i].score = 1000 /\ R[2 * j].score = 1000
        BY <1>6, <2>2
      <3> HIDE DEF f
      <3> QED
        BY <1>4, <3>1 DEF Ahead
    <2>3. \A x \in LastRows(R) : \E k \in 1..n : f[k] = x
      BY <1>6, <1>7
    <2> HIDE DEF f
    <2> QED
      BY <2>1, <2>2, <2>3 DEF Enumerates
  <1>9. Standings(R) = [k \in 1..n |-> [rank |-> k, player |-> R[f[k]].player, score |-> R[f[k]].score]]
    BY <1>4, <1>8, StandingsAre
  <1>10. [k \in 1..n |-> [rank |-> k, player |-> R[f[k]].player, score |-> R[f[k]].score]]
          = [k \in 1..n |-> [rank |-> k, player |-> k, score |-> 1000]]
    <2> HIDE DEF f
    <2> QED
      BY <1>6
  <1>11. \A i \in 1..m : R[i].player \in 1..n
    BY <1>2, <1>5
  <1> QED
    BY <1>4, <1>9, <1>10, <1>11 DEF R, m

-----------------------------------------------------------------------------
(* The tables of a tenant, written out; its last competition is the one that   *)
(* the requests of a check are about.                                          *)

Comp(finished, rows, visitors, late) ==
    [finished |-> finished, rows |-> rows, visitors |-> visitors, late |-> late]
Holding(players, disqualified, competitions) ==
    [file |-> TRUE, players |-> players, disqualified |-> disqualified, competitions |-> competitions]

CompetitionSet == CompetitionsOf(Lines, Nat)
TenantSet == TenantsOf(Lines, Nat)

LEMMA CompIs ==
  ASSUME NEW f \in BOOLEAN, NEW rows \in Seq(Lines), NEW V \in SUBSET Nat, NEW L \in SUBSET Nat
  PROVE  Comp(f, rows, V, L) \in CompetitionSet
  BY DEF Comp, CompetitionSet, CompetitionsOf

LEMMA NewCompetitionIs == NewCompetition = Comp(FALSE, <<>>, {}, {}) /\ NewCompetition \in CompetitionSet
  BY EmptySeq DEF NewCompetition, Comp, CompetitionSet, CompetitionsOf

LEMMA HoldingIs ==
  ASSUME NEW n \in Nat, NEW D \in SUBSET Nat, NEW cs \in Seq(CompetitionSet)
  PROVE  Holding(n, D, cs) \in TenantSet
  BY DEF Holding, TenantSet, TenantsOf, CompetitionSet

LEMMA HoldingFields ==
  ASSUME NEW n, NEW D, NEW cs
  PROVE  /\ Holding(n, D, cs).players = n /\ Holding(n, D, cs).disqualified = D
         /\ Holding(n, D, cs).competitions = cs /\ Player(Holding(n, D, cs)) = 1..n
  BY DEF Holding, Player

LEMMA HoldingHas ==
  ASSUME NEW n, NEW D, NEW cs, NEW c
  PROVE  Has(Holding(n, D, cs), c) <=> c \in DOMAIN cs
  BY HoldingFields DEF Has

(* (The file's TRUE stands for itself in the step that compares records.)      *)
LEMMA HoldingExcept ==
  ASSUME NEW n, NEW D, NEW cs, NEW new
  PROVE  /\ [Holding(n, D, cs) EXCEPT !.competitions = new] = Holding(n, D, new)
         /\ [Holding(n, D, cs) EXCEPT !.players = new] = Holding(new, D, cs)
         /\ [Holding(n, D, cs) EXCEPT !.disqualified = new] = Holding(n, new, cs)
  <1> DEFINE is == TRUE
             h(m, E, ds) == [file |-> is, players |-> m, disqualified |-> E, competitions |-> ds]
  <1> HIDE DEF is
  <1>1. [h(n, D, cs) EXCEPT !.competitions = new] = h(n, D, new)
    OBVIOUS
  <1>2. [h(n, D, cs) EXCEPT !.players = new] = h(new, D, cs)
    OBVIOUS
  <1>3. [h(n, D, cs) EXCEPT !.disqualified = new] = h(n, new, cs)
    OBVIOUS
  <1> QED
    BY <1>1, <1>2, <1>3, Zenon DEF Holding, is

LEMMA CompIsIts ==
  ASSUME NEW k \in CompetitionSet
  PROVE  k = Comp(k.finished, k.rows, k.visitors, k.late)
  BY DEF Comp, CompetitionSet, CompetitionsOf

(* A running competition, and a finished one. *)
Open(rows, visitors) == Comp(FALSE, rows, visitors, {})
Closed(rows, visitors) == Comp(TRUE, rows, visitors, {})

LEMMA OpenFields ==
  ASSUME NEW R \in Seq(Lines), NEW V \in SUBSET Nat
  PROVE  /\ Open(R, V) \in CompetitionSet /\ ~Open(R, V).finished /\ Open(R, V).rows = R
         /\ Open(R, V).visitors = V /\ Open(R, V).late = {}
  <1>1. Open(R, V) \in CompetitionSet
    BY CompIs DEF Open
  <1>2. ~Open(R, V).finished
    BY DEF Open, Comp
  <1>3. Open(R, V).rows = R /\ Open(R, V).visitors = V /\ Open(R, V).late = {}
    BY DEF Open, Comp
  <1> QED
    BY <1>1, <1>2, <1>3

LEMMA ClosedFields ==
  ASSUME NEW R \in Seq(Lines), NEW V \in SUBSET Nat
  PROVE  /\ Closed(R, V) \in CompetitionSet /\ Closed(R, V).finished /\ Closed(R, V).rows = R
         /\ Closed(R, V).visitors = V /\ Closed(R, V).late = {}
  <1>1. Closed(R, V) \in CompetitionSet
    BY CompIs DEF Closed
  <1>2. Closed(R, V).finished
    BY DEF Closed, Comp
  <1>3. Closed(R, V).rows = R /\ Closed(R, V).visitors = V /\ Closed(R, V).late = {}
    BY DEF Closed, Comp
  <1> QED
    BY <1>1, <1>2, <1>3

(* A competition is what its fields are. *)
LEMMA OpenByFields ==
  ASSUME NEW k \in CompetitionSet, ~k.finished, k.late = {}
  PROVE  k = Open(k.rows, k.visitors)
  <1>1. k.finished = FALSE
    BY DEF CompetitionSet, CompetitionsOf
  <1>2. k = Comp(k.finished, k.rows, k.visitors, k.late)
    BY CompIsIts
  <1> QED
    BY <1>1, <1>2, Zenon DEF Open

LEMMA ClosedByFields ==
  ASSUME NEW k \in CompetitionSet, k.finished, k.late = {}
  PROVE  k = Closed(k.rows, k.visitors)
  <1>1. k.finished = TRUE
    BY DEF CompetitionSet, CompetitionsOf
  <1>2. k = Comp(k.finished, k.rows, k.visitors, k.late)
    BY CompIsIts
  <1> QED
    BY <1>1, <1>2, Zenon DEF Closed

LEMMA OpenChanges ==
  ASSUME NEW R \in Seq(Lines), NEW V \in SUBSET Nat
  PROVE  /\ \A new \in Seq(Lines) : [Open(R, V) EXCEPT !.rows = new] = Open(new, V)
         /\ Finish(Open(R, V)) = Closed(R, V)
         /\ \A p \in Nat : Visit(Open(R, V), p) = Open(R, V \cup {p})
  <1> DEFINE k == Open(R, V)
  <1>1. k \in CompetitionSet /\ ~k.finished /\ k.rows = R /\ k.visitors = V /\ k.late = {}
    BY OpenFields
  <1> HIDE DEF k
  <1>2. ASSUME NEW new \in Seq(Lines) PROVE [k EXCEPT !.rows = new] = Open(new, V)
    <2> DEFINE j == [k EXCEPT !.rows = new]
    <2>1. /\ j \in CompetitionSet /\ ~j.finished /\ j.rows = new
          /\ j.visitors = V /\ j.late = {}
      BY <1>1 DEF CompetitionSet, CompetitionsOf
    <2> HIDE DEF j
    <2>2. j = Open(j.rows, j.visitors)
      BY <2>1, OpenByFields
    <2>3. j = Open(new, V)
      BY <2>1, <2>2
    <2> QED
      BY <2>3 DEF j
  <1>3. Finish(k) = Closed(R, V)
    <2>1. /\ Finish(k) \in CompetitionSet /\ Finish(k).finished /\ Finish(k).rows = R
          /\ Finish(k).visitors = V \cup {} /\ Finish(k).late = {}
      BY <1>1 DEF CompetitionSet, CompetitionsOf, Finish
    <2>2. Finish(k) = Closed(Finish(k).rows, Finish(k).visitors)
      BY <2>1, ClosedByFields
    <2>3. V \cup {} = V
      OBVIOUS
    <2> QED
      BY <2>1, <2>2, <2>3
  <1>4. ASSUME NEW p \in Nat PROVE Visit(k, p) = Open(R, V \cup {p})
    <2> DEFINE j == Visit(k, p)
    <2>1. /\ j \in CompetitionSet /\ ~j.finished /\ j.rows = R /\ j.late = {}
          /\ j.visitors = IF p \in V THEN V ELSE V \cup {p}
      BY <1>1 DEF CompetitionSet, CompetitionsOf, Visit
    <2> HIDE DEF j
    <2>2. j = Open(j.rows, j.visitors)
      BY <2>1, OpenByFields
    <2>3. p \in V => V = V \cup {p}
      OBVIOUS
    <2>4. j.visitors = V \cup {p}
      BY <2>1, <2>3
    <2>5. j = Open(R, V \cup {p})
      BY <2>1, <2>2, <2>4
    <2> QED
      BY <2>5 DEF j
  <1> QED
    BY <1>2, <1>3, <1>4 DEF k

LEMMA ClosedStays ==
  ASSUME NEW R \in Seq(Lines), NEW V \in SUBSET Nat, NEW p \in V
  PROVE  Visit(Closed(R, V), p) = Closed(R, V)
  BY ClosedFields DEF Visit

LEMMA NewIsOpen == NewCompetition = Open(<<>>, {})
  <1>1. NewCompetition \in CompetitionSet /\ ~NewCompetition.finished /\ NewCompetition.late = {}
        /\ NewCompetition.rows = <<>> /\ NewCompetition.visitors = {}
    BY NewCompetitionIs DEF NewCompetition
  <1>2. NewCompetition = Open(NewCompetition.rows, NewCompetition.visitors)
    BY <1>1, OpenByFields
  <1> QED
    BY <1>1, <1>2

LEMMA LastIs ==
  ASSUME NEW S, NEW c0 \in Seq(S), NEW k \in S
  PROVE  /\ Append(c0, k) \in Seq(S) /\ Len(Append(c0, k)) = Len(c0) + 1 /\ Len(c0) + 1 \in Nat
         /\ DOMAIN Append(c0, k) = 1..(Len(c0) + 1)
         /\ Append(c0, k)[Len(c0) + 1] = k
         /\ \A c \in 1..Len(c0) : Append(c0, k)[c] = c0[c]
         /\ Len(c0) + 1 \in DOMAIN Append(c0, k)
         /\ \A j \in S : [Append(c0, k) EXCEPT ![Len(c0) + 1] = j] = Append(c0, j)
  <1> DEFINE n == Len(c0) + 1
             cs == Append(c0, k)
  <1>1. /\ cs \in Seq(S) /\ Len(cs) = n /\ n \in Nat /\ cs[n] = k
        /\ \A c \in 1..Len(c0) : cs[c] = c0[c]
    BY AppendProperties, LenProperties
  <1>2. DOMAIN cs = 1..n /\ n \in 1..n
    BY <1>1, LenProperties
  <1>3. ASSUME NEW j \in S PROVE [cs EXCEPT ![n] = j] = Append(c0, j)
    <2> DEFINE ds == [cs EXCEPT ![n] = j]
               es == Append(c0, j)
    <2>1. /\ es \in Seq(S) /\ Len(es) = n /\ es[n] = j
          /\ \A c \in 1..Len(c0) : es[c] = c0[c]
      BY AppendProperties
    <2>2. ds \in Seq(S) /\ Len(ds) = n
      BY <1>1, <1>2, ExceptSeq
    <2> HIDE DEF es
    <2>3. \A c \in 1..n : ds[c] = es[c]
      <3>1. \A c \in 1..n : ds[c] = IF c = n THEN j ELSE cs[c]
        BY <1>2
      <3>2. \A c \in 1..n : c = n \/ c \in 1..Len(c0)
        BY <1>1, LenProperties
      <3> HIDE DEF cs, ds, n
      <3> QED
        BY <1>1, <2>1, <3>1, <3>2
    <2> HIDE DEF ds
    <2> QED
      BY <2>1, <2>2, <2>3, SeqEqual DEF ds, es
  <1> QED
    BY <1>1, <1>2, <1>3

-----------------------------------------------------------------------------
(* What each handler makes of them *)

LEMMA AddsPlayers ==
  ASSUME NEW n, NEW D, NEW cs, NEW q, q.op = "players_add"
  PROVE  Handler(Holding(n, D, cs), q) = Done(Holding(n + q.n, D, cs), (n + 1)..(n + q.n))
  <1>1. Handler(Holding(n, D, cs), q) = PlayersAdd(Holding(n, D, cs), q)
    BY DEF Handler
  <1> QED
    BY <1>1, HoldingFields, HoldingExcept DEF PlayersAdd

LEMMA ListsPlayers ==
  ASSUME NEW n, NEW D, NEW cs, NEW q, q.op = "players"
  PROVE  Handler(Holding(n, D, cs), q) = Done(Holding(n, D, cs), [players |-> 1..n, disqualified |-> D])
  <1>1. Handler(Holding(n, D, cs), q) = PlayersList(Holding(n, D, cs), q)
    BY DEF Handler
  <1> QED
    BY <1>1, HoldingFields, HoldingExcept DEF PlayersList

LockedOut(t, D) == [t EXCEPT !.disqualified = D]

LEMMA LocksOut ==
  ASSUME NEW n, NEW D, NEW cs, NEW E
  PROVE  LockedOut(Holding(n, D, cs), E) = Holding(n, E, cs)
  BY HoldingExcept DEF LockedOut

LEMMA Disqualifies ==
  ASSUME NEW n, NEW D, NEW cs, NEW q, q.op = "disqualified"
  PROVE  /\ q.player \in 1..n =>
               Handler(Holding(n, D, cs), q)
                  = Done(Holding(n, D \cup {q.player}, cs), [player |-> q.player, disqualified |-> TRUE])
         /\ q.player \notin 1..n => Handler(Holding(n, D, cs), q) = Refused(Holding(n, D, cs), 404)
  <1> DEFINE t == Holding(n, D, cs)
             E == D \cup {q.player}
             u == Holding(n, E, cs)
             d == [player |-> q.player, disqualified |-> TRUE]
  <1>1. Handler(t, q) = PlayerDisqualified(t, q)
    BY DEF Handler
  <1>2. Player(t) = 1..n /\ t.disqualified = D
    BY HoldingFields
  <1> HIDE DEF E
  <1>3. LockedOut(t, E) = u
    BY LocksOut
  <1> HIDE DEF t, u
  <1>4. [t EXCEPT !.disqualified = t.disqualified \cup {q.player}] = u
    BY <1>2, <1>3 DEF E, LockedOut
  <1>5. PlayerDisqualified(t, q) = IF q.player \notin 1..n THEN Refused(t, 404)
           ELSE Done([t EXCEPT !.disqualified = t.disqualified \cup {q.player}], d)
    BY <1>2 DEF PlayerDisqualified
  <1> HIDE DEF d
  <1>6. PlayerDisqualified(t, q) = IF q.player \notin 1..n THEN Refused(t, 404) ELSE Done(u, d)
    BY <1>4, <1>5
  <1>7. (q.player \in 1..n => Handler(t, q) = Done(u, d)) /\ (q.player \notin 1..n => Handler(t, q) = Refused(t, 404))
    BY <1>1, <1>6
  <1> QED
    BY <1>7, Zenon DEF t, u, E, d

LEMMA DisqualifiesNobody ==
  ASSUME NEW n, NEW D, NEW cs, NEW q, q.op = "disqualified", q.player \notin 1..n
  PROVE  Handler(Holding(n, D, cs), q) = Refused(Holding(n, D, cs), 404)
  <1>1. Handler(Holding(n, D, cs), q) = PlayerDisqualified(Holding(n, D, cs), q)
    BY DEF Handler
  <1>2. Player(Holding(n, D, cs)) = 1..n
    BY HoldingFields
  <1> QED
    BY <1>1, <1>2 DEF PlayerDisqualified

LEMMA AddsCompetition ==
  ASSUME NEW n, NEW D, NEW cs, NEW q, q.op = "competitions_add"
  PROVE  Handler(Holding(n, D, cs), q) = Done(Holding(n, D, Append(cs, NewCompetition)), Len(cs) + 1)
  <1> DEFINE t == Holding(n, D, cs)
             ds == Append(cs, NewCompetition)
             u == Holding(n, D, ds)
  <1>1. Handler(t, q) = CompetitionsAdd(t, q)
    BY DEF Handler
  <1>2. t.competitions = cs
    BY HoldingFields
  <1>3. [t EXCEPT !.competitions = ds] = u
    <2> HIDE DEF ds
    <2> QED
      BY HoldingExcept
  <1> HIDE DEF t, u
  <1>4. CompetitionsAdd(t, q) = Done(u, Len(cs) + 1)
    BY <1>2, <1>3 DEF CompetitionsAdd
  <1> QED
    BY <1>1, <1>4 DEF t, u

(* A handler that changes one competition. *)
Changed(t, c, k) == [t EXCEPT !.competitions = [t.competitions EXCEPT ![c] = k]]

LEMMA ChangesLast ==
  ASSUME NEW n, NEW D, NEW c0 \in Seq(CompetitionSet), NEW k \in CompetitionSet, NEW j \in CompetitionSet
  PROVE  /\ Has(Holding(n, D, Append(c0, k)), Len(c0) + 1)
         /\ Holding(n, D, Append(c0, k)).competitions[Len(c0) + 1] = k
         /\ Changed(Holding(n, D, Append(c0, k)), Len(c0) + 1, j) = Holding(n, D, Append(c0, j))
  <1> DEFINE c == Len(c0) + 1
             cs == Append(c0, k)
             ds == Append(c0, j)
             t == Holding(n, D, cs)
  <1>1. c \in DOMAIN cs /\ cs[c] = k /\ [cs EXCEPT ![c] = j] = ds
    BY LastIs
  <1> HIDE DEF cs, ds, c
  <1>2. t.competitions = cs
    BY HoldingFields
  <1>3. Has(t, c)
    BY <1>1, HoldingHas
  <1>4. [t EXCEPT !.competitions = ds] = Holding(n, D, ds)
    BY HoldingExcept
  <1> HIDE DEF t
  <1>5. [t EXCEPT !.competitions = [t.competitions EXCEPT ![c] = j]] = Holding(n, D, ds)
    BY <1>1, <1>2, <1>4
  <1>6. t.competitions[c] = k
    BY <1>1, <1>2
  <1>7. Changed(t, c, j) = Holding(n, D, ds)
    BY <1>5 DEF Changed
  <1> QED
    BY <1>3, <1>6, <1>7 DEF t, cs, ds, c

LEMMA FinishesIt ==
  ASSUME NEW n, NEW D, NEW c0 \in Seq(CompetitionSet), NEW R \in Seq(Lines), NEW V \in SUBSET Nat,
         NEW q, q.op = "finish", q.competition = Len(c0) + 1
  PROVE  Handler(Holding(n, D, Append(c0, Open(R, V))), q)
            = Done(Holding(n, D, Append(c0, Closed(R, V))), {})
  <1> DEFINE k == Open(R, V)
             j == Closed(R, V)
             c == q.competition
             t == Holding(n, D, Append(c0, k))
             u == Holding(n, D, Append(c0, j))
  <1>1. k \in CompetitionSet /\ j \in CompetitionSet /\ Finish(k) = j
    <2>1. k \in CompetitionSet
      BY OpenFields
    <2>2. j \in CompetitionSet
      BY ClosedFields
    <2>3. Finish(k) = j
      BY OpenChanges
    <2> QED
      BY <2>1, <2>2, <2>3
  <1>2. Handler(t, q) = CompetitionFinish(t, q)
    BY DEF Handler
  <1> HIDE DEF k, j
  <1>3. /\ Has(t, c) /\ t.competitions[c] = k
        /\ Changed(t, c, j) = u
    BY <1>1, ChangesLast
  <1> HIDE DEF t, u
  <1>4. CompetitionFinish(t, q) = Done(Changed(t, c, Finish(t.competitions[c])), {})
    BY <1>3 DEF CompetitionFinish, Changed
  <1>5. CompetitionFinish(t, q) = Done(u, {})
    BY <1>1, <1>3, <1>4
  <1> QED
    BY <1>2, <1>5 DEF t, u, k, j

LEMMA SetsScores ==
  ASSUME NEW n, NEW D, NEW c0 \in Seq(CompetitionSet), NEW R \in Seq(Lines), NEW new \in Seq(Lines),
         NEW V \in SUBSET Nat, NEW q, q.op = "score", q.competition = Len(c0) + 1,
         q.rows = new, q.header, q.columns = 2, \A i \in DOMAIN new : new[i].player \in 1..n
  PROVE  Handler(Holding(n, D, Append(c0, Open(R, V))), q)
            = Done(Holding(n, D, Append(c0, Open(new, V))), Len(new))
  <1> DEFINE k == Open(R, V)
             j == Open(new, V)
             c == q.competition
             t == Holding(n, D, Append(c0, k))
             u == Holding(n, D, Append(c0, j))
  <1>1. k \in CompetitionSet /\ j \in CompetitionSet /\ ~k.finished /\ [k EXCEPT !.rows = new] = j
    <2>1. k \in CompetitionSet /\ ~k.finished
      BY OpenFields
    <2>2. j \in CompetitionSet
      BY OpenFields
    <2>3. [k EXCEPT !.rows = new] = j
      BY OpenChanges
    <2> QED
      BY <2>1, <2>2, <2>3
  <1>2. Handler(t, q) = CompetitionScore(t, q)
    BY DEF Handler
  <1>3. Player(t) = 1..n
    BY HoldingFields
  <1> HIDE DEF k, j
  <1>4. /\ Has(t, c) /\ t.competitions[c] = k
        /\ Changed(t, c, j) = u
    BY <1>1, ChangesLast
  <1> HIDE DEF t, u
  <1>5. {i \in DOMAIN q.rows : q.rows[i].player \in Player(t)} = DOMAIN q.rows
    BY <1>3
  <1>6. CompetitionScore(t, q) = Done(Changed(t, c, [t.competitions[c] EXCEPT !.rows = q.rows]), Len(q.rows))
    BY <1>1, <1>4, <1>5 DEF CompetitionScore, Changed
  <1>7. CompetitionScore(t, q) = Done(u, Len(new))
    BY <1>1, <1>4, <1>6
  <1> QED
    BY <1>2, <1>7 DEF t, u, k, j

(* The refusals of an upload. *)
LEMMA UploadNowhere ==
  ASSUME NEW t, NEW q, q.op = "score", ~Has(t, q.competition)
  PROVE  Handler(t, q) = Refused(t, 404)
  BY DEF Handler, CompetitionScore

LEMMA UploadUnread ==
  ASSUME NEW t, NEW q, q.op = "score", Has(t, q.competition), ~q.header
  PROVE  Handler(t, q) = Refused(t, 400)
  BY DEF Handler, CompetitionScore

LEMMA UploadTooLate ==
  ASSUME NEW t, NEW q, q.op = "score", Has(t, q.competition), t.competitions[q.competition].finished
  PROVE  Handler(t, q) = Refused(t, 400)
  BY DEF Handler, CompetitionScore

LEMMA UploadOfNobody ==
  ASSUME NEW t, NEW q, q.op = "score", Has(t, q.competition), ~t.competitions[q.competition].finished,
         q.columns = 2, NEW i \in DOMAIN q.rows, q.rows[i].player \notin Player(t)
  PROVE  Handler(t, q) = Refused(t, 400)
  <1>1. Handler(t, q) = CompetitionScore(t, q)
    BY DEF Handler
  <1>2. {j \in DOMAIN q.rows : q.rows[j].player \in Player(t)} # DOMAIN q.rows
    OBVIOUS
  <1> QED
    BY <1>1, <1>2 DEF CompetitionScore

(* The page of a ranking that begins after a rank. *)
PageOf(rows, after) ==
    LET ranks == Standings(rows)
    IN  SubSeq(ranks, after + 1, IF after + RankLimit < Len(ranks) THEN after + RankLimit ELSE Len(ranks))

LEMMA ReadsRanking ==
  ASSUME NEW n, NEW D, NEW c0 \in Seq(CompetitionSet), NEW R \in Seq(Lines), NEW k \in CompetitionSet,
         k.rows = R, NEW j \in CompetitionSet,
         NEW q, q.op = "ranking", q.competition = Len(c0) + 1, Visit(k, q.as.player) = j
  PROVE  Handler(Holding(n, D, Append(c0, k)), q) = Done(Holding(n, D, Append(c0, j)), PageOf(R, q.after))
  <1> DEFINE c == q.competition
             p == q.as.player
             s == Holding(n, D, Append(c0, k))
             u == Holding(n, D, Append(c0, j))
  <1>1. Handler(s, q) = CompetitionRanking(s, q)
    BY DEF Handler
  <1>2. /\ Has(s, c) /\ s.competitions[c] = k
        /\ Changed(s, c, j) = u
    BY ChangesLast
  <1> HIDE DEF s, u
  <1>3. CompetitionRanking(s, q) = Done(Changed(s, c, Visit(s.competitions[c], p)), PageOf(s.competitions[c].rows, q.after))
    BY <1>2 DEF CompetitionRanking, PageOf, Changed
  <1>4. CompetitionRanking(s, q) = Done(u, PageOf(R, q.after))
    BY <1>2, <1>3
  <1> QED
    BY <1>1, <1>4 DEF s, u

(* The best line of a player in each competition. *)
ScoresOf(cs, p) ==
    [c \in DOMAIN cs |-> {cs[c].rows[i].score : i \in {k \in LastRows(cs[c].rows) : cs[c].rows[k].player = p}}]

LEMMA ReadsPage ==
  ASSUME NEW n, NEW D, NEW cs, NEW q, q.op = "player"
  PROVE  /\ q.player \in 1..n =>
              Handler(Holding(n, D, cs), q) = Done(Holding(n, D, cs), Page(q.player, q.player \in D, ScoresOf(cs, q.player)))
         /\ q.player \notin 1..n => Handler(Holding(n, D, cs), q) = Refused(Holding(n, D, cs), 404)
  <1> DEFINE t == Holding(n, D, cs)
  <1>1. Handler(t, q) = PlayerPage(t, q)
    BY DEF Handler
  <1>2. Player(t) = 1..n /\ t.disqualified = D /\ t.competitions = cs
    BY HoldingFields
  <1> HIDE DEF t
  <1>3. PlayerPage(t, q) = IF q.player \notin 1..n THEN Refused(t, 404)
           ELSE Done(t, [player |-> q.player, disqualified |-> q.player \in D, scores |-> ScoresOf(cs, q.player)])
    BY <1>2, Zenon DEF PlayerPage, ScoresOf
  <1> QED
    BY <1>1, <1>3 DEF t, Page

LEMMA ReadsBill ==
  ASSUME NEW n, NEW D, NEW cs, NEW q, q.op = "billing"
  PROVE  Handler(Holding(n, D, cs), q) = Done(Holding(n, D, cs), [c \in DOMAIN cs |-> Report(cs[c])])
  <1>1. Handler(Holding(n, D, cs), q) = Billing(Holding(n, D, cs), q)
    BY DEF Handler
  <1>2. Holding(n, D, cs).competitions = cs
    BY HoldingFields
  <1> QED
    BY <1>1, <1>2, Zenon DEF Billing

LEMMA ListsCompetitions ==
  ASSUME NEW n, NEW D, NEW cs, NEW q, q.op \in {"organizer_competitions", "player_competitions"}
  PROVE  Handler(Holding(n, D, cs), q) = Done(Holding(n, D, cs), DOMAIN cs)
  <1>1. Handler(Holding(n, D, cs), q) = Competitions(Holding(n, D, cs), q)
    BY DEF Handler
  <1> QED
    BY <1>1, HoldingFields, HoldingExcept DEF Competitions

-----------------------------------------------------------------------------
(* Who is answered *)

LEMMA AsIs ==
  ASSUME NEW g, NEW p
  PROVE  /\ OrganizerOf(g).role = "organizer" /\ OrganizerOf(g).tenant = g /\ OrganizerOf(g).token = "valid"
         /\ OrganizerOf(g).host = g /\ OrganizerOf(g).player = 1
         /\ As("player", g, p).role = "player" /\ As("player", g, p).tenant = g
         /\ As("player", g, p).token = "valid" /\ As("player", g, p).host = g
         /\ As("player", g, p).player = p
  BY DEF OrganizerOf, As

LEMMA OrganizerAnswered ==
  ASSUME NEW t, t.file, NEW known, NEW g \in known, g # Admin, NEW q, q.op \in OrganizerApi,
         q.as = OrganizerOf(g)
  PROVE  Answer(t, q, known) = Handler(t, q)
  <1>1. ~Unauthorized(q.as, known)
    BY AsIs DEF Unauthorized
  <1>2. q.as.role = RoleOf(q.op) /\ q.op \notin PlayerApi
    BY AsIs DEF RoleOf, OrganizerApi, PlayerApi
  <1> QED
    BY <1>1, <1>2 DEF Answer

LEMMA PlayerAuthorized ==
  ASSUME NEW known, NEW g \in known, g # Admin, NEW p, NEW q, q.op \in PlayerApi,
         q.as = As("player", g, p)
  PROVE  ~Unauthorized(q.as, known) /\ q.as.role = RoleOf(q.op) /\ q.as.player = p
  <1>1. ~Unauthorized(q.as, known)
    BY AsIs DEF Unauthorized
  <1>2. q.as.role = RoleOf(q.op) /\ q.as.player = p
    BY AsIs DEF RoleOf, OrganizerApi, PlayerApi
  <1> QED
    BY <1>1, <1>2

LEMMA PlayerAnswered ==
  ASSUME NEW t, t.file, NEW known, NEW g \in known, g # Admin, NEW p, NEW q, q.op \in PlayerApi,
         q.as = As("player", g, p), p \in Player(t), p \notin t.disqualified
  PROVE  Answer(t, q, known) = Handler(t, q)
  BY PlayerAuthorized DEF Answer

LEMMA NobodyAnswered ==
  ASSUME NEW t, t.file, NEW known, NEW g \in known, g # Admin, NEW p, NEW q, q.op \in PlayerApi,
         q.as = As("player", g, p), p \notin Player(t)
  PROVE  Answer(t, q, known) = Refused(t, 401)
  BY PlayerAuthorized DEF Answer

LEMMA StrangerRefused ==
  ASSUME NEW t, NEW known, NEW g, g \notin known, g # Admin, NEW q,
         q.as = OrganizerOf(g)
  PROVE  Answer(t, q, known) = Refused(t, 401)
  <1>1. Unauthorized(q.as, known)
    BY AsIs DEF Unauthorized
  <1> QED
    BY <1>1 DEF Answer

-----------------------------------------------------------------------------
(* The server that is as written *)

SomeRefusal(a, t) == \E s \in Nat : s # 200 /\ a = Refused(t, s)
Does(a, q) == \E u, d : a = Done(u, d) /\ (q.op = "score" => d = Len(q.rows))

LEMMA AnswerForm ==
  ASSUME NEW t, NEW q, q.op \in OrganizerApi \cup PlayerApi, NEW known
  PROVE  \/ \E s \in Nat : s # 200 /\ Answer(t, q, known) = Refused(t, s)
         \/ \E u, d : Answer(t, q, known) = Done(u, d) /\ (q.op = "score" => d = Len(q.rows))
  <1>1. SomeRefusal(Answer(t, q, known), t) \/ Answer(t, q, known) = Handler(t, q)
    BY DEF Answer, SomeRefusal
  <1>2. ASSUME NEW u, NEW d, q.op # "score" PROVE Does(Done(u, d), q)
    BY <1>2 DEF Does
  <1>3. \A s \in {404, 400, 500} : SomeRefusal(Refused(t, s), t)
    BY DEF SomeRefusal
  <1>4. SomeRefusal(Handler(t, q), t) \/ Does(Handler(t, q), q)
    <2>1. CASE q.op = "players_add"
      BY <1>2, <2>1 DEF Handler, PlayersAdd
    <2>2. CASE q.op = "players"
      BY <1>2, <2>2 DEF Handler, PlayersList
    <2>3. CASE q.op = "disqualified"
      BY <1>2, <1>3, <2>3 DEF Handler, PlayerDisqualified
    <2>4. CASE q.op = "competitions_add"
      BY <1>2, <2>4 DEF Handler, CompetitionsAdd
    <2>5. CASE q.op = "finish"
      BY <1>2, <1>3, <2>5 DEF Handler, CompetitionFinish
    <2>6. CASE q.op = "score"
      <3>1. \A u : Does(Done(u, Len(q.rows)), q)
        BY DEF Does
      <3>2. Handler(t, q) = CompetitionScore(t, q)
        BY <2>6 DEF Handler
      <3> QED
        BY <1>3, <3>1, <3>2 DEF CompetitionScore
    <2>7. CASE q.op = "billing"
      BY <1>2, <2>7 DEF Handler, Billing
    <2>8. CASE q.op \in {"organizer_competitions", "player_competitions"}
      BY <1>2, <2>8 DEF Handler, Competitions
    <2>9. CASE q.op = "ranking"
      BY <1>2, <1>3, <2>9 DEF Handler, CompetitionRanking
    <2>10. CASE q.op = "player"
      BY <1>2, <1>3, <2>10 DEF Handler, PlayerPage
    <2> QED
      BY <2>1, <2>2, <2>3, <2>4, <2>5, <2>6, <2>7, <2>8, <2>9, <2>10 DEF OrganizerApi, PlayerApi
  <1> QED
    BY <1>1, <1>4 DEF SomeRefusal, Does

LEMMA RequestIs ==
  ASSUME NEW op, NEW as, NEW p
  PROVE  /\ Request(op, as, p).op = op /\ Request(op, as, p).as = as
         /\ \A f \in DOMAIN p : f \notin {"op", "as"} => Request(op, as, p)[f] = p[f]
         /\ [Request(op, as, p) EXCEPT !.rows = Request(op, as, p).rows] = Request(op, as, p)
  BY DEF Request

(* What the server keeps beside what a handler returns. *)
LEMMA TenantKept ==
  ASSUME NEW t \in TenantSet, NEW q, HasParameters(q, Lines, Nat), NEW known
  PROVE  LET u == Answer(t, q, known).tenant
         IN  /\ u \in TenantSet
             /\ q.op \in {"billing", "player", "player_competitions"} => u = t
             /\ q.op = "ranking" => u.disqualified = t.disqualified
             /\ q.op = "score" => /\ DOMAIN u.competitions = DOMAIN t.competitions
                                  /\ \A c \in DOMAIN u.competitions :
                                        u.competitions[c].finished = t.competitions[c].finished
  <1> DEFINE u == Answer(t, q, known).tenant
  <1>1. u \in TenantSet
    BY FinishedBillStands DEF TenantSet
  <1>2. u = t \/ u = Handler(t, q).tenant
    BY DEF Answer, Refused
  <1>3. q.op \in {"billing", "player", "player_competitions"} => Handler(t, q).tenant = t
    BY DEF Handler, Billing, PlayerPage, Competitions, Done, Refused
  <1>4. q.op = "ranking" => Handler(t, q).tenant.disqualified = t.disqualified
    <2> SUFFICES ASSUME q.op = "ranking" PROVE Handler(t, q).tenant.disqualified = t.disqualified
      OBVIOUS
    <2>1. Handler(t, q).tenant = CompetitionRanking(t, q).tenant
      BY DEF Handler
    <2> QED
      BY <2>1 DEF CompetitionRanking, Done, Refused, TenantSet, TenantsOf
  <1>5. q.op = "score" => LET h == Handler(t, q).tenant
                          IN  /\ DOMAIN h.competitions = DOMAIN t.competitions
                              /\ \A c \in DOMAIN h.competitions :
                                    h.competitions[c].finished = t.competitions[c].finished
    <2> SUFFICES ASSUME q.op = "score"
                 PROVE  LET h == CompetitionScore(t, q).tenant
                        IN  /\ DOMAIN h.competitions = DOMAIN t.competitions
                            /\ \A c \in DOMAIN h.competitions :
                                    h.competitions[c].finished = t.competitions[c].finished
      BY DEF Handler
    <2> DEFINE h == CompetitionScore(t, q).tenant
               c == q.competition
               j == [t.competitions[c] EXCEPT !.rows = q.rows]
               cs == [t.competitions EXCEPT ![c] = j]
    <2>1. h = t \/ (c \in DOMAIN t.competitions /\ h = [t EXCEPT !.competitions = cs])
      BY DEF CompetitionScore, Done, Refused, Has
    <2>2. CASE h = t
      BY <2>2
    <2>3. CASE c \in DOMAIN t.competitions /\ h = [t EXCEPT !.competitions = cs]
      <3>1. t.competitions[c] \in CompetitionsOf(Lines, Nat)
        BY <2>3, TenantFields DEF TenantSet
      <3>2. j.finished = t.competitions[c].finished
        BY <3>1 DEF CompetitionsOf
      <3> HIDE DEF j
      <3>3. DOMAIN cs = DOMAIN t.competitions /\ \A d \in DOMAIN cs : cs[d].finished = t.competitions[d].finished
        BY <2>3, <3>2
      <3> HIDE DEF cs
      <3>4. h.competitions = cs
        BY <2>3 DEF TenantSet, TenantsOf
      <3> QED
        BY <3>3, <3>4
    <2> QED
      BY <2>1, <2>2, <2>3
  <1> QED
    BY <1>1, <1>2, <1>3, <1>4, <1>5

(* The server says how many lines it was sent. *)
SaysSo(a, q) == a.status = 200 /\ q.op = "score" => [a EXCEPT !.data = Len(q.rows)] = a

LEMMA AsWrittenServer ==
  ASSUME server = "as_written", NEW q, HasParameters(q, Lines, Nat),
         q.op = "score" => [q EXCEPT !.rows = q.rows] = q,
         TenantOf(initial.tenant, tenants, q.as.tenant) \in TenantSet
  PROVE  Contestant(q) = Answer(TenantOf(initial.tenant, tenants, q.as.tenant), q, InitialId \cup DOMAIN tenants)
  <1> DEFINE known == InitialId \cup DOMAIN tenants
             t == TenantOf(initial.tenant, tenants, q.as.tenant)
             r == Answer(t, q, known)
  <1>1. Seen(t, q) = t
    BY DEF Seen
  <1>2. Asked(q, t) = q
    <2>1. \A old : Taken(old, q.rows, t) = q.rows
      BY DEF Taken
    <2>2. Asked(q, t) = IF q.op = "score" /\ Has(t, q.competition)
                        THEN [q EXCEPT !.rows = Taken(t.competitions[q.competition].rows, q.rows, t)] ELSE q
      BY DEF Asked
    <2> QED
      BY <2>1, <2>2
  <1>3. PICK u, a : r = [tenant |-> u, answer |-> a] /\ SaysSo(a, q)
    <2> HIDE DEF t, known
    <2>1. CASE \E s \in Nat : s # 200 /\ r = Refused(t, s)
      <3>1. PICK s \in Nat : s # 200 /\ r = Refused(t, s)
        BY <2>1
      <3> DEFINE b == [status |-> s]
      <3>2. b.status # 200 /\ r = [tenant |-> t, answer |-> b]
        BY <3>1 DEF Refused
      <3> HIDE DEF b
      <3>3. SaysSo(b, q)
        BY <3>2 DEF SaysSo
      <3> QED
        BY <3>2, <3>3
    <2>2. CASE \E u, d : r = Done(u, d) /\ (q.op = "score" => d = Len(q.rows))
      <3>1. PICK u, d : r = Done(u, d) /\ (q.op = "score" => d = Len(q.rows))
        BY <2>2
      <3> DEFINE b == [status |-> 200, data |-> d]
      <3>2. [b EXCEPT !.data = d] = b /\ r = [tenant |-> u, answer |-> b]
        BY <3>1 DEF Done
      <3> HIDE DEF b
      <3>3. SaysSo(b, q)
        BY <3>1, <3>2 DEF SaysSo
      <3> QED
        BY <3>2, <3>3
    <2> QED
      BY <2>1, <2>2, AnswerForm DEF HasParameters
  <1>4. r.tenant = u /\ r.answer = a
    BY <1>3
  <1>5. /\ u \in TenantSet
        /\ q.op \in {"billing", "player", "player_competitions"} => u = t
        /\ q.op = "ranking" => u.disqualified = t.disqualified
        /\ q.op = "score" => /\ DOMAIN u.competitions = DOMAIN t.competitions
                             /\ \A c \in DOMAIN u.competitions :
                                   u.competitions[c].finished = t.competitions[c].finished
    <2>1. t \in TenantSet
      OBVIOUS
    <2> HIDE DEF t, known
    <2> QED
      BY <1>4, <2>1, TenantKept
  <1>6. [u EXCEPT !.disqualified = u.disqualified] = u
    BY <1>5 DEF TenantSet, TenantsOf
  <1>7. q.op = "score" =>
          [u EXCEPT !.competitions = [c \in DOMAIN u.competitions |->
               [u.competitions[c] EXCEPT !.finished = t.competitions[c].finished]]] = u
    <2> SUFFICES ASSUME q.op = "score"
                 PROVE  [u EXCEPT !.competitions = [c \in DOMAIN u.competitions |->
                           [u.competitions[c] EXCEPT !.finished = t.competitions[c].finished]]] = u
      OBVIOUS
    <2> HIDE DEF t, r
    <2>1. \A c \in DOMAIN u.competitions : u.competitions[c] \in CompetitionsOf(Lines, Nat)
      BY <1>5, TenantFields DEF TenantSet
    <2>2. \A c \in DOMAIN u.competitions : [u.competitions[c] EXCEPT !.finished = t.competitions[c].finished] = u.competitions[c]
      <3> SUFFICES ASSUME NEW c \in DOMAIN u.competitions, NEW k \in CompetitionsOf(Lines, Nat), k = u.competitions[c]
                   PROVE  [k EXCEPT !.finished = t.competitions[c].finished] = k
        BY <2>1
      <3>1. k.finished = t.competitions[c].finished
        BY <1>5
      <3>2. [k EXCEPT !.finished = k.finished] = k
        BY DEF CompetitionsOf
      <3> QED
        BY <3>1, <3>2
    <2> DEFINE cs == [c \in DOMAIN u.competitions |-> [u.competitions[c] EXCEPT !.finished = t.competitions[c].finished]]
    <2>3. cs = u.competitions
      <3>1. cs = [c \in DOMAIN u.competitions |-> u.competitions[c]]
        BY <2>2, Zenon
      <3>2. u.competitions \in Seq(CompetitionsOf(Lines, Nat))
        BY <1>5, TenantFields DEF TenantSet
      <3>3. u.competitions = [c \in DOMAIN u.competitions |-> u.competitions[c]]
        BY <3>2
      <3> QED
        BY <3>1, <3>3
    <2> HIDE DEF cs
    <2>4. [u EXCEPT !.competitions = cs] = u
      BY <1>5, <2>3 DEF TenantSet, TenantsOf
    <2> QED
      BY <2>4 DEF cs
  <1> DEFINE kept == IF q.op \in {"billing", "player", "player_competitions"} THEN t
                     ELSE IF q.op = "ranking" THEN [u EXCEPT !.disqualified = t.disqualified]
                     ELSE IF q.op = "score" THEN
                        [u EXCEPT !.competitions = [c \in DOMAIN u.competitions |->
                           [u.competitions[c] EXCEPT !.finished = t.competitions[c].finished]]]
                     ELSE u
             told == IF a.status # 200 THEN a
                     ELSE IF q.op = "score" THEN [a EXCEPT !.data = Len(q.rows)] ELSE a
  <1>8. kept = u
    <2> HIDE DEF t
    <2> QED
      BY <1>5, <1>6, <1>7
  <1>9. told = a
    BY <1>3 DEF SaysSo
  <1>10. Contestant(q) = [tenant |-> kept, answer |-> told]
    <2> HIDE DEF t, known
    <2> QED
      BY <1>1, <1>2, <1>4 DEF Contestant, t, known
  <1> QED
    BY <1>3, <1>8, <1>9, <1>10

-----------------------------------------------------------------------------
(* The requests of the checks to a tenant that is there, and their answers *)

Proper(q, g) ==
    /\ q.op \in OrganizerApi \cup PlayerApi /\ q.as.tenant = g
    /\ HasParameters(q, Lines, Nat)
    /\ q.op = "score" => [q EXCEPT !.rows = q.rows] = q

(* The request names a player. *)
About(p) == "player" \in DOMAIN p

LEMMA HoldingFile ==
  ASSUME NEW n, NEW D, NEW cs
  PROVE  Holding(n, D, cs).file
  BY DEF Holding

LEMMA AskPlayersAdd ==
  ASSUME NEW known, NEW g \in known, g # Admin, NEW n, NEW D, NEW cs, NEW p, "n" \in DOMAIN p, p.n \in Nat
  PROVE  LET q == Request("players_add", OrganizerOf(g), p)
         IN  /\ Proper(q, g)
             /\ Answer(Holding(n, D, cs), q, known) = Done(Holding(n + p.n, D, cs), (n + 1)..(n + p.n))
  <1> DEFINE q == Request("players_add", OrganizerOf(g), p)
  <1>1. q.op = "players_add" /\ q.as = OrganizerOf(g) /\ q.n = p.n
    BY RequestIs
  <1> HIDE DEF q
  <1>2. Proper(q, g)
    BY <1>1, AsIs DEF Proper, HasParameters, OrganizerApi
  <1>3. Answer(Holding(n, D, cs), q, known) = Handler(Holding(n, D, cs), q)
    BY <1>1, HoldingFile, OrganizerAnswered DEF OrganizerApi
  <1> QED
    BY <1>1, <1>2, <1>3, AddsPlayers DEF q

LEMMA AskPlayers ==
  ASSUME NEW known, NEW g \in known, g # Admin, NEW n, NEW D, NEW cs, NEW p
  PROVE  LET q == Request("players", OrganizerOf(g), p)
         IN  /\ Proper(q, g)
             /\ Answer(Holding(n, D, cs), q, known)
                  = Done(Holding(n, D, cs), [players |-> 1..n, disqualified |-> D])
  <1> DEFINE q == Request("players", OrganizerOf(g), p)
  <1>1. q.op = "players" /\ q.as = OrganizerOf(g)
    BY RequestIs
  <1> HIDE DEF q
  <1>2. Proper(q, g)
    BY <1>1, AsIs DEF Proper, HasParameters, OrganizerApi
  <1>3. Answer(Holding(n, D, cs), q, known) = Handler(Holding(n, D, cs), q)
    BY <1>1, HoldingFile, OrganizerAnswered DEF OrganizerApi
  <1> QED
    BY <1>1, <1>2, <1>3, ListsPlayers DEF q

LEMMA AskDisqualified ==
  ASSUME NEW known, NEW g \in known, g # Admin, NEW n, NEW D, NEW cs, NEW p, About(p), p.player \in 1..n
  PROVE  LET q == Request("disqualified", OrganizerOf(g), p)
         IN  /\ Proper(q, g)
             /\ Answer(Holding(n, D, cs), q, known)
                   = Done(Holding(n, D \cup {p.player}, cs), [player |-> p.player, disqualified |-> TRUE])
  <1> DEFINE q == Request("disqualified", OrganizerOf(g), p)
  <1>1. q.op = "disqualified" /\ q.as = OrganizerOf(g) /\ q.player = p.player
    BY RequestIs DEF About
  <1> HIDE DEF q
  <1>2. Proper(q, g)
    BY <1>1, AsIs DEF Proper, HasParameters, OrganizerApi
  <1>3. Answer(Holding(n, D, cs), q, known) = Handler(Holding(n, D, cs), q)
    BY <1>1, HoldingFile, OrganizerAnswered DEF OrganizerApi
  <1>4. Handler(Holding(n, D, cs), q)
           = Done(Holding(n, D \cup {p.player}, cs), [player |-> p.player, disqualified |-> TRUE])
    BY <1>1, Disqualifies
  <1> QED
    BY <1>2, <1>3, <1>4 DEF q

LEMMA AskDisqualifyNobody ==
  ASSUME NEW known, NEW g \in known, g # Admin, NEW n, NEW D, NEW cs, NEW p, About(p), p.player \notin 1..n
  PROVE  LET q == Request("disqualified", OrganizerOf(g), p)
         IN  /\ Proper(q, g)
             /\ Answer(Holding(n, D, cs), q, known) = Refused(Holding(n, D, cs), 404)
  <1> DEFINE q == Request("disqualified", OrganizerOf(g), p)
  <1>1. q.op = "disqualified" /\ q.as = OrganizerOf(g) /\ q.player = p.player
    BY RequestIs DEF About
  <1> HIDE DEF q
  <1>2. Proper(q, g)
    BY <1>1, AsIs DEF Proper, HasParameters, OrganizerApi
  <1>3. Answer(Holding(n, D, cs), q, known) = Handler(Holding(n, D, cs), q)
    BY <1>1, HoldingFile, OrganizerAnswered DEF OrganizerApi
  <1>4. Handler(Holding(n, D, cs), q) = Refused(Holding(n, D, cs), 404)
    BY <1>1, DisqualifiesNobody
  <1> QED
    BY <1>2, <1>3, <1>4 DEF q

LEMMA AskCompetition ==
  ASSUME NEW known, NEW g \in known, g # Admin, NEW n, NEW D, NEW cs, NEW p
  PROVE  LET q == Request("competitions_add", OrganizerOf(g), p)
         IN  /\ Proper(q, g)
             /\ Answer(Holding(n, D, cs), q, known)
                  = Done(Holding(n, D, Append(cs, Open(<<>>, {}))), Len(cs) + 1)
  <1> DEFINE q == Request("competitions_add", OrganizerOf(g), p)
  <1>1. q.op = "competitions_add" /\ q.as = OrganizerOf(g)
    BY RequestIs
  <1> HIDE DEF q
  <1>2. Proper(q, g)
    BY <1>1, AsIs DEF Proper, HasParameters, OrganizerApi
  <1>3. Answer(Holding(n, D, cs), q, known) = Handler(Holding(n, D, cs), q)
    BY <1>1, HoldingFile, OrganizerAnswered DEF OrganizerApi
  <1> QED
    BY <1>1, <1>2, <1>3, AddsCompetition, NewIsOpen DEF q

(* A player who may read. *)
Reader(r, n, D) == r \in 1..n /\ r \notin D

(* The competition that comes after the others. *)
IsNext(c, c0) == c = Len(c0) + 1

LEMMA AskFinish ==
  ASSUME NEW known, NEW g \in known, g # Admin, NEW n, NEW D, NEW c0 \in Seq(CompetitionSet),
         NEW R \in Seq(Lines), NEW V \in SUBSET Nat, NEW p, "competition" \in DOMAIN p,
         IsNext(p.competition, c0)
  PROVE  LET q == Request("finish", OrganizerOf(g), p)
         IN  /\ Proper(q, g)
             /\ Answer(Holding(n, D, Append(c0, Open(R, V))), q, known)
                     = Done(Holding(n, D, Append(c0, Closed(R, V))), {})
  <1> DEFINE q == Request("finish", OrganizerOf(g), p)
             t == Holding(n, D, Append(c0, Open(R, V)))
  <1>1. q.op = "finish" /\ q.as = OrganizerOf(g) /\ q.competition = p.competition
    BY RequestIs
  <1> HIDE DEF q
  <1>2. Proper(q, g)
    BY <1>1, AsIs DEF Proper, HasParameters, OrganizerApi
  <1>3. Answer(t, q, known) = Handler(t, q)
    BY <1>1, HoldingFile, OrganizerAnswered DEF OrganizerApi
  <1>4. Handler(t, q) = Done(Holding(n, D, Append(c0, Closed(R, V))), {})
    BY <1>1, FinishesIt DEF IsNext
  <1> QED
    BY <1>2, <1>3, <1>4 DEF q

(* The file is read, and the upload accepted. *)
IsUpload(p, c0, n) ==
    /\ {"competition", "rows", "header", "columns"} \subseteq DOMAIN p /\ p.rows \in Seq(Lines)
    /\ IsNext(p.competition, c0) /\ p.header /\ p.columns = 2
    /\ \A i \in DOMAIN p.rows : p.rows[i].player \in 1..n

LEMMA AskScore ==
  ASSUME NEW known, NEW g \in known, g # Admin, NEW n, NEW D, NEW c0 \in Seq(CompetitionSet),
         NEW R \in Seq(Lines), NEW V \in SUBSET Nat, NEW p, IsUpload(p, c0, n)
  PROVE  LET q == Request("score", OrganizerOf(g), p)
         IN  /\ Proper(q, g)
             /\ Answer(Holding(n, D, Append(c0, Open(R, V))), q, known)
                     = Done(Holding(n, D, Append(c0, Open(p.rows, V))), Len(p.rows))
  <1> DEFINE q == Request("score", OrganizerOf(g), p)
             t == Holding(n, D, Append(c0, Open(R, V)))
  <1>0. /\ {"competition", "rows", "header", "columns"} \subseteq DOMAIN p /\ p.rows \in Seq(Lines)
        /\ IsNext(p.competition, c0) /\ p.header /\ p.columns = 2
        /\ \A i \in DOMAIN p.rows : p.rows[i].player \in 1..n
    BY DEF IsUpload
  <1>1. q.op = "score" /\ q.as = OrganizerOf(g)
    BY RequestIs
  <1>2. /\ q.competition = p.competition /\ q.rows = p.rows /\ q.columns = p.columns
        /\ q.header
    <2>1. /\ q["competition"] = p["competition"] /\ q["rows"] = p["rows"]
          /\ q["columns"] = p["columns"] /\ q["header"] = p["header"]
      BY <1>0, RequestIs
    <2> HIDE DEF q
    <2> QED
      BY <1>0, <2>1
  <1>3. [q EXCEPT !.rows = q.rows] = q
    BY RequestIs
  <1> HIDE DEF q
  <1>4. Proper(q, g)
    <2>1. q.rows \in Seq(Lines) /\ q.as.tenant = g
      BY <1>0, <1>1, <1>2, AsIs
    <2> QED
      BY <1>1, <1>3, <2>1 DEF Proper, HasParameters, OrganizerApi
  <1>5. Answer(t, q, known) = Handler(t, q)
    BY <1>1, HoldingFile, OrganizerAnswered DEF OrganizerApi
  <1>6. Handler(t, q) = Done(Holding(n, D, Append(c0, Open(p.rows, V))), Len(p.rows))
    BY <1>0, <1>1, <1>2, SetsScores DEF IsNext
  <1> QED
    BY <1>4, <1>5, <1>6 DEF q

Reading(p, c0) == {"competition", "after"} \subseteq DOMAIN p /\ IsNext(p.competition, c0)

LEMMA AskRanking ==
  ASSUME NEW known, NEW g \in known, g # Admin, NEW n, NEW D, NEW c0 \in Seq(CompetitionSet),
         NEW R \in Seq(Lines), NEW V \in SUBSET Nat, NEW r \in Nat, Reader(r, n, D),
         NEW p, Reading(p, c0)
  PROVE  LET q == Request("ranking", As("player", g, r), p)
         IN  /\ Proper(q, g)
             /\ Answer(Holding(n, D, Append(c0, Open(R, V))), q, known)
                     = Done(Holding(n, D, Append(c0, Open(R, V \cup {r}))), PageOf(R, p.after))
  <1> DEFINE q == Request("ranking", As("player", g, r), p)
             t(k) == Holding(n, D, Append(c0, k))
  <1>0. /\ r \in 1..n /\ r \notin D
        /\ {"competition", "after"} \subseteq DOMAIN p /\ IsNext(p.competition, c0)
    BY DEF Reader, Reading
  <1>1. q.op = "ranking" /\ q.as = As("player", g, r) /\ q.as.player = r
    BY <1>0, RequestIs, AsIs
  <1>2. q.competition = p.competition /\ q.after = p.after
    BY <1>0, RequestIs
  <1> HIDE DEF q
  <1>3. Proper(q, g)
    BY <1>0, <1>1, AsIs DEF Proper, HasParameters, PlayerApi
  <1>4. ASSUME NEW k PROVE Answer(t(k), q, known) = Handler(t(k), q)
    <2>1. t(k).file /\ Player(t(k)) = 1..n /\ t(k).disqualified = D
      BY <1>0, HoldingFile, HoldingFields
    <2> HIDE DEF t
    <2>2. q.op \in PlayerApi /\ r \in Player(t(k)) /\ r \notin t(k).disqualified
      BY <1>0, <1>1, <2>1 DEF PlayerApi
    <2> QED
      BY <1>0, <1>1, <2>1, <2>2, PlayerAnswered
  <1>5. Handler(t(Open(R, V)), q) = Done(t(Open(R, V \cup {r})), PageOf(R, p.after))
    <2>1. /\ Open(R, V) \in CompetitionSet /\ Open(R, V \cup {r}) \in CompetitionSet
          /\ Open(R, V).rows = R /\ Visit(Open(R, V), q.as.player) = Open(R, V \cup {r})
      BY <1>0, <1>1, OpenFields, OpenChanges
    <2> QED
      BY <1>0, <1>1, <1>2, <2>1, ReadsRanking DEF IsNext
  <1> QED
    BY <1>0, <1>3, <1>4, <1>5 DEF q

LEMMA AskRankingClosed ==
  ASSUME NEW known, NEW g \in known, g # Admin, NEW n, NEW D, NEW c0 \in Seq(CompetitionSet),
         NEW R \in Seq(Lines), NEW V \in SUBSET Nat, NEW r \in Nat, Reader(r, n, D), r \in V,
         NEW p, Reading(p, c0)
  PROVE  LET q == Request("ranking", As("player", g, r), p)
         IN  /\ Proper(q, g)
             /\ Answer(Holding(n, D, Append(c0, Closed(R, V))), q, known)
                     = Done(Holding(n, D, Append(c0, Closed(R, V))), PageOf(R, p.after))
  <1> DEFINE q == Request("ranking", As("player", g, r), p)
             t(k) == Holding(n, D, Append(c0, k))
  <1>0. /\ r \in 1..n /\ r \notin D
        /\ {"competition", "after"} \subseteq DOMAIN p /\ IsNext(p.competition, c0)
    BY DEF Reader, Reading
  <1>1. q.op = "ranking" /\ q.as = As("player", g, r) /\ q.as.player = r
    BY <1>0, RequestIs, AsIs
  <1>2. q.competition = p.competition /\ q.after = p.after
    BY <1>0, RequestIs
  <1> HIDE DEF q
  <1>3. Proper(q, g)
    BY <1>0, <1>1, AsIs DEF Proper, HasParameters, PlayerApi
  <1>4. ASSUME NEW k PROVE Answer(t(k), q, known) = Handler(t(k), q)
    <2>1. t(k).file /\ Player(t(k)) = 1..n /\ t(k).disqualified = D
      BY <1>0, HoldingFile, HoldingFields
    <2> HIDE DEF t
    <2>2. q.op \in PlayerApi /\ r \in Player(t(k)) /\ r \notin t(k).disqualified
      BY <1>0, <1>1, <2>1 DEF PlayerApi
    <2> QED
      BY <1>0, <1>1, <2>1, <2>2, PlayerAnswered
  <1>5. Handler(t(Closed(R, V)), q) = Done(t(Closed(R, V)), PageOf(R, p.after))
    <2>1. /\ Closed(R, V) \in CompetitionSet
          /\ Closed(R, V).rows = R /\ Visit(Closed(R, V), q.as.player) = Closed(R, V)
      <3>1. Visit(Closed(R, V), r) = Closed(R, V)
        BY <1>0, ClosedStays
      <3>2. Closed(R, V) \in CompetitionSet /\ Closed(R, V).rows = R
        BY <1>0, ClosedFields
      <3> QED
        BY <1>0, <1>1, <3>1, <3>2
    <2> QED
      BY <1>0, <1>1, <1>2, <2>1, ReadsRanking DEF IsNext
  <1> QED
    BY <1>0, <1>3, <1>4, <1>5 DEF q

LEMMA AskPage ==
  ASSUME NEW known, NEW g \in known, g # Admin, NEW n, NEW D, NEW cs, NEW r \in Nat, Reader(r, n, D),
         NEW p, About(p), p.player \in 1..n
  PROVE  LET q == Request("player", As("player", g, r), p)
         IN  /\ Proper(q, g)
             /\ Answer(Holding(n, D, cs), q, known) = Done(Holding(n, D, cs), Page(p.player, p.player \in D, ScoresOf(cs, p.player)))
  <1> DEFINE q == Request("player", As("player", g, r), p)
             t == Holding(n, D, cs)
  <1>0. r \in 1..n /\ r \notin D /\ "player" \in DOMAIN p
    BY DEF Reader, About
  <1>1. q.op = "player" /\ q.as = As("player", g, r)
    BY RequestIs
  <1>2. q.player = p.player
    BY <1>0, RequestIs
  <1> HIDE DEF q
  <1>3. Proper(q, g)
    BY <1>1, AsIs DEF Proper, HasParameters, PlayerApi
  <1>4. Answer(t, q, known) = Handler(t, q)
    <2>1. t.file /\ Player(t) = 1..n /\ t.disqualified = D
      BY HoldingFile, HoldingFields
    <2> HIDE DEF t
    <2>2. q.op \in PlayerApi /\ r \in Player(t) /\ r \notin t.disqualified
      BY <1>0, <1>1, <2>1 DEF PlayerApi
    <2> QED
      BY <1>1, <2>1, <2>2, PlayerAnswered
  <1>5. Handler(t, q) = Done(t, Page(p.player, p.player \in D, ScoresOf(cs, p.player)))
    BY <1>1, <1>2, ReadsPage
  <1> QED
    BY <1>3, <1>4, <1>5 DEF q

LEMMA AskPageOfNobody ==
  ASSUME NEW known, NEW g \in known, g # Admin, NEW n, NEW D, NEW cs, NEW r \in Nat, Reader(r, n, D),
         NEW p, About(p), p.player \notin 1..n
  PROVE  LET q == Request("player", As("player", g, r), p)
         IN  /\ Proper(q, g)
             /\ Answer(Holding(n, D, cs), q, known) = Refused(Holding(n, D, cs), 404)
  <1> DEFINE q == Request("player", As("player", g, r), p)
             t == Holding(n, D, cs)
  <1>0. r \in 1..n /\ r \notin D /\ "player" \in DOMAIN p
    BY DEF Reader, About
  <1>1. q.op = "player" /\ q.as = As("player", g, r)
    BY RequestIs
  <1>2. q.player = p.player
    BY <1>0, RequestIs
  <1> HIDE DEF q
  <1>3. Proper(q, g)
    BY <1>1, AsIs DEF Proper, HasParameters, PlayerApi
  <1>4. Answer(t, q, known) = Handler(t, q)
    <2>1. t.file /\ Player(t) = 1..n /\ t.disqualified = D
      BY HoldingFile, HoldingFields
    <2> HIDE DEF t
    <2>2. q.op \in PlayerApi /\ r \in Player(t) /\ r \notin t.disqualified
      BY <1>0, <1>1, <2>1 DEF PlayerApi
    <2> QED
      BY <1>1, <2>1, <2>2, PlayerAnswered
  <1>5. Handler(t, q) = Refused(t, 404)
    BY <1>1, <1>2, ReadsPage
  <1> QED
    BY <1>3, <1>4, <1>5 DEF q

(* Who is disqualified reads nothing. *)
LEMMA AskDisqualifiedReader ==
  ASSUME NEW known, NEW g \in known, g # Admin, NEW n, NEW D, NEW cs, NEW r \in Nat, r \in 1..n, r \in D,
         NEW op \in PlayerApi, NEW p
  PROVE  LET q == Request(op, As("player", g, r), p)
         IN  /\ Proper(q, g)
             /\ Answer(Holding(n, D, cs), q, known) = Refused(Holding(n, D, cs), 403)
  <1> DEFINE q == Request(op, As("player", g, r), p)
             t == Holding(n, D, cs)
  <1>1. q.op = op /\ q.as = As("player", g, r) /\ q.as.player = r
    BY RequestIs, AsIs
  <1> HIDE DEF q
  <1>2. Proper(q, g)
    BY <1>1, AsIs DEF Proper, HasParameters, PlayerApi
  <1>3. t.file /\ Player(t) = 1..n /\ t.disqualified = D
    BY HoldingFile, HoldingFields
  <1> HIDE DEF t
  <1>4. q.op \in PlayerApi /\ r \in Player(t) /\ r \in t.disqualified
    BY <1>1, <1>3
  <1>5. Answer(t, q, known) = Refused(t, 403)
    <2>1. ~Unauthorized(q.as, known) /\ q.as.role = RoleOf(q.op) /\ q.as.player = r
      BY <1>1, <1>4, PlayerAuthorized
    <2> QED
      BY <1>3, <1>4, <2>1 DEF Answer
  <1> QED
    BY <1>2, <1>5 DEF q, t

LEMMA AskBill ==
  ASSUME NEW known, NEW g \in known, g # Admin, NEW n, NEW D, NEW cs, NEW p
  PROVE  LET q == Request("billing", OrganizerOf(g), p)
         IN  /\ Proper(q, g)
             /\ Answer(Holding(n, D, cs), q, known)
                  = Done(Holding(n, D, cs), [c \in DOMAIN cs |-> Report(cs[c])])
  <1> DEFINE q == Request("billing", OrganizerOf(g), p)
  <1>1. q.op = "billing" /\ q.as = OrganizerOf(g)
    BY RequestIs
  <1> HIDE DEF q
  <1>2. Proper(q, g)
    BY <1>1, AsIs DEF Proper, HasParameters, OrganizerApi
  <1>3. Answer(Holding(n, D, cs), q, known) = Handler(Holding(n, D, cs), q)
    BY <1>1, HoldingFile, OrganizerAnswered DEF OrganizerApi
  <1>4. Handler(Holding(n, D, cs), q) = Done(Holding(n, D, cs), [c \in DOMAIN cs |-> Report(cs[c])])
    BY <1>1, ReadsBill
  <1> QED
    BY <1>2, <1>3, <1>4, Zenon DEF q

LEMMA AskList ==
  ASSUME NEW known, NEW g \in known, g # Admin, NEW n, NEW D, NEW cs, NEW p, NEW r \in 1..n, r \notin D
  PROVE  /\ LET q == Request("organizer_competitions", OrganizerOf(g), p)
            IN  /\ Proper(q, g)
                /\ Answer(Holding(n, D, cs), q, known) = Done(Holding(n, D, cs), DOMAIN cs)
         /\ LET q == Request("player_competitions", As("player", g, r), p)
            IN  /\ Proper(q, g)
                /\ Answer(Holding(n, D, cs), q, known) = Done(Holding(n, D, cs), DOMAIN cs)
  <1> DEFINE t == Holding(n, D, cs)
             q1 == Request("organizer_competitions", OrganizerOf(g), p)
             q2 == Request("player_competitions", As("player", g, r), p)
  <1>1. q1.op = "organizer_competitions" /\ q1.as = OrganizerOf(g)
        /\ q2.op = "player_competitions" /\ q2.as = As("player", g, r)
    BY RequestIs
  <1> HIDE DEF q1, q2
  <1>2. Proper(q1, g) /\ Proper(q2, g)
    BY <1>1, AsIs DEF Proper, HasParameters, OrganizerApi, PlayerApi
  <1>3. Answer(t, q1, known) = Handler(t, q1)
    BY <1>1, HoldingFile, OrganizerAnswered DEF OrganizerApi
  <1>4. Answer(t, q2, known) = Handler(t, q2)
    <2>1. t.file /\ Player(t) = 1..n /\ t.disqualified = D
      BY HoldingFile, HoldingFields
    <2> HIDE DEF t
    <2>2. q2.op \in PlayerApi /\ r \in Player(t) /\ r \notin t.disqualified
      BY <1>1, <2>1 DEF PlayerApi
    <2> QED
      BY <1>1, <2>1, <2>2, PlayerAnswered
  <1>5. Handler(t, q1) = Done(t, DOMAIN cs) /\ Handler(t, q2) = Done(t, DOMAIN cs)
    BY <1>1, ListsCompetitions
  <1> QED
    BY <1>2, <1>3, <1>4, <1>5 DEF q1, q2

-----------------------------------------------------------------------------
(* The scripts of the checks *)

LEMMA StepIs ==
  ASSUME NEW name, NEW op, NEW as, NEW p, NEW status, NEW fatal
  PROVE  /\ Step(name, op, as, {p}, status, fatal).name = name
         /\ Step(name, op, as, {p}, status, fatal).status = status
         /\ Step(name, op, as, {p}, status, fatal).ask = {Request(op, as, p)}
  BY DEF Step

(* Of so many steps. *)
Lasts(s, n) == n \in Nat /\ s \in [1..n -> {s[i] : i \in 1..n}]

LEMMA LastsIs ==
  ASSUME NEW s, NEW n, Lasts(s, n)
  PROVE  Len(s) = n
  <1>1. s \in Seq({s[i] : i \in 1..n}) /\ DOMAIN s = 1..n /\ n \in Nat
    BY SeqDef DEF Lasts
  <1> QED
    BY <1>1, LenProperties

IsJoined(ab, a, b) == ab = a \o b

LEMMA Joined ==
  ASSUME NEW a, NEW b, NEW ab, IsJoined(ab, a, b), NEW m \in Nat, NEW n \in Nat, Lasts(a, m), Lasts(b, n)
  PROVE  /\ Lasts(ab, m + n) /\ Len(ab) = m + n
         /\ \A i \in 1..(m + n) : ab[i] = IF i <= m THEN a[i] ELSE b[i - m]
  <1> DEFINE S == {a[i] : i \in 1..m} \cup {b[i] : i \in 1..n}
  <1>1. m \in Nat /\ n \in Nat /\ a \in [1..m -> S] /\ b \in [1..n -> S]
    BY DEF Lasts
  <1>2. a \in Seq(S) /\ b \in Seq(S) /\ Len(a) = m /\ Len(b) = n
    <2>1. a \in Seq(S) /\ b \in Seq(S)
      BY <1>1, SeqDef
    <2> QED
      BY <2>1, LastsIs
  <1> HIDE DEF S
  <1>3. /\ ab \in Seq(S) /\ Len(ab) = m + n
        /\ \A i \in 1..(m + n) : ab[i] = IF i <= m THEN a[i] ELSE b[i - m]
    BY <1>2, ConcatProperties DEF IsJoined
  <1>4. ab \in [1..(m + n) -> S] /\ m + n \in Nat
    BY <1>1, <1>3, LenProperties
  <1>5. Lasts(ab, m + n)
    BY <1>4 DEF Lasts
  <1> QED
    BY <1>3, <1>5

(* The files that are refused. *)
NowhereFile == [File(<<>>) EXCEPT !.competition = 0]
ReversedFile == [File(<<Line(0, 1)>>) EXCEPT !.header = FALSE]
WideFile == [ReversedFile EXCEPT !.columns = 3]

LEMMA BadRequestSteps ==
  LET s == Script("badRequest", choice)
      org == OrganizerOf(tBad)
  IN  /\ Len(s) = 17
      /\ s[1] = Must("tenants_add", "tenants_add", AdminAs, [name |-> tBad])
      /\ s[2] = Must("players_add", "players_add", org, [n |-> PlayerNum])
      /\ s[3] = Step("duplicate_name", "tenants_add", AdminAs, {[name |-> tBad]}, 400, TRUE)
      /\ s[4] = Step("invalid_name", "tenants_add", AdminAs, {[name |-> Admin]}, 400, TRUE)
      /\ s[5] = Refuses("disqualify_nobody", "disqualified", org, [player |-> 0], 404)
      /\ s[6] = Must("competitions_add", "competitions_add", org, Nothing)
      /\ s[7] = Refuses("score_nowhere", "score", org, NowhereFile, 404)
      /\ s[8] = Refuses("score_nobody", "score", org, File(<<Line(0, 1)>>), 400)
      /\ s[9] = Refuses("columns_reversed", "score", org, ReversedFile, 400)
      /\ s[10] = Refuses("column_too_many", "score", org, WideFile, 400)
      /\ s[11] = Refuses("page_of_nobody", "player", As("player", tBad, 1), [player |-> 0], 404)
      /\ s[12] = Refuses("ranking_of_nothing", "ranking", As("player", tBad, 1), Of(0), 404)
      /\ s[13] = Must("disqualified", "disqualified", org, [player |-> DisqualifiedPlayer])
      /\ s[14] = Refuses("disqualified_reads", "ranking", As("player", tBad, DisqualifiedPlayer),
                   Of(1), 403)
      /\ s[15] = Refuses("finish_nothing", "finish", org, Of(0), 404)
      /\ s[16] = Must("finish", "finish", org, Of(1))
      /\ s[17] = Refuses("score_finished", "score", org, File(<<>>), 400)
  <1> DEFINE a == BadRequestFirst
             b == BadRequestRefused
             s == Script("badRequest", choice)
  <1>1. IsJoined(s, a, b)
    BY DEF Script, PrepareCheck, PrepareScript, IsJoined
  <1>2. Lasts(a, 6) /\ Lasts(b, 11)
    BY DEF BadRequestFirst, BadRequestRefused, Lasts
  <1>3. /\ Lasts(s, 17)
        /\ \A i \in 1..17 : s[i] = IF i <= 6 THEN a[i] ELSE b[i - 6]
    <2> HIDE DEF a, b, s
    <2> QED
      BY <1>1, <1>2, Joined
  <1> HIDE DEF s
  <1>4. /\ s[1] = a[1] /\ s[2] = a[2] /\ s[3] = a[3] /\ s[4] = a[4] /\ s[5] = a[5] /\ s[6] = a[6]
        /\ s[7] = b[1] /\ s[8] = b[2] /\ s[9] = b[3] /\ s[10] = b[4] /\ s[11] = b[5] /\ s[12] = b[6]
        /\ s[13] = b[7] /\ s[14] = b[8] /\ s[15] = b[9] /\ s[16] = b[10] /\ s[17] = b[11]
    <2> HIDE DEF a, b
    <2> QED
      BY <1>3
  <1>5. /\ s[1] = Must("tenants_add", "tenants_add", AdminAs, [name |-> tBad])
        /\ s[2] = Must("players_add", "players_add", OrganizerOf(tBad), [n |-> PlayerNum])
        /\ s[3] = Step("duplicate_name", "tenants_add", AdminAs, {[name |-> tBad]}, 400, TRUE)
        /\ s[4] = Step("invalid_name", "tenants_add", AdminAs, {[name |-> Admin]}, 400, TRUE)
        /\ s[5] = Refuses("disqualify_nobody", "disqualified", OrganizerOf(tBad), [player |-> 0], 404)
        /\ s[6] = Must("competitions_add", "competitions_add", OrganizerOf(tBad), Nothing)
    BY <1>4 DEF BadRequestFirst
  <1>6. /\ s[7] = Refuses("score_nowhere", "score", OrganizerOf(tBad), NowhereFile, 404)
        /\ s[8] = Refuses("score_nobody", "score", OrganizerOf(tBad), File(<<Line(0, 1)>>), 400)
        /\ s[9] = Refuses("columns_reversed", "score", OrganizerOf(tBad), ReversedFile, 400)
        /\ s[10] = Refuses("column_too_many", "score", OrganizerOf(tBad),
                           WideFile, 400)
    BY <1>4 DEF BadRequestRefused, NowhereFile, ReversedFile, WideFile
  <1>7. /\ s[11] = Refuses("page_of_nobody", "player", As("player", tBad, 1), [player |-> 0], 404)
        /\ s[12] = Refuses("ranking_of_nothing", "ranking", As("player", tBad, 1), Of(0), 404)
        /\ s[13] = Must("disqualified", "disqualified", OrganizerOf(tBad), [player |-> DisqualifiedPlayer])
        /\ s[14] = Refuses("disqualified_reads", "ranking", As("player", tBad, DisqualifiedPlayer),
                   Of(1), 403)
        /\ s[15] = Refuses("finish_nothing", "finish", OrganizerOf(tBad), Of(0), 404)
        /\ s[16] = Must("finish", "finish", OrganizerOf(tBad), Of(1))
        /\ s[17] = Refuses("score_finished", "score", OrganizerOf(tBad), File(<<>>), 400)
    BY <1>4 DEF BadRequestRefused
  <1>8. Len(s) = 17
    BY <1>3, LastsIs
  <1> QED
    BY <1>5, <1>6, <1>7, <1>8, Zenon DEF s

LEMMA RankingSteps ==
  LET s == Script("ranking", choice)
      org == OrganizerOf(tRanking)
      player == As("player", tRanking, 1)
      upload(name, rows) == Must(name, "score", org, File(rows))
  IN  /\ Len(s) = 12
      /\ s[1] = Must("tenants_add", "tenants_add", AdminAs, [name |-> tRanking])
      /\ s[2] = Must("competitions_add", "competitions_add", org, Nothing)
      /\ s[3] = Must("players_add", "players_add", org, [n |-> RankedNum])
      /\ s[4] = upload("upload", Rising(RankedNum, 100))
      /\ s[5] = Should("ranking", "ranking", player, Of(1))
      /\ s[6] = Should("last_page", "ranking", player, [competition |-> 1, after |-> RankedNum - 1])
      /\ s[7] = Should("player", "player", player, [player |-> CheckPlayer])
      /\ s[8] = upload("upload", Falling(RankedNum, 1000))
      /\ s[9] = Should("ranking_reversed", "ranking", player, Of(1))
      /\ s[10] = Should("player_again", "player", player, [player |-> CheckPlayer])
      /\ s[11] = upload("upload_twice", Twice(RankedNum))
      /\ s[12] = Should("ranking_ties", "ranking", player, Of(1))
  <1> DEFINE a == RankingFirst
             b == RankingAgain
             s == Script("ranking", choice)
  <1>1. IsJoined(s, a, b)
    BY DEF Script, PrepareCheck, PrepareScript, IsJoined
  <1>2. Lasts(a, 7) /\ Lasts(b, 5)
    BY DEF RankingFirst, RankingAgain, Lasts
  <1>3. /\ Lasts(s, 12)
        /\ \A i \in 1..12 : s[i] = IF i <= 7 THEN a[i] ELSE b[i - 7]
    <2> HIDE DEF a, b, s
    <2> QED
      BY <1>1, <1>2, Joined
  <1> HIDE DEF s
  <1>4. /\ s[1] = a[1] /\ s[2] = a[2] /\ s[3] = a[3] /\ s[4] = a[4] /\ s[5] = a[5] /\ s[6] = a[6]
        /\ s[7] = a[7] /\ s[8] = b[1] /\ s[9] = b[2] /\ s[10] = b[3] /\ s[11] = b[4] /\ s[12] = b[5]
    <2> HIDE DEF a, b
    <2> QED
      BY <1>3
  <1> QED
    BY <1>3, <1>4, LastsIs DEF RankingFirst, RankingAgain, RankingUpload, Rising, Falling, Twice, s

LEMMA InvalidJwtSteps ==
  LET s == Script("invalidJWT", choice)
      with(token) == [AdminAs EXCEPT !.token = token]
      add(name, token) == Refuses(name, "tenants_add", with(token), [name |-> tJwt], 401)
  IN  /\ Len(s) = 6
      /\ s[1] = add("expired", "expired") /\ s[2] = add("wrong_key", "key")
      /\ s[3] = add("wrong_algorithm", "algorithm")
      /\ s[4] = Must("tenants_add", "tenants_add", AdminAs, [name |-> tJwt])
      /\ s[5] = Refuses("no_tenant", "competitions_add", OrganizerOf(tNone), Nothing, 401)
      /\ s[6] = Refuses("no_player", "player_competitions", As("player", tJwt, 0), Nothing, 401)
  <1>1. Script("invalidJWT", choice) = InvalidJwtScript
    BY DEF Script, PrepareCheck, PrepareScript
  <1>2. Len(InvalidJwtScript) = 6
    BY DEF InvalidJwtScript
  <1> QED
    BY <1>1, <1>2 DEF InvalidJwtScript

LEMMA BillingSteps ==
  LET s == Script("billing", choice)
  IN  /\ Len(s) = 1
      /\ s[1] = Step("dashboard_before", "tenants_billing", AdminAs,
                     {[before |-> id] : id \in (BillingLimit + 2)..InitialTenants}, 200, FALSE)
  <1>1. Script("billing", choice) = BillingScript
    BY DEF Script, PrepareCheck, PrepareScript
  <1> DEFINE x == Step("dashboard_before", "tenants_billing", AdminAs,
                     {[before |-> id] : id \in (BillingLimit + 2)..InitialTenants}, 200, FALSE)
  <1>2. BillingScript = <<x>>
    BY DEF BillingScript
  <1> HIDE DEF x
  <1>3. Len(<<x>>) = 1 /\ <<x>>[1] = x
    OBVIOUS
  <1> QED
    BY <1>1, <1>2, <1>3 DEF x

LEMMA AllApiSteps ==
  LET s == Script("allAPI", choice)
      org == OrganizerOf(tAll)
      player == As("player", tAll, 1)
  IN  /\ Len(s) = 16 /\ GroupStep = 6
      /\ s[1] = Must("players_add", "players_add", org, [n |-> PlayerNum])
      /\ s[2] = Should("players", "players", org, Nothing)
      /\ s[3] = Must("competitions_add", "competitions_add", org, Nothing)
      /\ s[4] = Must("disqualified", "disqualified", org, [player |-> DisqualifiedPlayer])
      /\ s[5] = AllApiUpload
      /\ s[6] = AtOnce
      /\ s[7] = Should("player", "player", player, [player |-> CheckPlayer])
      /\ s[8] = Should("ranking", "ranking", player, Of(1))
      /\ s[9] = Should("ranking_visitor", "ranking", As("player", tAll, NoScorePlayer), Of(1))
      /\ s[10] = Must("finish", "finish", org, Of(1))
      /\ s[11] = Should("final_ranking", "ranking", player, Of(1))
      /\ s[12] = Should("billing", "billing", org, Nothing)
      /\ s[13] = Should("competitions", "player_competitions", player, Nothing)
      /\ s[14] = Should("competitions", "organizer_competitions", org, Nothing)
      /\ s[15] = Should("dashboard", "tenants_billing", AdminAs, Nothing)
      /\ s[16] = [Should("initial_billing", "billing", org, Nothing) EXCEPT
                    !.ask = {[op |-> "billing", as |-> OrganizerOf(id)] : id \in 3..InitialTenants}]
  <1> DEFINE a == AllApiBefore
             b == <<AtOnce>>
             c == AllApiReads
             d == AllApiFinished
             s == Script("allAPI", choice)
  <1>1. s = a \o b \o c \o d
    BY DEF Script, PrepareCheck, PrepareScript, AllApi
  <1>2. Lasts(a, 5) /\ Lasts(b, 1) /\ Lasts(c, 3) /\ Lasts(d, 7)
    <2>1. Lasts(a, 5)
      BY DEF AllApiBefore, Lasts
    <2>2. Lasts(b, 1)
      BY DEF Lasts
    <2>3. Lasts(c, 3)
      BY DEF AllApiReads, Lasts
    <2>4. Lasts(d, 7)
      BY DEF AllApiFinished, Lasts
    <2> QED
      BY <2>1, <2>2, <2>3, <2>4
  <1> DEFINE ab == a \o b
             abc == ab \o c
  <1>3. /\ Lasts(ab, 6)
        /\ \A i \in 1..6 : ab[i] = IF i <= 5 THEN a[i] ELSE b[i - 5]
    <2>1. IsJoined(ab, a, b)
      BY DEF IsJoined
    <2> HIDE DEF a, b, ab
    <2> QED
      BY <1>2, <2>1, Joined
  <1> HIDE DEF ab, a, b, c, d
  <1>4. /\ Lasts(abc, 9)
        /\ \A i \in 1..9 : abc[i] = IF i <= 6 THEN ab[i] ELSE c[i - 6]
    <2>1. IsJoined(abc, ab, c)
      BY DEF IsJoined
    <2> HIDE DEF abc
    <2> QED
      BY <1>2, <1>3, <2>1, Joined
  <1>5. IsJoined(s, abc, d)
    BY <1>1 DEF abc, ab, IsJoined
  <1> HIDE DEF abc, s
  <1>6. /\ Lasts(s, 16)
        /\ \A i \in 1..16 : s[i] = IF i <= 9 THEN abc[i] ELSE d[i - 9]
    BY <1>2, <1>4, <1>5, Joined
  <1>7. /\ s[1] = a[1] /\ s[2] = a[2] /\ s[3] = a[3] /\ s[4] = a[4] /\ s[5] = a[5] /\ s[6] = b[1]
        /\ s[7] = c[1] /\ s[8] = c[2] /\ s[9] = c[3] /\ s[10] = d[1] /\ s[11] = d[2] /\ s[12] = d[3]
        /\ s[13] = d[4] /\ s[14] = d[5] /\ s[15] = d[6] /\ s[16] = d[7]
    <2>1. /\ s[1] = abc[1] /\ s[2] = abc[2] /\ s[3] = abc[3] /\ s[4] = abc[4] /\ s[5] = abc[5] /\ s[6] = abc[6]
          /\ s[7] = abc[7] /\ s[8] = abc[8] /\ s[9] = abc[9] /\ s[10] = d[1] /\ s[11] = d[2] /\ s[12] = d[3]
          /\ s[13] = d[4] /\ s[14] = d[5] /\ s[15] = d[6] /\ s[16] = d[7]
      BY <1>6
    <2>2. /\ abc[1] = ab[1] /\ abc[2] = ab[2] /\ abc[3] = ab[3] /\ abc[4] = ab[4] /\ abc[5] = ab[5]
          /\ abc[6] = ab[6] /\ abc[7] = c[1] /\ abc[8] = c[2] /\ abc[9] = c[3]
      BY <1>4
    <2>3. /\ ab[1] = a[1] /\ ab[2] = a[2] /\ ab[3] = a[3] /\ ab[4] = a[4] /\ ab[5] = a[5] /\ ab[6] = b[1]
      BY <1>3
    <2> QED
      BY <2>1, <2>2, <2>3
  <1>8. GroupStep = 6
    <2>1. Len(AllApiBefore) = 5
      BY <1>2, LastsIs DEF a
    <2> QED
      BY <2>1 DEF GroupStep
  <1>9. /\ s[1] = Must("players_add", "players_add", OrganizerOf(tAll), [n |-> PlayerNum])
        /\ s[2] = Should("players", "players", OrganizerOf(tAll), Nothing)
        /\ s[3] = Must("competitions_add", "competitions_add", OrganizerOf(tAll), Nothing)
        /\ s[4] = Must("disqualified", "disqualified", OrganizerOf(tAll), [player |-> DisqualifiedPlayer])
        /\ s[5] = AllApiUpload
        /\ s[6] = AtOnce
    BY <1>7 DEF AllApiBefore, a, b
  <1>10. /\ s[7] = Should("player", "player", As("player", tAll, 1), [player |-> CheckPlayer])
         /\ s[8] = Should("ranking", "ranking", As("player", tAll, 1), Of(1))
         /\ s[9] = Should("ranking_visitor", "ranking", As("player", tAll, NoScorePlayer), Of(1))
    BY <1>7 DEF AllApiReads, c
  <1>11. /\ s[10] = Must("finish", "finish", OrganizerOf(tAll), Of(1))
         /\ s[11] = Should("final_ranking", "ranking", As("player", tAll, 1), Of(1))
         /\ s[12] = Should("billing", "billing", OrganizerOf(tAll), Nothing)
         /\ s[13] = Should("competitions", "player_competitions", As("player", tAll, 1), Nothing)
         /\ s[14] = Should("competitions", "organizer_competitions", OrganizerOf(tAll), Nothing)
         /\ s[15] = Should("dashboard", "tenants_billing", AdminAs, Nothing)
    BY <1>7 DEF AllApiFinished, d
  <1>12. s[16] = [Should("initial_billing", "billing", OrganizerOf(tAll), Nothing) EXCEPT
                    !.ask = {[op |-> "billing", as |-> OrganizerOf(id)] : id \in 3..InitialTenants}]
    BY <1>7 DEF AllApiFinished, d
  <1> QED
    BY <1>6, <1>8, <1>9, <1>10, <1>11, <1>12, LastsIs DEF s

-----------------------------------------------------------------------------
(* What a check of Prepare has made of its tenant before each of its steps *)

Ground(c) ==
    CASE c = "allAPI" -> tAll [] c = "ranking" -> tRanking [] c = "badRequest" -> tBad
      [] c = "invalidJWT" -> tJwt [] OTHER -> tNone

(* The step that adds the tenant; the first check's is there from the start,   *)
(* and the check of the bills has none.                                        *)
AddStep(c) ==
    IF c \in {"ranking", "badRequest", "billing"} THEN 1 ELSE IF c = "invalidJWT" THEN 4 ELSE 0
Adders == {"ranking", "badRequest", "invalidJWT"}

With(n, D, k) == Holding(n, D, Append(<<>>, k))

AllApiTable(t, i) ==
    LET out == {DisqualifiedPlayer}
        ranks == Rising(PlayerNum - 1, 100)
    IN  /\ i = 1 => t = Holding(0, {}, <<>>)
        /\ i \in {2, 3} => t = Holding(PlayerNum, {}, <<>>)
        /\ i = 4 => t = With(PlayerNum, {}, Open(<<>>, {}))
        /\ i = 5 => t = With(PlayerNum, out, Open(<<>>, {}))
        /\ i \in {6, 7, 8} => t \in {With(PlayerNum, out, Open(ranks, {})), With(PlayerNum, out, Open(ranks, {1}))}
        /\ i = 9 => t = With(PlayerNum, out, Open(ranks, {1}))
        /\ i = 10 => t = With(PlayerNum, out, Open(ranks, {1, PlayerNum}))
        /\ i \in 11..16 => t = With(PlayerNum, out, Closed(ranks, {1, PlayerNum}))

RankingTable(t, i) ==
    /\ i = 2 => t = Holding(0, {}, <<>>)
    /\ i = 3 => t = With(0, {}, Open(<<>>, {}))
    /\ i = 4 => t = With(RankedNum, {}, Open(<<>>, {}))
    /\ i = 5 => t = With(RankedNum, {}, Open(Rising(RankedNum, 100), {}))
    /\ i \in {6, 7, 8} => t = With(RankedNum, {}, Open(Rising(RankedNum, 100), {1}))
    /\ i \in {9, 10, 11} => t = With(RankedNum, {}, Open(Falling(RankedNum, 1000), {1}))
    /\ i = 12 => t = With(RankedNum, {}, Open(Twice(RankedNum), {1}))

BadRequestTable(t, i) ==
    LET out == {DisqualifiedPlayer}
    IN  /\ i = 2 => t = Holding(0, {}, <<>>)
        /\ i \in 3..6 => t = Holding(PlayerNum, {}, <<>>)
        /\ i \in 7..13 => t = With(PlayerNum, {}, Open(<<>>, {}))
        /\ i \in 14..16 => t = With(PlayerNum, out, Open(<<>>, {}))
        /\ i = 17 => t = With(PlayerNum, out, Closed(<<>>, {}))

InvalidJwtTable(t, i) == i \in {5, 6} => t = Holding(0, {}, <<>>)

(* What a check keeps is of the first only. *)
TableIs(c, t, i, m) ==
    /\ c = "allAPI" => AllApiTable(t, i) /\ (i >= 6 => m = PlayerNum - 1)
    /\ c = "ranking" => RankingTable(t, i)
    /\ c = "badRequest" => BadRequestTable(t, i)
    /\ c = "invalidJWT" => InvalidJwtTable(t, i)

(* Its step i is answered as it must be, and leaves the table of the next. *)
Passes(c, i, t, known, m) ==
    \E q :
        LET s == Script(c, choice)[i]
            r == Answer(t, q, known)
        IN  /\ s.ask = {q} /\ Proper(q, Ground(c))
            /\ Fits(c, s, q, r.answer, m, initial.billing)
            /\ TableIs(c, r.tenant, i + 1,
                       IF Remembered(c, s) /\ r.answer.status = 200 THEN r.answer.data ELSE m)

TableOf(name) == TenantOf(initial.tenant, tenants, name)
Known == InitialId \cup DOMAIN tenants

(* A step of a check that touches one tenant. *)
TouchesOnly(g) ==
    /\ DOMAIN tenants \subseteq DOMAIN tenants' /\ DOMAIN tenants' \subseteq DOMAIN tenants \cup {g}
    /\ \A n \in DOMAIN tenants : n # g => tenants'[n] = tenants[n]

LEMMA GroundIs ==
  /\ Ground("allAPI") = tAll /\ Ground("ranking") = tRanking /\ Ground("badRequest") = tBad
  /\ Ground("invalidJWT") = tJwt /\ Ground("billing") = tNone
  BY DEF Ground

LEMMA OneRequest ==
  ASSUME NEW c, Works(c), ~expired, c \notin adding, NEW q, Now(c).ask = {q},
         q.op \in OrganizerApi \cup PlayerApi
  PROVE  /\ Running(c) /\ ~InTheGroup(c)
         /\ Receive(c, Now(c), q, Contestant(q).answer)
         /\ tenants' = Updated(q.as.tenant, Contestant(q).tenant)
         /\ Remembers(c, Contestant(q).answer)
         /\ UNCHANGED <<settings, main, adding, group, expired>>
  <1>1. q.op \notin AdminApi
    BY DEF OrganizerApi, PlayerApi, AdminApi
  <1>2. ~AsksPage(c) /\ ~AddsTenant(c)
    BY <1>1 DEF AsksPage, AddsTenant, AdminApi
  <1>3. ~AddsFile(c) /\ ~Canceled(c)
    BY DEF AddsFile, Canceled
  <1>4. Asks(c)
    BY <1>2, <1>3 DEF Works
  <1> QED
    BY <1>4 DEF Asks

LEMMA UpdatedIs ==
  ASSUME NEW g, g \in Known, NEW u, tenants' = Updated(g, u), UNCHANGED initial
  PROVE  TouchesOnly(g) /\ TableOf(g)' = u
  <1>1. CASE u = TableOf(g)
    <2>1. tenants' = tenants
      BY <1>1 DEF Updated, TableOf
    <2> QED
      BY <1>1, <2>1 DEF TouchesOnly, TableOf
  <1>2. CASE u # TableOf(g)
    <2>1. tenants' = Put(tenants, g, u)
      BY <1>2 DEF Updated, TableOf, Known
    <2> QED
      BY <2>1 DEF TouchesOnly, TableOf, TenantOf, Put
  <1> QED
    BY <1>1, <1>2

(* One of several requests is sent. *)
LEMMA ARequest ==
  ASSUME NEW c, Works(c), ~expired, c \notin adding, \A q \in Now(c).ask : q.op \in OrganizerApi \cup PlayerApi
  PROVE  /\ Running(c) /\ UNCHANGED <<settings, main, adding, group, expired>>
         /\ \E q \in Now(c).ask :
               /\ Receive(c, Now(c), q, Contestant(q).answer)
               /\ tenants' = Updated(q.as.tenant, Contestant(q).tenant)
               /\ Remembers(c, Contestant(q).answer)
  <1>1. \A q \in Now(c).ask : q.op \notin AdminApi
    BY DEF OrganizerApi, PlayerApi, AdminApi
  <1>2. ~AsksPage(c) /\ ~AddsTenant(c)
    BY <1>1 DEF AsksPage, AddsTenant, AdminApi
  <1>3. ~AddsFile(c) /\ ~Canceled(c)
    BY DEF AddsFile, Canceled
  <1>4. Asks(c)
    BY <1>2, <1>3 DEF Works
  <1> QED
    BY <1>4 DEF Asks

(* A request is answered as the check wants it, whichever it is. *)
LEMMA OneAnswered ==
  ASSUME server = "as_written", NEW c, Works(c), ~expired, c \notin adding, NEW g, g \in Known,
         TableOf(g) \in TenantSet, NEW s, s = Now(c),
         \A q \in s.ask : /\ Proper(q, g)
                          /\ Fits(c, s, q, Answer(TableOf(g), q, Known).answer, memory[c], initial.billing),
         memory \in [Check -> {memory[d] : d \in Check}], c \in Check
  PROVE  /\ Running(c) /\ GoOn(c) /\ UNCHANGED <<settings, main, adding, group, errors, expired>>
         /\ TouchesOnly(g) /\ TableOf(g)' \in TenantSet
         /\ \E q \in s.ask :
               LET r == Answer(TableOf(g), q, Known)
               IN  /\ TableOf(g)' = r.tenant
                   /\ memory'[c] = IF Remembered(c, s) /\ r.answer.status = 200 THEN r.answer.data ELSE memory[c]
         /\ \E m : memory' = [memory EXCEPT ![c] = m]
  <1>1. \A q \in Now(c).ask : q.op \in OrganizerApi \cup PlayerApi
    BY DEF Proper
  <1>2. Running(c) /\ UNCHANGED <<settings, main, adding, group, expired>>
    BY <1>1, ARequest
  <1>3. PICK q \in s.ask : /\ Receive(c, s, q, Contestant(q).answer)
                           /\ tenants' = Updated(q.as.tenant, Contestant(q).tenant)
                           /\ Remembers(c, Contestant(q).answer)
    BY <1>1, ARequest
  <1> DEFINE r == Answer(TableOf(g), q, Known)
  <1>4. /\ q.as.tenant = g /\ HasParameters(q, Lines, Nat) /\ q.op \in OrganizerApi \cup PlayerApi
        /\ (q.op = "score" => [q EXCEPT !.rows = q.rows] = q)
    BY DEF Proper
  <1>5. Contestant(q) = r
    BY <1>4, AsWrittenServer DEF TableOf, Known
  <1>6. Fits(c, s, q, r.answer, memory[c], initial.billing)
    OBVIOUS
  <1>7. r.tenant \in TenantSet
    BY <1>4, TenantKept
  <1> HIDE DEF r
  <1>8. GoOn(c) /\ UNCHANGED errors
    BY <1>3, <1>5, <1>6 DEF Receive
  <1>9. TouchesOnly(g) /\ TableOf(g)' = r.tenant
    BY <1>2, <1>3, <1>4, <1>5, UpdatedIs DEF settings
  <1>10. /\ memory'[c] = IF Remembered(c, s) /\ r.answer.status = 200 THEN r.answer.data ELSE memory[c]
         /\ \E m : memory' = [memory EXCEPT ![c] = m]
    <2>1. memory' = IF Remembered(c, s) /\ r.answer.status = 200 THEN [memory EXCEPT ![c] = r.answer.data]
                    ELSE memory
      BY <1>3, <1>5 DEF Remembers
    <2>2. memory = [memory EXCEPT ![c] = memory[c]]
      OBVIOUS
    <2>3. CASE Remembered(c, s) /\ r.answer.status = 200
      <3>1. memory' = [memory EXCEPT ![c] = r.answer.data]
        BY <2>1, <2>3
      <3>2. memory'[c] = r.answer.data
        BY <3>1
      <3> QED
        BY <2>3, <3>1, <3>2
    <2>4. CASE ~(Remembered(c, s) /\ r.answer.status = 200)
      BY <2>1, <2>2, <2>4
    <2> QED
      BY <2>3, <2>4
  <1> QED
    BY <1>2, <1>7, <1>8, <1>9, <1>10 DEF r

LEMMA StepPasses ==
  ASSUME server = "as_written", NEW c, Works(c), ~expired, c \notin adding, Ground(c) \in Known,
         TableOf(Ground(c)) \in TenantSet,
         Passes(c, at[c], TableOf(Ground(c)), Known, memory[c]),
         memory \in [Check -> {memory[d] : d \in Check}], c \in Check
  PROVE  /\ Running(c) /\ GoOn(c) /\ UNCHANGED <<settings, main, adding, group, errors, expired>>
         /\ TouchesOnly(Ground(c)) /\ TableOf(Ground(c))' \in TenantSet
         /\ TableIs(c, TableOf(Ground(c))', at[c] + 1, memory'[c])
         /\ \E m : memory' = [memory EXCEPT ![c] = m]
  <1> DEFINE g == Ground(c)
             s == Now(c)
  <1>1. PICK q : LET r == Answer(TableOf(g), q, Known)
                 IN  /\ s.ask = {q} /\ Proper(q, g)
                     /\ Fits(c, s, q, r.answer, memory[c], initial.billing)
                     /\ TableIs(c, r.tenant, at[c] + 1,
                          IF Remembered(c, s) /\ r.answer.status = 200 THEN r.answer.data ELSE memory[c])
    BY DEF Passes, Now
  <1> DEFINE r == Answer(TableOf(g), q, Known)
  <1> HIDE DEF g, s, r
  <1>2. /\ Running(c) /\ GoOn(c) /\ UNCHANGED <<settings, main, adding, group, errors, expired>>
        /\ TouchesOnly(g) /\ TableOf(g)' = r.tenant /\ TableOf(g)' \in TenantSet
        /\ memory'[c] = IF Remembered(c, s) /\ r.answer.status = 200 THEN r.answer.data ELSE memory[c]
        /\ \E m : memory' = [memory EXCEPT ![c] = m]
    <2>1. s = Now(c) /\ g \in Known /\ TableOf(g) \in TenantSet
      BY DEF s, g
    <2>2. \A p \in s.ask : /\ Proper(p, g)
                           /\ Fits(c, s, p, Answer(TableOf(g), p, Known).answer, memory[c], initial.billing)
      BY <1>1 DEF r
    <2>3. /\ Running(c) /\ GoOn(c) /\ UNCHANGED <<settings, main, adding, group, errors, expired>>
          /\ TouchesOnly(g) /\ TableOf(g)' \in TenantSet
          /\ \E p \in s.ask :
                LET a == Answer(TableOf(g), p, Known)
                IN  /\ TableOf(g)' = a.tenant
                    /\ memory'[c] = IF Remembered(c, s) /\ a.answer.status = 200 THEN a.answer.data ELSE memory[c]
          /\ \E m : memory' = [memory EXCEPT ![c] = m]
      BY <2>1, <2>2, OneAnswered
    <2>4. \A p \in s.ask : p = q
      BY <1>1
    <2> QED
      BY <2>3, <2>4 DEF r
  <1> QED
    BY <1>1, <1>2 DEF g, r

LEMMA MustIs ==
  ASSUME NEW name, NEW op, NEW as, NEW p
  PROVE  /\ Must(name, op, as, p).name = name /\ Must(name, op, as, p).status = 200
         /\ Must(name, op, as, p).ask = {Request(op, as, p)}
  BY DEF Must, Step

LEMMA ShouldIs ==
  ASSUME NEW name, NEW op, NEW as, NEW p
  PROVE  /\ Should(name, op, as, p).name = name /\ Should(name, op, as, p).status = 200
         /\ Should(name, op, as, p).ask = {Request(op, as, p)}
  BY DEF Should, Step

LEMMA RefusesIs ==
  ASSUME NEW name, NEW op, NEW as, NEW p, NEW status
  PROVE  /\ Refuses(name, op, as, p, status).name = name /\ Refuses(name, op, as, p, status).status = status
         /\ Refuses(name, op, as, p, status).ask = {Request(op, as, p)}
  BY DEF Refuses, Step

LEMMA AnswerIs ==
  ASSUME NEW u, NEW d, NEW x
  PROVE  /\ Done(u, d).tenant = u /\ Done(u, d).answer.status = 200 /\ Done(u, d).answer.data = d
         /\ Refused(u, x).tenant = u /\ Refused(u, x).answer.status = x
  BY DEF Done, Refused

LEMMA RefusalPasses ==
  ASSUME NEW c, NEW i, NEW t, NEW known, NEW m, NEW q, NEW s, Script(c, choice)[i] = s,
         s.ask = {q}, Proper(q, Ground(c)), s.status # 200, Answer(t, q, known) = Refused(t, s.status),
         TableIs(c, t, i + 1, m)
  PROVE  Passes(c, i, t, known, m)
  <1>1. Fits(c, s, q, Answer(t, q, known).answer, m, initial.billing)
    BY AnswerIs DEF Fits
  <1> QED
    BY <1>1, AnswerIs DEF Passes

LEMMA SuccessPasses ==
  ASSUME NEW c, NEW i, NEW t, NEW known, NEW m, NEW q, NEW s, Script(c, choice)[i] = s,
         s.ask = {q}, Proper(q, Ground(c)), NEW u, NEW d, Answer(t, q, known) = Done(u, d),
         Fits(c, s, q, Done(u, d).answer, m, initial.billing),
         TableIs(c, u, i + 1, IF Remembered(c, s) THEN d ELSE m)
  PROVE  Passes(c, i, t, known, m)
  BY AnswerIs DEF Passes

(* The page of a ranking, of whatever the rows are. *)
RanksOf(rows, S, n) == n \in Nat /\ Standings(rows) \in Seq(S) /\ Len(Standings(rows)) = n
IsPageOf(page, rows, after, m) ==
    /\ m \in Nat /\ Len(page) = m /\ DOMAIN page = 1..m
    /\ \A k \in 1..m : page[k] = Standings(rows)[after + k]
PageLength(after, n, m) ==
    after \in Nat /\ after <= n /\ m = IF after + RankLimit < n THEN RankLimit ELSE n - after

LEMMA PageIs ==
  ASSUME NEW S, NEW rows, NEW n, RanksOf(rows, S, n), NEW after, NEW m, PageLength(after, n, m)
  PROVE  IsPageOf(PageOf(rows, after), rows, after, m)
  <1> DEFINE st == Standings(rows)
             last == IF after + RankLimit < n THEN after + RankLimit ELSE n
             page == SubSeq(st, after + 1, last)
  <1>0. /\ n \in Nat /\ Standings(rows) \in Seq(S) /\ Len(Standings(rows)) = n
        /\ after \in Nat /\ after <= n /\ m = IF after + RankLimit < n THEN RankLimit ELSE n - after
    BY DEF RanksOf, PageLength
  <1>1. PageOf(rows, after) = page
    BY <1>0 DEF PageOf
  <1>2. RankLimit \in Nat
    BY ServiceAssumption
  <1>3. last \in after..n /\ last - after = m /\ m \in Nat
    BY <1>0, <1>2
  <1> HIDE DEF last
  <1>4. st \in Seq(S) /\ Len(st) = n
    BY <1>0
  <1> HIDE DEF st
  <1>5. page \in Seq(S) /\ Len(page) = m /\ \A k \in 1..m : page[k] = st[after + k]
    <2>1. after + 1 \in Int /\ last \in Int /\ \A i \in (after + 1)..last : st[i] \in S
      <3>1. \A i \in 1..n : st[i] \in S
        BY <1>0, <1>4, ElementOfSeq
      <3> QED
        BY <1>0, <1>3, <3>1
    <2>2. /\ page \in Seq(S)
          /\ Len(page) = IF after + 1 <= last THEN last - (after + 1) + 1 ELSE 0
          /\ \A k \in 1..(last - (after + 1) + 1) : page[k] = st[(after + 1) + k - 1]
      BY <2>1, SubSeqProperties
    <2>3. Len(page) = m /\ last - (after + 1) + 1 = m
      BY <1>0, <1>3, <2>2
    <2>4. ASSUME NEW k \in 1..m PROVE page[k] = st[after + k]
      <3>1. (after + 1) + k - 1 = after + k
        BY <1>0, <1>3
      <3> QED
        BY <2>2, <2>3, <3>1
    <2> QED
      BY <2>2, <2>3, <2>4
  <1>6. DOMAIN page = 1..m
    BY <1>5, LenProperties
  <1> HIDE DEF page
  <1> QED
    BY <1>1, <1>3, <1>5, <1>6 DEF st, IsPageOf

LEMMA PageOfOne ==
  ASSUME NEW p, NEW b \in BOOLEAN, ~b, NEW x
  PROVE  Page(p, b, x) = Page(p, FALSE, x)
  <1>1. b = FALSE
    BY Zenon
  <1> QED
    BY <1>1, Zenon

(* One line of a player is the player's best. *)
LEMMA ScoreOfOne ==
  ASSUME NEW k \in CompetitionSet, NEW n \in Nat, NEW p \in 1..n, NEW x, LastRows(k.rows) = 1..n,
         \A i \in 1..n : k.rows[i].player = i, k.rows[p].score = x
  PROVE  ScoresOf(Append(<<>>, k), p) = <<{x}>>
  <1> DEFINE cs == Append(<<>>, k)
             scores == {k.rows[i].score : i \in {j \in LastRows(k.rows) : k.rows[j].player = p}}
  <1>1. cs = <<k>> /\ DOMAIN cs = {1} /\ cs[1] = k
    OBVIOUS
  <1>2. scores = {x}
    <2>1. \A j \in LastRows(k.rows) : k.rows[j].player = p <=> j = p
      OBVIOUS
    <2>2. p \in LastRows(k.rows)
      OBVIOUS
    <2> QED
      BY <2>1, <2>2
  <1>3. ScoresOf(cs, p) = [c \in {1} |-> scores]
    <2> HIDE DEF cs
    <2> QED
      BY <1>1 DEF ScoresOf
  <1> HIDE DEF scores, cs
  <1>4. [c \in {1} |-> scores] = <<scores>>
    OBVIOUS
  <1> QED
    BY <1>2, <1>3, <1>4 DEF cs

LEMMA ParametersAre ==
  ASSUME NEW rows, NEW k, NEW n, NEW p
  PROVE  /\ {"competition", "rows", "header", "columns"} \subseteq DOMAIN File(rows)
         /\ File(rows).competition = 1 /\ File(rows).rows = rows /\ File(rows).header /\ File(rows).columns = 2
         /\ {"competition", "after"} \subseteq DOMAIN Of(k) /\ Of(k).competition = k /\ Of(k).after = 0
         /\ "n" \in DOMAIN [n |-> n] /\ [n |-> n].n = n
         /\ "player" \in DOMAIN [player |-> p] /\ [player |-> p].player = p
  BY DEF File, Of

LEMMA Ground1 ==
  /\ <<>> \in Seq(CompetitionSet) /\ Len(<<>>) = 0 /\ <<>> \in Seq(Lines)
  /\ Admin \notin {tAll, tRanking, tBad, tJwt, tBill, tNone}
  /\ RankLimit \in Nat \ {0} /\ RankedNum = RankLimit + 1 /\ RankedNum \in Nat
  /\ PlayerNum \in Nat /\ PlayerNum >= 4 /\ PlayerNum <= RankedNum
  /\ CheckPlayer \in 2..(PlayerNum - 2) /\ CheckPlayer < RankedNum
  /\ DisqualifiedPlayer = PlayerNum - 1 /\ NoScorePlayer = PlayerNum
  <1>1. Admin \notin {tAll, tRanking, tBad, tJwt, tBill, tNone}
    BY ServiceAssumption, ChecksAssumption
  <1>2. <<>> \in Seq(CompetitionSet) /\ Len(<<>>) = 0 /\ <<>> \in Seq(Lines)
    BY EmptySeq
  <1> QED
    BY <1>1, <1>2, ServiceAssumption, ChecksAssumption DEF RankedNum, DisqualifiedPlayer, NoScorePlayer

(* The rows and the visitors of a competition. *)
Kept(R, V) == R \in Seq(Lines) /\ V \in SUBSET Nat

LEMMA AskFirst ==
  ASSUME NEW known, NEW g \in known, g # Admin, NEW n, NEW D, NEW p
  PROVE  LET q == Request("competitions_add", OrganizerOf(g), p)
         IN  /\ Proper(q, g)
             /\ Answer(Holding(n, D, <<>>), q, known) = Done(With(n, D, Open(<<>>, {})), 1)
  <1> DEFINE q == Request("competitions_add", OrganizerOf(g), p)
             cs == <<>>
  <1>1. Len(cs) + 1 = 1
    OBVIOUS
  <1>2. With(n, D, Open(<<>>, {})) = Holding(n, D, Append(cs, Open(<<>>, {})))
    BY DEF With
  <1> HIDE DEF cs
  <1>3. Proper(q, g) /\ Answer(Holding(n, D, cs), q, known) = Done(Holding(n, D, Append(cs, Open(<<>>, {}))), Len(cs) + 1)
    BY AskCompetition
  <1>4. Proper(q, g) /\ Answer(Holding(n, D, cs), q, known) = Done(With(n, D, Open(<<>>, {})), 1)
    BY <1>1, <1>2, <1>3
  <1> QED
    BY <1>4 DEF cs

LEMMA AskFinishWith ==
  ASSUME NEW known, NEW g \in known, g # Admin, NEW n, NEW D, NEW R, NEW V, Kept(R, V)
  PROVE  LET q == Request("finish", OrganizerOf(g), Of(1))
         IN  /\ Proper(q, g)
             /\ Answer(With(n, D, Open(R, V)), q, known) = Done(With(n, D, Closed(R, V)), {})
  <1> DEFINE c0 == <<>>
             p == Of(1)
  <1>0. R \in Seq(Lines) /\ V \in SUBSET Nat
    BY DEF Kept
  <1>1. c0 \in Seq(CompetitionSet) /\ IsNext(1, c0)
    BY Ground1 DEF IsNext
  <1>2. \A k : With(n, D, k) = Holding(n, D, Append(c0, k))
    BY DEF With
  <1> HIDE DEF c0
  <1>3. "competition" \in DOMAIN p /\ IsNext(p.competition, c0)
    BY <1>1, ParametersAre
  <1> HIDE DEF p
  <1>4. /\ Proper(Request("finish", OrganizerOf(g), p), g)
        /\ Answer(Holding(n, D, Append(c0, Open(R, V))), Request("finish", OrganizerOf(g), p), known)
              = Done(Holding(n, D, Append(c0, Closed(R, V))), {})
    BY <1>1, <1>3, <1>0, AskFinish
  <1> QED
    BY <1>2, <1>4 DEF p

IsReading(p) == {"competition", "after"} \subseteq DOMAIN p /\ p.competition = 1

LEMMA AskRankingWith ==
  ASSUME NEW known, NEW g \in known, g # Admin, NEW n, NEW D, NEW R, NEW V, Kept(R, V),
         NEW r \in Nat, Reader(r, n, D), NEW p,
         IsReading(p)
  PROVE  LET q == Request("ranking", As("player", g, r), p)
         IN  /\ Proper(q, g)
             /\ Answer(With(n, D, Open(R, V)), q, known)
                     = Done(With(n, D, Open(R, V \cup {r})), PageOf(R, p.after))
  <1> DEFINE c0 == <<>>
             q == Request("ranking", As("player", g, r), p)
  <1>0. R \in Seq(Lines) /\ V \in SUBSET Nat
    BY DEF Kept
  <1>1. c0 \in Seq(CompetitionSet) /\ Reading(p, c0)
    BY Ground1 DEF IsNext, IsReading, Reading
  <1>2. \A k : With(n, D, k) = Holding(n, D, Append(c0, k))
    BY DEF With
  <1> HIDE DEF c0
  <1>3. /\ Proper(q, g)
        /\ Answer(Holding(n, D, Append(c0, Open(R, V))), q, known)
                = Done(Holding(n, D, Append(c0, Open(R, V \cup {r}))), PageOf(R, p.after))
    BY <1>1, <1>0, AskRanking
  <1> QED
    BY <1>2, <1>3

LEMMA AskRankingClosedWith ==
  ASSUME NEW known, NEW g \in known, g # Admin, NEW n, NEW D, NEW R, NEW V, Kept(R, V),
         NEW r \in Nat, Reader(r, n, D), r \in V, NEW p,
         IsReading(p)
  PROVE  LET q == Request("ranking", As("player", g, r), p)
         IN  /\ Proper(q, g)
             /\ Answer(With(n, D, Closed(R, V)), q, known) = Done(With(n, D, Closed(R, V)), PageOf(R, p.after))
  <1> DEFINE c0 == <<>>
             q == Request("ranking", As("player", g, r), p)
  <1>0. R \in Seq(Lines) /\ V \in SUBSET Nat
    BY DEF Kept
  <1>1. c0 \in Seq(CompetitionSet) /\ Reading(p, c0)
    BY Ground1 DEF IsNext, IsReading, Reading
  <1>2. \A k : With(n, D, k) = Holding(n, D, Append(c0, k))
    BY DEF With
  <1> HIDE DEF c0
  <1>3. /\ Proper(q, g)
        /\ Answer(Holding(n, D, Append(c0, Closed(R, V))), q, known)
                 = Done(Holding(n, D, Append(c0, Closed(R, V))), PageOf(R, p.after))
    BY <1>1, <1>0, AskRankingClosed
  <1> QED
    BY <1>2, <1>3

(* The files that are sent to it. *)
Sent(rows, n, m) == rows \in Seq(Lines) /\ Len(rows) = m /\ \A j \in DOMAIN rows : rows[j].player \in 1..n

LEMMA FilesAre ==
  ASSUME NEW n \in Nat
  PROVE  Sent(Rising(n, 100), n, n) /\ Sent(Falling(n, 1000), n, n) /\ Sent(Twice(n), n, 2 * n)
  <1>1. ASSUME NEW a \in Nat PROVE Sent(Rising(n, a), n, n)
    BY RisingStandings DEF Sent
  <1>2. ASSUME NEW a \in Nat PROVE Sent(Falling(n, a), n, n)
    BY FallingStandings DEF Sent
  <1>3. Sent(Twice(n), n, 2 * n)
    BY TwiceStandings DEF Sent
  <1> QED
    BY <1>1, <1>2, <1>3

(* Of one competition. *)
LEMMA AskScoreWith ==
  ASSUME NEW known, NEW g \in known, g # Admin, NEW n, NEW D, NEW R, NEW V, Kept(R, V),
         NEW rows, NEW m, Sent(rows, n, m)
  PROVE  LET q == Request("score", OrganizerOf(g), File(rows))
         IN  /\ Proper(q, g)
             /\ Answer(With(n, D, Open(R, V)), q, known) = Done(With(n, D, Open(rows, V)), m)
  <1> DEFINE c0 == <<>>
             p == File(rows)
  <1>0. R \in Seq(Lines) /\ V \in SUBSET Nat
    BY DEF Kept
  <1>1. c0 \in Seq(CompetitionSet) /\ IsNext(1, c0)
    BY Ground1 DEF IsNext
  <1>2. \A k : With(n, D, k) = Holding(n, D, Append(c0, k))
    BY DEF With
  <1> HIDE DEF c0
  <1>3. /\ {"competition", "rows", "header", "columns"} \subseteq DOMAIN p /\ p.rows = rows
        /\ IsNext(p.competition, c0) /\ p.header /\ p.columns = 2
    BY <1>1, ParametersAre
  <1> HIDE DEF p
  <1>4. /\ Proper(Request("score", OrganizerOf(g), p), g)
        /\ Answer(Holding(n, D, Append(c0, Open(R, V))), Request("score", OrganizerOf(g), p), known)
              = Done(Holding(n, D, Append(c0, Open(rows, V))), m)
    <2>1. p.rows \in Seq(Lines) /\ Len(p.rows) = m /\ \A i \in DOMAIN p.rows : p.rows[i].player \in 1..n
      BY <1>3 DEF Sent
    <2>2. /\ Proper(Request("score", OrganizerOf(g), p), g)
          /\ Answer(Holding(n, D, Append(c0, Open(R, V))), Request("score", OrganizerOf(g), p), known)
              = Done(Holding(n, D, Append(c0, Open(p.rows, V))), Len(p.rows))
      <3>1. IsUpload(p, c0, n)
        BY <1>1, <1>3, <2>1 DEF IsUpload
      <3> QED
        BY <1>1, <1>0, <3>1, AskScore
    <2> QED
      BY <1>3, <2>1, <2>2
  <1> QED
    BY <1>2, <1>4 DEF p

LEMMA CountIs ==
  ASSUME NEW n \in Nat
  PROVE  Cardinality((0 + 1)..(0 + n)) = n /\ 0 + n = n
  BY FS_Interval

-----------------------------------------------------------------------------
(* The check of the ranking *)

LEMMA RankingSucceeds ==
  ASSUME NEW i, NEW t, NEW known, NEW m, NEW q, NEW s, Script("ranking", choice)[i] = s,
         s.ask = {q}, s.status = 200, Proper(q, tRanking), NEW u, NEW d, Answer(t, q, known) = Done(u, d),
         RankingFits(s.name, d), RankingTable(u, i + 1)
  PROVE  Passes("ranking", i, t, known, m)
  <1>1. Fits("ranking", s, q, Done(u, d).answer, m, initial.billing)
    BY AnswerIs DEF Fits
  <1>2. \A x : TableIs("ranking", u, i + 1, x)
    BY DEF TableIs
  <1> QED
    BY <1>1, <1>2, GroundIs, SuccessPasses

LEMMA RankingPrepares ==
  ASSUME NEW known, tRanking \in known, NEW i \in 2..4, NEW t, RankingTable(t, i), NEW m
  PROVE  Passes("ranking", i, t, known, m)
  <1> DEFINE org == OrganizerOf(tRanking)
  <1>1. CASE i = 2
    <2>1. t = Holding(0, {}, <<>>)
      BY <1>1 DEF RankingTable
    <2> DEFINE s == Must("competitions_add", "competitions_add", org, Nothing)
               q == Request("competitions_add", org, Nothing)
               u == With(0, {}, Open(<<>>, {}))
    <2>2. Script("ranking", choice)[i] = s /\ s.ask = {q} /\ s.status = 200 /\ s.name = "competitions_add"
      BY <1>1, RankingSteps, MustIs
    <2>3. Proper(q, tRanking) /\ Answer(t, q, known) = Done(u, 1)
      BY <2>1, Ground1, AskFirst
    <2>4. RankingTable(u, i + 1)
      BY <1>1 DEF RankingTable
    <2> HIDE DEF s, q, u
    <2>5. RankingFits(s.name, 1)
      BY <2>2 DEF RankingFits
    <2> QED
      BY <2>2, <2>3, <2>4, <2>5, RankingSucceeds
  <1>2. CASE i = 3
    <2>1. t = With(0, {}, Open(<<>>, {}))
      BY <1>2 DEF RankingTable
    <2> DEFINE p == [n |-> RankedNum]
               s == Must("players_add", "players_add", org, p)
               q == Request("players_add", org, p)
               u == With(RankedNum, {}, Open(<<>>, {}))
               d == (0 + 1)..(0 + RankedNum)
    <2>2. Script("ranking", choice)[i] = s /\ s.ask = {q} /\ s.status = 200 /\ s.name = "players_add"
      BY <1>2, RankingSteps, MustIs
    <2>3. Proper(q, tRanking) /\ Answer(t, q, known) = Done(u, d)
      <3>1. "n" \in DOMAIN p /\ p.n = RankedNum
        OBVIOUS
      <3> HIDE DEF p
      <3> QED
        BY <2>1, <3>1, Ground1, CountIs, AskPlayersAdd DEF With
    <2>4. RankingTable(u, i + 1)
      BY <1>2 DEF RankingTable
    <2> HIDE DEF s, q, u, d
    <2>5. RankingFits(s.name, d)
      BY <2>2, Ground1, CountIs DEF RankingFits, d
    <2> QED
      BY <2>2, <2>3, <2>4, <2>5, RankingSucceeds
  <1>3. CASE i = 4
    <2>1. t = With(RankedNum, {}, Open(<<>>, {}))
      BY <1>3 DEF RankingTable
    <2> DEFINE rows == Rising(RankedNum, 100)
               p == File(rows)
               s == Must("upload", "score", org, p)
               q == Request("score", org, p)
               u == With(RankedNum, {}, Open(rows, {}))
    <2>2. Script("ranking", choice)[i] = s /\ s.ask = {q} /\ s.status = 200 /\ s.name = "upload"
      BY <1>3, RankingSteps, MustIs
    <2>3. Sent(rows, RankedNum, RankedNum)
      BY Ground1, FilesAre
    <2> HIDE DEF rows
    <2>4. Proper(q, tRanking) /\ Answer(t, q, known) = Done(u, RankedNum)
      <3>1. Kept(<<>>, {}) /\ tRanking # Admin
        BY Ground1 DEF Kept
      <3> QED
        BY <2>1, <2>3, <3>1, AskScoreWith
    <2>5. RankingTable(u, i + 1)
      BY <1>3 DEF RankingTable, rows
    <2> HIDE DEF s, q, u
    <2>6. RankingFits(s.name, RankedNum)
      BY <2>2 DEF RankingFits
    <2> QED
      BY <2>2, <2>4, <2>5, <2>6, RankingSucceeds
  <1> QED
    BY <1>1, <1>2, <1>3

LEMMA RankingReads ==
  ASSUME NEW known, tRanking \in known, NEW i, NEW m, NEW rows, NEW V, Kept(rows, V),
         NEW p, IsReading(p), NEW name,
         Script("ranking", choice)[i] = Should(name, "ranking", As("player", tRanking, 1), p),
         RankingFits(name, PageOf(rows, p.after)),
         RankingTable(With(RankedNum, {}, Open(rows, V \cup {1})), i + 1)
  PROVE  Passes("ranking", i, With(RankedNum, {}, Open(rows, V)), known, m)
  <1> DEFINE s == Should(name, "ranking", As("player", tRanking, 1), p)
             q == Request("ranking", As("player", tRanking, 1), p)
             u == With(RankedNum, {}, Open(rows, V \cup {1}))
  <1>1. s.ask = {q} /\ s.status = 200 /\ s.name = name
    BY ShouldIs
  <1>2. tRanking # Admin /\ Reader(1, RankedNum, {})
    BY Ground1 DEF Reader
  <1>3. Proper(q, tRanking)
    BY <1>2, AskRankingWith
  <1>4. Answer(With(RankedNum, {}, Open(rows, V)), q, known) = Done(u, PageOf(rows, p.after))
    BY <1>2, AskRankingWith
  <1> HIDE DEF q, u, s
  <1> QED
    BY <1>1, <1>3, <1>4, RankingSucceeds DEF u, s

LEMMA RankingReadsPage ==
  ASSUME NEW known, tRanking \in known, NEW i, NEW m, NEW k, NEW name,
         Script("ranking", choice)[i] = Should(name, "player", As("player", tRanking, 1), [player |-> CheckPlayer]),
         RankingFits(name, Page(CheckPlayer, FALSE, ScoresOf(Append(<<>>, k), CheckPlayer))),
         RankingTable(With(RankedNum, {}, k), i + 1)
  PROVE  Passes("ranking", i, With(RankedNum, {}, k), known, m)
  <1> DEFINE p == [player |-> CheckPlayer]
             s == Should(name, "player", As("player", tRanking, 1), p)
             q == Request("player", As("player", tRanking, 1), p)
             u == With(RankedNum, {}, k)
             cs == Append(<<>>, k)
             d == Page(CheckPlayer, FALSE, ScoresOf(cs, CheckPlayer))
  <1>1. s.ask = {q} /\ s.status = 200 /\ s.name = name
    BY ShouldIs
  <1>2. tRanking # Admin /\ Reader(1, RankedNum, {}) /\ CheckPlayer \in 1..RankedNum
    BY Ground1 DEF Reader
  <1>3. About(p) /\ p.player = CheckPlayer
    BY DEF About
  <1>4. u = Holding(RankedNum, {}, cs)
    BY DEF With
  <1> HIDE DEF p, cs
  <1>5. /\ Proper(q, tRanking)
        /\ Answer(Holding(RankedNum, {}, cs), q, known)
              = Done(Holding(RankedNum, {}, cs), Page(CheckPlayer, CheckPlayer \in {}, ScoresOf(cs, CheckPlayer)))
    <2>1. p.player \in 1..RankedNum
      BY <1>2, <1>3
    <2>2. Proper(q, tRanking)
      BY <1>2, <1>3, <2>1, AskPage
    <2>3. Answer(Holding(RankedNum, {}, cs), q, known)
              = Done(Holding(RankedNum, {}, cs), Page(p.player, p.player \in {}, ScoresOf(cs, p.player)))
      BY <1>2, <1>3, <2>1, AskPage
    <2> QED
      BY <1>3, <2>2, <2>3
  <1>6. Page(CheckPlayer, CheckPlayer \in {}, ScoresOf(cs, CheckPlayer)) = d
    <2>1. (CheckPlayer \in {}) \in BOOLEAN /\ ~(CheckPlayer \in {})
      OBVIOUS
    <2> QED
      BY <2>1, PageOfOne, Zenon
  <1>7. Answer(u, q, known) = Done(u, d)
    BY <1>4, <1>5, <1>6
  <1>8. RankingFits(s.name, d)
    BY <1>1 DEF cs
  <1>9. Script("ranking", choice)[i] = s
    BY DEF p
  <1> HIDE DEF q, u, s, d
  <1> QED
    BY <1>1, <1>5, <1>7, <1>8, <1>9, RankingSucceeds DEF u

LEMMA RankingUploads ==
  ASSUME NEW known, tRanking \in known, NEW i, NEW m, NEW old, NEW V, Kept(old, V), NEW rows, NEW n,
         Sent(rows, RankedNum, n), NEW name,
         Script("ranking", choice)[i] = Must(name, "score", OrganizerOf(tRanking), File(rows)),
         RankingFits(name, n),
         RankingTable(With(RankedNum, {}, Open(rows, V)), i + 1)
  PROVE  Passes("ranking", i, With(RankedNum, {}, Open(old, V)), known, m)
  <1> DEFINE s == Must(name, "score", OrganizerOf(tRanking), File(rows))
             q == Request("score", OrganizerOf(tRanking), File(rows))
             u == With(RankedNum, {}, Open(rows, V))
  <1>1. s.ask = {q} /\ s.status = 200 /\ s.name = name
    BY MustIs
  <1>2. Proper(q, tRanking) /\ Answer(With(RankedNum, {}, Open(old, V)), q, known) = Done(u, n)
    BY Ground1, AskScoreWith
  <1> HIDE DEF q, u, s
  <1> QED
    BY <1>1, <1>2, RankingSucceeds DEF u, s

LEMMA RankedStandings ==
  ASSUME NEW n, n \in Nat
  PROVE  /\ Standings(Rising(n, 100)) =
               [k \in 1..n |-> [rank |-> k, player |-> n + 1 - k, score |-> 100 + (n + 1 - k)]]
         /\ Standings(Falling(n, 1000)) = [k \in 1..n |-> [rank |-> k, player |-> k, score |-> 1000 - k]]
  <1>1. Standings(Rising(n, 100)) =
           [k \in 1..n |-> [rank |-> k, player |-> n + 1 - k, score |-> 100 + (n + 1 - k)]]
    BY RisingStandings
  <1>2. Standings(Falling(n, 1000)) = [k \in 1..n |-> [rank |-> k, player |-> k, score |-> 1000 - k]]
    BY FallingStandings
  <1> QED
    BY <1>1, <1>2

(* The pages of the rankings of these files. *)
LEMMA RankingPages ==
  /\ Ranks(PageOf(Rising(RankedNum, 100), 0), [n \in 1..RankLimit |-> RankedNum + 1 - n])
  /\ Ranks(PageOf(Falling(RankedNum, 1000), 0), [n \in 1..RankLimit |-> n])
  /\ Ranks(PageOf(Twice(RankedNum), 0), [n \in 1..RankLimit |-> n])
  /\ Len(PageOf(Rising(RankedNum, 100), RankedNum - 1)) = 1
  <1>1. RankLimit \in Nat /\ RankedNum = RankLimit + 1 /\ RankedNum \in Nat
    BY Ground1
  <1> DEFINE Ranked == [rank : Nat, player : Nat, score : Int]
  <1>2. ASSUME NEW rows, NEW player, NEW score,
               \A k \in 1..RankedNum : player[k] \in Nat /\ score[k] \in Int,
               Standings(rows) = [k \in 1..RankedNum |-> [rank |-> k, player |-> player[k], score |-> score[k]]]
        PROVE  /\ Ranks(PageOf(rows, 0), [n \in 1..RankLimit |-> player[n]])
               /\ Len(PageOf(rows, RankedNum - 1)) = 1
    <2> DEFINE st == Standings(rows)
    <2>1. st \in [1..RankedNum -> Ranked]
      BY <1>1, <1>2
    <2>2. \A k \in 1..RankedNum : st[k].rank = k /\ st[k].player = player[k]
      BY <1>2
    <2> HIDE DEF st, Ranked
    <2>3. RanksOf(rows, Ranked, RankedNum)
      <3>1. st \in Seq(Ranked) /\ DOMAIN st = 1..RankedNum
        BY <1>1, <2>1, SeqDef
      <3>2. Len(st) = RankedNum
        BY <1>1, <3>1, LenProperties
      <3> QED
        BY <1>1, <3>1, <3>2 DEF RanksOf, st
    <2>4. Ranks(PageOf(rows, 0), [n \in 1..RankLimit |-> player[n]])
      <3>1. PageLength(0, RankedNum, RankLimit)
        BY <1>1 DEF PageLength
      <3>2. IsPageOf(PageOf(rows, 0), rows, 0, RankLimit)
        BY <2>3, <3>1, PageIs
      <3> DEFINE page == PageOf(rows, 0)
      <3> HIDE DEF page
      <3>3. /\ Len(page) = RankLimit /\ DOMAIN page = 1..RankLimit
            /\ \A k \in 1..RankLimit : page[k] = st[0 + k]
        BY <3>2 DEF IsPageOf, page, st
      <3>4. \A k \in 1..RankLimit : page[k] = st[k] /\ k \in 1..RankedNum
        BY <1>1, <3>3
      <3>5. ASSUME NEW n \in 1..RankLimit
            PROVE  n \in DOMAIN page /\ page[n].rank = n /\ page[n].player = player[n]
        BY <2>2, <3>3, <3>4
      <3>6. Ranks(page, [n \in 1..RankLimit |-> player[n]])
        BY <3>3, <3>5 DEF Ranks
      <3> QED
        BY <3>6 DEF page
    <2>5. Len(PageOf(rows, RankedNum - 1)) = 1
      <3>1. PageLength(RankedNum - 1, RankedNum, 1)
        BY <1>1, ServiceAssumption DEF PageLength
      <3>2. IsPageOf(PageOf(rows, RankedNum - 1), rows, RankedNum - 1, 1)
        BY <2>3, <3>1, PageIs
      <3> QED
        BY <3>2 DEF IsPageOf
    <2> QED
      BY <2>4, <2>5
  <1>3. /\ Ranks(PageOf(Rising(RankedNum, 100), 0), [n \in 1..RankLimit |-> RankedNum + 1 - n])
        /\ Len(PageOf(Rising(RankedNum, 100), RankedNum - 1)) = 1
    <2> DEFINE rows == Rising(RankedNum, 100)
               player == [k \in 1..RankedNum |-> RankedNum + 1 - k]
               score == [k \in 1..RankedNum |-> 100 + (RankedNum + 1 - k)]
    <2>1. \A k \in 1..RankedNum : /\ player[k] = RankedNum + 1 - k /\ score[k] = 100 + (RankedNum + 1 - k)
                                   /\ player[k] \in Nat /\ score[k] \in Int
      BY <1>1
    <2>2. Standings(rows) = [k \in 1..RankedNum |-> [rank |-> k, player |-> RankedNum + 1 - k, score |-> 100 + (RankedNum + 1 - k)]]
      <3>1. RankedNum \in Nat
        BY <1>1
      <3> QED
        BY <3>1, RisingStandings, Zenon
    <2>3. \A n \in 1..RankLimit : player[n] = RankedNum + 1 - n
      BY <1>1
    <2> HIDE DEF rows, player, score
    <2>4. Standings(rows) = [k \in 1..RankedNum |-> [rank |-> k, player |-> player[k], score |-> score[k]]]
      BY <2>1, <2>2
    <2>5. /\ Ranks(PageOf(rows, 0), [n \in 1..RankLimit |-> player[n]])
          /\ Len(PageOf(rows, RankedNum - 1)) = 1
      BY <1>2, <2>1, <2>4
    <2>6. [n \in 1..RankLimit |-> player[n]] = [n \in 1..RankLimit |-> RankedNum + 1 - n]
      BY <2>3
    <2> QED
      BY <2>5, <2>6 DEF rows
  <1>4. Ranks(PageOf(Falling(RankedNum, 1000), 0), [n \in 1..RankLimit |-> n])
    <2> DEFINE rows == Falling(RankedNum, 1000)
               player == [k \in 1..RankedNum |-> k]
               score == [k \in 1..RankedNum |-> 1000 - k]
    <2>1. \A k \in 1..RankedNum : /\ player[k] = k /\ score[k] = 1000 - k
                                   /\ player[k] \in Nat /\ score[k] \in Int
      BY <1>1
    <2>2. Standings(rows) = [k \in 1..RankedNum |-> [rank |-> k, player |-> k, score |-> 1000 - k]]
      <3>1. RankedNum \in Nat
        BY <1>1
      <3> QED
        BY <3>1, RankedStandings, Zenon
    <2>3. \A n \in 1..RankLimit : player[n] = n
      BY <1>1
    <2> HIDE DEF rows, player, score
    <2>4. Standings(rows) = [k \in 1..RankedNum |-> [rank |-> k, player |-> player[k], score |-> score[k]]]
      BY <2>1, <2>2
    <2>5. Ranks(PageOf(rows, 0), [n \in 1..RankLimit |-> player[n]])
      BY <1>2, <2>1, <2>4
    <2>6. [n \in 1..RankLimit |-> player[n]] = [n \in 1..RankLimit |-> n]
      BY <2>3
    <2> QED
      BY <2>5, <2>6 DEF rows
  <1>5. Ranks(PageOf(Twice(RankedNum), 0), [n \in 1..RankLimit |-> n])
    <2> DEFINE rows == Twice(RankedNum)
               player == [k \in 1..RankedNum |-> k]
               score == [k \in 1..RankedNum |-> 1000]
    <2>1. \A k \in 1..RankedNum : /\ player[k] = k /\ score[k] = 1000
                                   /\ player[k] \in Nat /\ score[k] \in Int
      BY <1>1
    <2>2. Standings(rows) = [k \in 1..RankedNum |-> [rank |-> k, player |-> k, score |-> 1000]]
      BY <1>1, TwiceStandings
    <2>3. \A n \in 1..RankLimit : player[n] = n
      BY <1>1
    <2> HIDE DEF rows, player, score
    <2>4. Standings(rows) = [k \in 1..RankedNum |-> [rank |-> k, player |-> player[k], score |-> score[k]]]
      BY <2>1, <2>2
    <2>5. Ranks(PageOf(rows, 0), [n \in 1..RankLimit |-> player[n]])
      BY <1>2, <2>1, <2>4
    <2>6. [n \in 1..RankLimit |-> player[n]] = [n \in 1..RankLimit |-> n]
      BY <2>3
    <2> QED
      BY <2>5, <2>6 DEF rows
  <1> QED
    BY <1>3, <1>4, <1>5

LEMMA LinesAre ==
  ASSUME NEW n \in Nat
  PROVE  /\ Rising(n, 100) \in Seq(Lines) /\ LastRows(Rising(n, 100)) = 1..n
         /\ \A i \in 1..n : Rising(n, 100)[i].player = i /\ Rising(n, 100)[i].score = 100 + i
         /\ Falling(n, 1000) \in Seq(Lines) /\ LastRows(Falling(n, 1000)) = 1..n
         /\ \A i \in 1..n : Falling(n, 1000)[i].player = i /\ Falling(n, 1000)[i].score = 1000 - i
  <1>1. Rising(n, 100) \in Seq(Lines) /\ LastRows(Rising(n, 100)) = 1..n
    BY RisingStandings
  <1>2. \A i \in 1..n : Rising(n, 100)[i].player = i /\ Rising(n, 100)[i].score = 100 + i
    BY RisingStandings
  <1>3. Falling(n, 1000) \in Seq(Lines) /\ LastRows(Falling(n, 1000)) = 1..n
    BY FallingStandings
  <1>4. \A i \in 1..n : Falling(n, 1000)[i].player = i /\ Falling(n, 1000)[i].score = 1000 - i
    BY FallingStandings
  <1> QED
    BY <1>1, <1>2, <1>3, <1>4

LEMMA CheckedScores ==
  ASSUME NEW n \in Nat, NEW p \in 1..n
  PROVE  /\ \A V \in SUBSET Nat : ScoresOf(Append(<<>>, Open(Rising(n, 100), V)), p) = <<{100 + p}>>
         /\ \A V \in SUBSET Nat : ScoresOf(Append(<<>>, Open(Falling(n, 1000), V)), p) = <<{1000 - p}>>
  <1>1. ASSUME NEW V \in SUBSET Nat
        PROVE  ScoresOf(Append(<<>>, Open(Rising(n, 100), V)), p) = <<{100 + p}>>
    <2> DEFINE rows == Rising(n, 100)
               k == Open(rows, V)
    <2>1. /\ rows \in Seq(Lines) /\ LastRows(rows) = 1..n
          /\ \A i \in 1..n : rows[i].player = i /\ rows[i].score = 100 + i
      BY LinesAre
    <2> HIDE DEF rows
    <2>2. k \in CompetitionSet /\ k.rows = rows
      BY <2>1, OpenFields
    <2> HIDE DEF k
    <2>3. /\ LastRows(k.rows) = 1..n /\ \A i \in 1..n : k.rows[i].player = i
          /\ k.rows[p].score = 100 + p
      BY <2>1, <2>2
    <2>4. ScoresOf(Append(<<>>, k), p) = <<{100 + p}>>
      <3> DEFINE x == 100 + p
      <3>1. k.rows[p].score = x
        BY <2>3
      <3> HIDE DEF x
      <3>2. ScoresOf(Append(<<>>, k), p) = <<{x}>>
        BY <2>2, <2>3, <3>1, ScoreOfOne
      <3> QED
        BY <3>2 DEF x
    <2> QED
      BY <2>4 DEF k, rows
  <1>2. ASSUME NEW V \in SUBSET Nat
        PROVE  ScoresOf(Append(<<>>, Open(Falling(n, 1000), V)), p) = <<{1000 - p}>>
    <2> DEFINE rows == Falling(n, 1000)
               k == Open(rows, V)
    <2>1. /\ rows \in Seq(Lines) /\ LastRows(rows) = 1..n
          /\ \A i \in 1..n : rows[i].player = i /\ rows[i].score = 1000 - i
      BY LinesAre
    <2> HIDE DEF rows
    <2>2. k \in CompetitionSet /\ k.rows = rows
      BY <2>1, OpenFields
    <2> HIDE DEF k
    <2>3. /\ LastRows(k.rows) = 1..n /\ \A i \in 1..n : k.rows[i].player = i
          /\ k.rows[p].score = 1000 - p
      BY <2>1, <2>2
    <2>4. ScoresOf(Append(<<>>, k), p) = <<{1000 - p}>>
      <3> DEFINE x == 1000 - p
      <3>1. k.rows[p].score = x
        BY <2>3
      <3> HIDE DEF x
      <3>2. ScoresOf(Append(<<>>, k), p) = <<{x}>>
        BY <2>2, <2>3, <3>1, ScoreOfOne
      <3> QED
        BY <3>2 DEF x
    <2> QED
      BY <2>4 DEF k, rows
  <1> QED
    BY <1>1, <1>2

LEMMA RankingKept ==
  LET rising == Rising(RankedNum, 100)
      falling == Falling(RankedNum, 1000)
      twice == Twice(RankedNum)
  IN  /\ Sent(rising, RankedNum, RankedNum) /\ Sent(falling, RankedNum, RankedNum)
      /\ Sent(twice, RankedNum, 2 * RankedNum)
      /\ \A V \in SUBSET Nat : Kept(rising, V) /\ Kept(falling, V) /\ Kept(twice, V)
      /\ {} \in SUBSET Nat /\ {1} \in SUBSET Nat
  <1>1. /\ Sent(Rising(RankedNum, 100), RankedNum, RankedNum) /\ Sent(Falling(RankedNum, 1000), RankedNum, RankedNum)
        /\ Sent(Twice(RankedNum), RankedNum, 2 * RankedNum)
    BY Ground1, FilesAre
  <1>2. ASSUME NEW V \in SUBSET Nat
        PROVE  Kept(Rising(RankedNum, 100), V) /\ Kept(Falling(RankedNum, 1000), V) /\ Kept(Twice(RankedNum), V)
    BY <1>1 DEF Sent, Kept
  <1> QED
    BY <1>1, <1>2

LEMMA RankingPasses ==
  ASSUME NEW known, tRanking \in known, NEW i \in 2..12, NEW t, RankingTable(t, i), NEW m
  PROVE  Passes("ranking", i, t, known, m)
  <1> DEFINE rising == Rising(RankedNum, 100)
             falling == Falling(RankedNum, 1000)
             twice == Twice(RankedNum)
             held(rows, V) == With(RankedNum, {}, Open(rows, V))
             last == [competition |-> 1, after |-> RankedNum - 1]
  <1>1. CASE i \in 2..4
    BY <1>1, RankingPrepares
  <1>2. /\ Sent(rising, RankedNum, RankedNum) /\ Sent(falling, RankedNum, RankedNum)
        /\ Sent(twice, RankedNum, 2 * RankedNum)
        /\ Kept(rising, {}) /\ Kept(rising, {1}) /\ Kept(falling, {1}) /\ Kept(twice, {1})
    BY RankingKept
  <1>3. {} \cup {1} = {1} /\ {1} \cup {1} = {1}
    OBVIOUS
  <1>4. IsReading(Of(1)) /\ Of(1).after = 0 /\ IsReading(last) /\ last.after = RankedNum - 1
    BY DEF Of, IsReading
  <1>5. /\ RankingFits("ranking", PageOf(rising, 0)) /\ RankingFits("ranking_reversed", PageOf(falling, 0))
        /\ RankingFits("ranking_ties", PageOf(twice, 0)) /\ RankingFits("last_page", PageOf(rising, RankedNum - 1))
    BY RankingPages DEF RankingFits
  <1>6. /\ RankingFits("player", Page(CheckPlayer, FALSE, ScoresOf(Append(<<>>, Open(rising, {1})), CheckPlayer)))
        /\ RankingFits("player_again", Page(CheckPlayer, FALSE, ScoresOf(Append(<<>>, Open(falling, {1})), CheckPlayer)))
    <2> DEFINE x == ScoresOf(Append(<<>>, Open(rising, {1})), CheckPlayer)
               y == ScoresOf(Append(<<>>, Open(falling, {1})), CheckPlayer)
    <2>1. x = <<{100 + CheckPlayer}>> /\ y = <<{1000 - CheckPlayer}>>
      <3>1. CheckPlayer \in 1..RankedNum /\ RankedNum \in Nat /\ {1} \in SUBSET Nat
        BY Ground1
      <3> QED
        BY <3>1, CheckedScores
    <2> HIDE DEF x, y
    <2>2. RankingFits("player", Page(CheckPlayer, FALSE, x))
      BY <2>1 DEF RankingFits
    <2>3. RankingFits("player_again", Page(CheckPlayer, FALSE, y))
      BY <2>1 DEF RankingFits
    <2> QED
      BY <2>2, <2>3 DEF x, y
  <1>7. RankingFits("upload", RankedNum) /\ RankingFits("upload_twice", 2 * RankedNum)
    BY DEF RankingFits
  <1> HIDE DEF rising, falling, twice, last
  <1>8. CASE i = 5
    <2>1. t = held(rising, {}) /\ RankingTable(held(rising, {} \cup {1}), i + 1)
      BY <1>3, <1>8 DEF RankingTable, rising
    <2>2. Script("ranking", choice)[i] = Should("ranking", "ranking", As("player", tRanking, 1), Of(1))
      BY <1>8, RankingSteps
    <2> QED
      BY <1>2, <1>4, <1>5, <2>1, <2>2, RankingReads
  <1>9. CASE i = 6
    <2>1. t = held(rising, {1}) /\ RankingTable(held(rising, {1} \cup {1}), i + 1)
      BY <1>3, <1>9 DEF RankingTable, rising
    <2>2. Script("ranking", choice)[i] = Should("last_page", "ranking", As("player", tRanking, 1), last)
      BY <1>9, RankingSteps DEF last
    <2> QED
      BY <1>2, <1>4, <1>5, <2>1, <2>2, RankingReads
  <1>10. CASE i = 7
    <2>1. t = held(rising, {1}) /\ RankingTable(held(rising, {1}), i + 1)
      BY <1>10 DEF RankingTable, rising
    <2>2. Script("ranking", choice)[i] = Should("player", "player", As("player", tRanking, 1), [player |-> CheckPlayer])
      BY <1>10, RankingSteps
    <2> QED
      BY <1>6, <2>1, <2>2, RankingReadsPage
  <1>11. CASE i = 8
    <2>1. t = held(rising, {1}) /\ RankingTable(held(falling, {1}), i + 1)
      BY <1>11 DEF RankingTable, rising, falling
    <2>2. Script("ranking", choice)[i] = Must("upload", "score", OrganizerOf(tRanking), File(falling))
      BY <1>11, RankingSteps DEF falling
    <2> QED
      BY <1>2, <1>7, <2>1, <2>2, RankingUploads
  <1>12. CASE i = 9
    <2>1. t = held(falling, {1}) /\ RankingTable(held(falling, {1} \cup {1}), i + 1)
      BY <1>3, <1>12 DEF RankingTable, falling
    <2>2. Script("ranking", choice)[i] = Should("ranking_reversed", "ranking", As("player", tRanking, 1), Of(1))
      BY <1>12, RankingSteps
    <2> QED
      BY <1>2, <1>4, <1>5, <2>1, <2>2, RankingReads
  <1>13. CASE i = 10
    <2>1. t = held(falling, {1}) /\ RankingTable(held(falling, {1}), i + 1)
      BY <1>13 DEF RankingTable, falling
    <2>2. Script("ranking", choice)[i] = Should("player_again", "player", As("player", tRanking, 1), [player |-> CheckPlayer])
      BY <1>13, RankingSteps
    <2> QED
      BY <1>6, <2>1, <2>2, RankingReadsPage
  <1>14. CASE i = 11
    <2>1. t = held(falling, {1}) /\ RankingTable(held(twice, {1}), i + 1)
      BY <1>14 DEF RankingTable, falling, twice
    <2>2. Script("ranking", choice)[i] = Must("upload_twice", "score", OrganizerOf(tRanking), File(twice))
      BY <1>14, RankingSteps DEF twice
    <2> QED
      BY <1>2, <1>7, <2>1, <2>2, RankingUploads
  <1>15. CASE i = 12
    <2>1. t = held(twice, {1}) /\ RankingTable(held(twice, {1} \cup {1}), i + 1)
      BY <1>15 DEF RankingTable, twice
    <2>2. Script("ranking", choice)[i] = Should("ranking_ties", "ranking", As("player", tRanking, 1), Of(1))
      BY <1>15, RankingSteps
    <2> QED
      BY <1>2, <1>4, <1>5, <2>1, <2>2, RankingReads
  <1> QED
    BY <1>1, <1>8, <1>9, <1>10, <1>11, <1>12, <1>13, <1>14, <1>15

-----------------------------------------------------------------------------
(* What a tenant refuses *)

(* A competition alone. *)
LEMMA WithFields ==
  ASSUME NEW n, NEW D, NEW k \in CompetitionSet
  PROVE  /\ Has(With(n, D, k), 1) /\ ~Has(With(n, D, k), 0) /\ With(n, D, k).competitions[1] = k
         /\ Player(With(n, D, k)) = 1..n
  <1> DEFINE c0 == <<>>
  <1>1. c0 \in Seq(CompetitionSet) /\ Len(c0) = 0
    BY Ground1
  <1>2. With(n, D, k) = Holding(n, D, Append(c0, k))
    BY DEF With
  <1> HIDE DEF c0
  <1>3. DOMAIN Append(c0, k) = 1..(Len(c0) + 1) /\ Append(c0, k)[Len(c0) + 1] = k
    BY <1>1, LastIs
  <1>4. DOMAIN Append(c0, k) = 1..1 /\ Append(c0, k)[1] = k
    BY <1>1, <1>3
  <1> DEFINE t == With(n, D, k)
             cs == Append(c0, k)
  <1>5. t = Holding(n, D, cs) /\ DOMAIN cs = 1..1 /\ cs[1] = k
    BY <1>2, <1>4
  <1> HIDE DEF t, cs
  <1>6. t.competitions = cs /\ Player(t) = 1..n
    BY <1>5, HoldingFields
  <1>7. Has(t, 1) /\ ~Has(t, 0) /\ t.competitions[1] = k
    BY <1>5, <1>6 DEF Has
  <1> QED
    BY <1>6, <1>7 DEF t

Uploaded(p) == {"competition", "rows", "header", "columns"} \subseteq DOMAIN p /\ p.rows \in Seq(Lines)

LEMMA AskUpload ==
  ASSUME NEW known, NEW g \in known, g # Admin, NEW n, NEW D, NEW cs, NEW p, Uploaded(p)
  PROVE  LET q == Request("score", OrganizerOf(g), p)
         IN  /\ Proper(q, g) /\ q.op = "score"
             /\ q.competition = p.competition /\ q.rows = p.rows /\ q.columns = p.columns
             /\ q.header = p.header
             /\ Answer(Holding(n, D, cs), q, known) = Handler(Holding(n, D, cs), q)
  <1> DEFINE q == Request("score", OrganizerOf(g), p)
  <1>0. {"competition", "rows", "header", "columns"} \subseteq DOMAIN p /\ p.rows \in Seq(Lines)
    BY DEF Uploaded
  <1>1. q.op = "score" /\ q.as = OrganizerOf(g)
    BY RequestIs
  <1>2. q.competition = p.competition /\ q.rows = p.rows /\ q.columns = p.columns /\ q.header = p.header
    BY <1>0, RequestIs
  <1>3. [q EXCEPT !.rows = q.rows] = q
    BY RequestIs
  <1> HIDE DEF q
  <1>4. Proper(q, g)
    <2>1. q.rows \in Seq(Lines) /\ q.as.tenant = g
      BY <1>0, <1>1, <1>2, AsIs
    <2> QED
      BY <1>1, <1>3, <2>1 DEF Proper, HasParameters, OrganizerApi
  <1>5. Answer(Holding(n, D, cs), q, known) = Handler(Holding(n, D, cs), q)
    BY <1>1, HoldingFile, OrganizerAnswered DEF OrganizerApi
  <1> QED
    BY <1>1, <1>2, <1>4, <1>5 DEF q

LEMMA RefusedFiles ==
  /\ Uploaded(NowhereFile) /\ NowhereFile.competition = 0
  /\ Uploaded(ReversedFile) /\ ReversedFile.competition = 1 /\ ~ReversedFile.header
  /\ Uploaded(WideFile) /\ WideFile.competition = 1 /\ ~WideFile.header
  /\ LET f == File(<<Line(0, 1)>>)
     IN  Uploaded(f) /\ f.competition = 1 /\ f.columns = 2 /\ 1 \in DOMAIN f.rows /\ f.rows[1].player = 0
  /\ Uploaded(File(<<>>)) /\ File(<<>>).competition = 1
  <1> DEFINE x == <<>>
             y == <<Line(0, 1)>>
  <1>1. x \in Seq(Lines)
    BY Ground1
  <1>2. y \in Seq(Lines) /\ 1 \in DOMAIN y /\ y[1].player = 0
    <2>1. Line(0, 1) \in Lines /\ Line(0, 1).player = 0
      BY DEF Line, Lines
    <2> HIDE DEF Lines
    <2> DEFINE l == Line(0, 1)
    <2> HIDE DEF l
    <2>2. <<l>> \in Seq(Lines) /\ 1 \in DOMAIN <<l>> /\ <<l>>[1] = l
      BY <2>1 DEF l
    <2> QED
      BY <2>1, <2>2 DEF l
  <1> HIDE DEF x, y
  <1>3. \A r : /\ DOMAIN File(r) = {"competition", "rows", "header", "columns"}
               /\ File(r).competition = 1 /\ File(r).rows = r /\ File(r).columns = 2
    BY DEF File
  <1>4. Uploaded(File(x)) /\ Uploaded(File(y))
    BY <1>1, <1>2, <1>3 DEF Uploaded
  <1>5. Uploaded(NowhereFile) /\ NowhereFile.competition = 0
    <2>1. NowhereFile = [File(x) EXCEPT !.competition = 0]
      BY DEF NowhereFile, x
    <2> QED
      BY <1>1, <1>3, <2>1 DEF Uploaded
  <1>6. Uploaded(ReversedFile) /\ ReversedFile.competition = 1 /\ ~ReversedFile.header
        /\ DOMAIN ReversedFile = {"competition", "rows", "header", "columns"} /\ ReversedFile.rows = y
    <2>1. ReversedFile = [File(y) EXCEPT !.header = FALSE]
      BY DEF ReversedFile, y
    <2> QED
      BY <1>2, <1>3, <2>1 DEF Uploaded
  <1>7. Uploaded(WideFile) /\ WideFile.competition = 1 /\ ~WideFile.header
    <2>1. WideFile = [ReversedFile EXCEPT !.columns = 3]
      BY DEF WideFile
    <2> QED
      BY <1>2, <1>6, <2>1 DEF Uploaded
  <1> QED
    BY <1>2, <1>3, <1>4, <1>5, <1>6, <1>7 DEF x, y

(* What is refused of a tenant with one competition. *)
LEMMA AskRefusedUpload ==
  ASSUME NEW known, NEW g \in known, g # Admin, NEW n \in Nat, NEW D, NEW R, NEW V, Kept(R, V)
  PROVE  LET t == With(n, D, Open(R, V))
             u == With(n, D, Closed(R, V))
             q(p) == Request("score", OrganizerOf(g), p)
         IN  /\ \A p \in {NowhereFile, ReversedFile, WideFile, File(<<Line(0, 1)>>), File(<<>>)} : Proper(q(p), g)
             /\ Answer(t, q(NowhereFile), known) = Refused(t, 404)
             /\ Answer(t, q(ReversedFile), known) = Refused(t, 400)
             /\ Answer(t, q(WideFile), known) = Refused(t, 400)
             /\ Answer(t, q(File(<<Line(0, 1)>>)), known) = Refused(t, 400)
             /\ Answer(u, q(File(<<>>)), known) = Refused(u, 400)
  <1> DEFINE t == With(n, D, Open(R, V))
             u == With(n, D, Closed(R, V))
             q(p) == Request("score", OrganizerOf(g), p)
             f == File(<<Line(0, 1)>>)
             e == File(<<>>)
  <1>1. /\ Open(R, V) \in CompetitionSet /\ ~Open(R, V).finished
        /\ Closed(R, V) \in CompetitionSet /\ Closed(R, V).finished
    BY OpenFields, ClosedFields DEF Kept
  <1>2. ASSUME NEW p, Uploaded(p)
        PROVE  /\ Proper(q(p), g) /\ q(p).op = "score"
               /\ q(p).competition = p.competition /\ q(p).rows = p.rows /\ q(p).columns = p.columns
               /\ q(p).header = p.header
               /\ \A k : Answer(With(n, D, k), q(p), known) = Handler(With(n, D, k), q(p))
    BY <1>2, AskUpload DEF With
  <1>3. /\ Has(t, 1) /\ ~Has(t, 0) /\ ~t.competitions[1].finished /\ Player(t) = 1..n
        /\ Has(u, 1) /\ u.competitions[1].finished
    BY <1>1, WithFields
  <1>4. \A p : Uploaded(p) => Answer(t, q(p), known) = Handler(t, q(p)) /\ Answer(u, q(p), known) = Handler(u, q(p))
    BY <1>2
  <1> HIDE DEF t, u, q
  <1>5. Answer(t, q(NowhereFile), known) = Refused(t, 404)
    BY <1>2, <1>3, <1>4, RefusedFiles, UploadNowhere
  <1>6. Answer(t, q(ReversedFile), known) = Refused(t, 400) /\ Answer(t, q(WideFile), known) = Refused(t, 400)
    <2>1. ASSUME NEW p, Uploaded(p), p.competition = 1, ~p.header PROVE Answer(t, q(p), known) = Refused(t, 400)
      <3>1. q(p).op = "score" /\ q(p).competition = 1 /\ ~q(p).header /\ Answer(t, q(p), known) = Handler(t, q(p))
        BY <1>2, <1>4, <2>1
      <3> QED
        BY <1>3, <3>1, UploadUnread
    <2> QED
      BY <2>1, RefusedFiles
  <1>7. Answer(t, q(f), known) = Refused(t, 400)
    <2>1. Uploaded(f) /\ f.competition = 1 /\ f.columns = 2 /\ 1 \in DOMAIN f.rows /\ f.rows[1].player = 0
      BY RefusedFiles
    <2> HIDE DEF f
    <2>2. /\ q(f).op = "score" /\ q(f).competition = 1 /\ q(f).columns = 2 /\ 1 \in DOMAIN q(f).rows
          /\ q(f).rows[1].player = 0
      BY <1>2, <2>1
    <2>3. q(f).rows[1].player \notin Player(t)
      BY <1>3, <2>2
    <2>4. Handler(t, q(f)) = Refused(t, 400)
      <3> DEFINE x == q(f)
                 i == 1
      <3>1. x.op = "score" /\ Has(t, x.competition) /\ ~t.competitions[x.competition].finished
            /\ x.columns = 2 /\ i \in DOMAIN x.rows /\ x.rows[i].player \notin Player(t)
        BY <1>3, <2>2, <2>3
      <3> HIDE DEF x, i
      <3>2. Handler(t, x) = Refused(t, 400)
        BY <3>1, UploadOfNobody
      <3> QED
        BY <3>2 DEF x
    <2> QED
      BY <1>4, <2>1, <2>4
  <1>8. Answer(u, q(e), known) = Refused(u, 400)
    <2>1. Uploaded(e) /\ e.competition = 1
      BY RefusedFiles
    <2> HIDE DEF e
    <2> QED
      BY <1>2, <1>3, <1>4, <2>1, UploadTooLate
  <1>9. \A p \in {NowhereFile, ReversedFile, WideFile, f, e} : Proper(q(p), g)
    BY <1>2, RefusedFiles
  <1> QED
    BY <1>5, <1>6, <1>7, <1>8, <1>9 DEF t, u, q

LEMMA AskNothing ==
  ASSUME NEW known, NEW g \in known, g # Admin, NEW n \in Nat, NEW D, NEW k \in CompetitionSet
  PROVE  LET t == With(n, D, k)
             finish == Request("finish", OrganizerOf(g), Of(0))
             read == Request("ranking", As("player", g, 1), Of(0))
         IN  /\ Proper(finish, g) /\ Answer(t, finish, known) = Refused(t, 404)
             /\ Proper(read, g)
             /\ Reader(1, n, D) => Answer(t, read, known) = Refused(t, 404)
  <1> DEFINE t == With(n, D, k)
             finish == Request("finish", OrganizerOf(g), Of(0))
             read == Request("ranking", As("player", g, 1), Of(0))
  <1>1. /\ finish.op = "finish" /\ finish.as = OrganizerOf(g) /\ finish.competition = 0
        /\ read.op = "ranking" /\ read.as = As("player", g, 1) /\ read.competition = 0
    BY RequestIs, ParametersAre
  <1> HIDE DEF finish, read
  <1>2. t.file /\ Player(t) = 1..n /\ t.disqualified = D /\ ~Has(t, 0)
    BY HoldingFile, HoldingFields, WithFields DEF With
  <1> HIDE DEF t
  <1>3. Proper(finish, g) /\ Proper(read, g)
    BY <1>1, AsIs DEF Proper, HasParameters, OrganizerApi, PlayerApi
  <1>4. Answer(t, finish, known) = Handler(t, finish)
    BY <1>1, <1>2, OrganizerAnswered DEF OrganizerApi
  <1>5. Handler(t, finish) = Refused(t, 404)
    BY <1>1, <1>2 DEF Handler, CompetitionFinish
  <1>6. Reader(1, n, D) => Answer(t, read, known) = Handler(t, read)
    <2> SUFFICES ASSUME Reader(1, n, D) PROVE Answer(t, read, known) = Handler(t, read)
      OBVIOUS
    <2>1. read.op \in PlayerApi /\ 1 \in Player(t) /\ 1 \notin t.disqualified
      BY <1>1, <1>2 DEF Reader, PlayerApi
    <2> DEFINE r == 1
    <2>2. read.as = As("player", g, r) /\ r \in Player(t) /\ r \notin t.disqualified
      BY <1>1, <2>1
    <2> HIDE DEF r
    <2> QED
      BY <1>2, <2>1, <2>2, PlayerAnswered
  <1>7. Handler(t, read) = Refused(t, 404)
    BY <1>1, <1>2 DEF Handler, CompetitionRanking
  <1> QED
    BY <1>3, <1>4, <1>5, <1>6, <1>7 DEF t, finish, read

-----------------------------------------------------------------------------
(* The check of the requests that are refused *)

LEMMA BadRequestRefusalPasses ==
  ASSUME NEW i, NEW t, NEW known, NEW m, NEW q, NEW s, Script("badRequest", choice)[i] = s,
         s.ask = {q}, s.status # 200, Proper(q, tBad), Answer(t, q, known) = Refused(t, s.status),
         BadRequestTable(t, i + 1)
  PROVE  Passes("badRequest", i, t, known, m)
  <1>1. TableIs("badRequest", t, i + 1, m)
    BY DEF TableIs
  <1> QED
    BY <1>1, GroundIs, RefusalPasses

LEMMA BadRequestSucceeds ==
  ASSUME NEW i, NEW t, NEW known, NEW m, NEW q, NEW s, Script("badRequest", choice)[i] = s,
         s.ask = {q}, s.status = 200, Proper(q, tBad), NEW u, NEW d, Answer(t, q, known) = Done(u, d),
         BadRequestFits(s.name, d), BadRequestTable(u, i + 1)
  PROVE  Passes("badRequest", i, t, known, m)
  <1>1. Fits("badRequest", s, q, Done(u, d).answer, m, initial.billing)
    BY AnswerIs DEF Fits
  <1>2. \A x : TableIs("badRequest", u, i + 1, x)
    BY DEF TableIs
  <1> QED
    BY <1>1, <1>2, GroundIs, SuccessPasses

LEMMA BadRequestBegins ==
  ASSUME NEW known, tBad \in known, NEW i \in {2, 5, 6}, NEW t, BadRequestTable(t, i), NEW m
  PROVE  Passes("badRequest", i, t, known, m)
  <1> DEFINE org == OrganizerOf(tBad)
  <1>1. CASE i = 2
    <2>1. t = Holding(0, {}, <<>>)
      BY <1>1 DEF BadRequestTable
    <2> DEFINE p == [n |-> PlayerNum]
               s == Must("players_add", "players_add", org, p)
               q == Request("players_add", org, p)
               u == Holding(PlayerNum, {}, <<>>)
               d == (0 + 1)..(0 + PlayerNum)
    <2>2. Script("badRequest", choice)[i] = s /\ s.ask = {q} /\ s.status = 200 /\ s.name = "players_add"
      BY <1>1, BadRequestSteps, MustIs
    <2>3. Proper(q, tBad) /\ Answer(t, q, known) = Done(u, d)
      <3>1. "n" \in DOMAIN p /\ p.n = PlayerNum
        OBVIOUS
      <3> HIDE DEF p
      <3> QED
        BY <2>1, <3>1, Ground1, CountIs, AskPlayersAdd
    <2>4. BadRequestTable(u, i + 1)
      BY <1>1 DEF BadRequestTable
    <2> HIDE DEF s, q, u, d
    <2>5. BadRequestFits(s.name, d)
      BY <2>2, Ground1, CountIs DEF BadRequestFits, d
    <2> QED
      BY <2>2, <2>3, <2>4, <2>5, BadRequestSucceeds
  <1>2. CASE i = 5
    <2>1. t = Holding(PlayerNum, {}, <<>>) /\ BadRequestTable(t, i + 1)
      BY <1>2 DEF BadRequestTable
    <2> DEFINE p == [player |-> 0]
               s == Refuses("disqualify_nobody", "disqualified", org, p, 404)
               q == Request("disqualified", org, p)
    <2>2. Script("badRequest", choice)[i] = s /\ s.ask = {q} /\ s.status = 404
      BY <1>2, BadRequestSteps, RefusesIs
    <2>3. Proper(q, tBad) /\ Answer(t, q, known) = Refused(t, 404)
      <3>1. About(p) /\ p.player \notin 1..PlayerNum
        BY Ground1 DEF About
      <3> HIDE DEF p
      <3> QED
        BY <2>1, <3>1, Ground1, AskDisqualifyNobody
    <2> HIDE DEF s, q
    <2> QED
      BY <2>1, <2>2, <2>3, BadRequestRefusalPasses
  <1>3. CASE i = 6
    <2>1. t = Holding(PlayerNum, {}, <<>>)
      BY <1>3 DEF BadRequestTable
    <2> DEFINE s == Must("competitions_add", "competitions_add", org, Nothing)
               q == Request("competitions_add", org, Nothing)
               u == With(PlayerNum, {}, Open(<<>>, {}))
    <2>2. Script("badRequest", choice)[i] = s /\ s.ask = {q} /\ s.status = 200 /\ s.name = "competitions_add"
      BY <1>3, BadRequestSteps, MustIs
    <2>3. Proper(q, tBad) /\ Answer(t, q, known) = Done(u, 1)
      BY <2>1, Ground1, AskFirst
    <2>4. BadRequestTable(u, i + 1)
      BY <1>3 DEF BadRequestTable
    <2> HIDE DEF s, q, u
    <2>5. BadRequestFits(s.name, 1)
      BY <2>2 DEF BadRequestFits
    <2> QED
      BY <2>2, <2>3, <2>4, <2>5, BadRequestSucceeds
  <1> QED
    BY <1>1, <1>2, <1>3

LEMMA NothingKept == Kept(<<>>, {}) /\ Open(<<>>, {}) \in CompetitionSet /\ Closed(<<>>, {}) \in CompetitionSet
  <1>1. Kept(<<>>, {})
    BY Ground1 DEF Kept
  <1> DEFINE e == <<>>
             o == {}
  <1>2. e \in Seq(Lines) /\ o \in SUBSET Nat
    BY <1>1 DEF Kept
  <1> HIDE DEF e, o
  <1>3. Open(e, o) \in CompetitionSet /\ Closed(e, o) \in CompetitionSet
    BY <1>2, OpenFields, ClosedFields
  <1> QED
    BY <1>1, <1>3 DEF e, o

LEMMA BadRequestRefuses ==
  ASSUME NEW known, tBad \in known, NEW i \in {7, 8, 9, 10, 11, 12}, NEW t, BadRequestTable(t, i), NEW m
  PROVE  Passes("badRequest", i, t, known, m)
  <1> DEFINE org == OrganizerOf(tBad)
             player == As("player", tBad, 1)
             upload(p) == Request("score", org, p)
  <1>1. t = With(PlayerNum, {}, Open(<<>>, {})) /\ BadRequestTable(t, i + 1)
    BY DEF BadRequestTable
  <1>2. tBad # Admin /\ PlayerNum \in Nat /\ Reader(1, PlayerNum, {})
    BY Ground1 DEF Reader
  <1>4. /\ \A p \in {NowhereFile, ReversedFile, WideFile, File(<<Line(0, 1)>>), File(<<>>)} : Proper(upload(p), tBad)
        /\ Answer(t, upload(NowhereFile), known) = Refused(t, 404)
        /\ Answer(t, upload(ReversedFile), known) = Refused(t, 400)
        /\ Answer(t, upload(WideFile), known) = Refused(t, 400)
        /\ Answer(t, upload(File(<<Line(0, 1)>>)), known) = Refused(t, 400)
    <2> DEFINE R == <<>>
               V == {}
               D == {}
    <2>1. Kept(R, V) /\ t = With(PlayerNum, D, Open(R, V))
      BY <1>1, NothingKept
    <2> HIDE DEF R, V, D
    <2> QED
      BY <1>2, <2>1, AskRefusedUpload
  <1>5. CASE i = 7
    <2> DEFINE s == Refuses("score_nowhere", "score", org, NowhereFile, 404)
               q == upload(NowhereFile)
    <2>1. Script("badRequest", choice)[i] = s /\ s.ask = {q} /\ s.status = 404
      BY <1>5, BadRequestSteps, RefusesIs
    <2>2. Proper(q, tBad) /\ Answer(t, q, known) = Refused(t, 404)
      BY <1>4
    <2> HIDE DEF s, q
    <2> QED
      BY <1>1, <2>1, <2>2, BadRequestRefusalPasses
  <1>6. CASE i = 8
    <2> DEFINE s == Refuses("score_nobody", "score", org, File(<<Line(0, 1)>>), 400)
               q == upload(File(<<Line(0, 1)>>))
    <2>1. Script("badRequest", choice)[i] = s /\ s.ask = {q} /\ s.status = 400
      BY <1>6, BadRequestSteps, RefusesIs
    <2>2. Proper(q, tBad) /\ Answer(t, q, known) = Refused(t, 400)
      BY <1>4
    <2> HIDE DEF s, q
    <2> QED
      BY <1>1, <2>1, <2>2, BadRequestRefusalPasses
  <1>7. CASE i = 9
    <2> DEFINE s == Refuses("columns_reversed", "score", org, ReversedFile, 400)
               q == upload(ReversedFile)
    <2>1. Script("badRequest", choice)[i] = s /\ s.ask = {q} /\ s.status = 400
      BY <1>7, BadRequestSteps, RefusesIs
    <2>2. Proper(q, tBad) /\ Answer(t, q, known) = Refused(t, 400)
      BY <1>4
    <2> HIDE DEF s, q
    <2> QED
      BY <1>1, <2>1, <2>2, BadRequestRefusalPasses
  <1>8. CASE i = 10
    <2> DEFINE s == Refuses("column_too_many", "score", org, WideFile, 400)
               q == upload(WideFile)
    <2>1. Script("badRequest", choice)[i] = s /\ s.ask = {q} /\ s.status = 400
      BY <1>8, BadRequestSteps, RefusesIs
    <2>2. Proper(q, tBad) /\ Answer(t, q, known) = Refused(t, 400)
      BY <1>4
    <2> HIDE DEF s, q
    <2> QED
      BY <1>1, <2>1, <2>2, BadRequestRefusalPasses
  <1>9. CASE i = 11
    <2> DEFINE p == [player |-> 0]
               s == Refuses("page_of_nobody", "player", player, p, 404)
               q == Request("player", player, p)
    <2>1. Script("badRequest", choice)[i] = s /\ s.ask = {q} /\ s.status = 404
      BY <1>9, BadRequestSteps, RefusesIs
    <2>2. About(p) /\ p.player \notin 1..PlayerNum
      BY <1>2 DEF About
    <2> DEFINE r == 1
               D == {}
               cs == Append(<<>>, Open(<<>>, {}))
    <2>3. r \in Nat /\ Reader(r, PlayerNum, D) /\ t = Holding(PlayerNum, D, cs) /\ player = As("player", tBad, r)
      BY <1>1, <1>2 DEF With
    <2> HIDE DEF p, r, D, cs
    <2>4. Proper(q, tBad) /\ Answer(t, q, known) = Refused(t, 404)
      BY <1>2, <2>2, <2>3, AskPageOfNobody
    <2> HIDE DEF s, q
    <2> QED
      BY <1>1, <2>1, <2>4, BadRequestRefusalPasses
  <1>10. CASE i = 12
    <2> DEFINE p == Of(0)
               s == Refuses("ranking_of_nothing", "ranking", player, p, 404)
               q == Request("ranking", player, p)
    <2>1. Script("badRequest", choice)[i] = s /\ s.ask = {q} /\ s.status = 404
      BY <1>10, BadRequestSteps, RefusesIs
    <2> DEFINE D == {}
               k == Open(<<>>, {})
    <2>2. k \in CompetitionSet /\ Reader(1, PlayerNum, D) /\ t = With(PlayerNum, D, k)
      BY <1>1, <1>2, NothingKept
    <2> HIDE DEF D, k
    <2>3. Proper(q, tBad) /\ Answer(t, q, known) = Refused(t, 404)
      BY <1>2, <2>2, AskNothing
    <2> HIDE DEF s, q
    <2> QED
      BY <1>1, <2>1, <2>3, BadRequestRefusalPasses
  <1> QED
    BY <1>5, <1>6, <1>7, <1>8, <1>9, <1>10

LEMMA BadRequestDisqualifies ==
  ASSUME NEW known, tBad \in known, NEW i \in {13, 14}, NEW t, BadRequestTable(t, i), NEW m
  PROVE  Passes("badRequest", i, t, known, m)
  <1> DEFINE org == OrganizerOf(tBad)
             cs == Append(<<>>, Open(<<>>, {}))
  <1>1. tBad # Admin /\ DisqualifiedPlayer \in 1..PlayerNum /\ DisqualifiedPlayer \in Nat
    BY Ground1
  <1>2. CASE i = 13
    <2> DEFINE p == [player |-> DisqualifiedPlayer]
               s == Must("disqualified", "disqualified", org, p)
               q == Request("disqualified", org, p)
               D == {}
               u == Holding(PlayerNum, D \cup {DisqualifiedPlayer}, cs)
               d == [player |-> DisqualifiedPlayer, disqualified |-> TRUE]
    <2>1. t = Holding(PlayerNum, D, cs)
      BY <1>2 DEF BadRequestTable, With
    <2>2. BadRequestTable(u, i + 1)
      <3>1. {} \cup {DisqualifiedPlayer} = {DisqualifiedPlayer}
        OBVIOUS
      <3> QED
        BY <1>2, <3>1 DEF BadRequestTable, With
    <2>3. Script("badRequest", choice)[i] = s /\ s.ask = {q} /\ s.status = 200 /\ s.name = "disqualified"
      BY <1>2, BadRequestSteps, MustIs
    <2>4. About(p) /\ p.player = DisqualifiedPlayer
      BY DEF About
    <2>5. \A name : name = "disqualified" => BadRequestFits(name, d)
      BY DEF BadRequestFits
    <2> DEFINE e(x) == [player |-> x, disqualified |-> TRUE]
    <2> HIDE DEF p, D, cs
    <2>6. /\ Proper(q, tBad)
          /\ Answer(Holding(PlayerNum, D, cs), q, known)
               = Done(Holding(PlayerNum, D \cup {p.player}, cs), [player |-> p.player, disqualified |-> TRUE])
      BY <1>1, <2>4, AskDisqualified
    <2>7. e(p.player) = d
      BY <2>4
    <2> HIDE DEF e
    <2>8. Answer(Holding(PlayerNum, D, cs), q, known) = Done(Holding(PlayerNum, D \cup {p.player}, cs), e(p.player))
      BY <2>6, Zenon DEF e
    <2> HIDE DEF d
    <2>9. Answer(t, q, known) = Done(u, d)
      BY <2>1, <2>4, <2>7, <2>8
    <2>10. BadRequestFits(s.name, d)
      BY <2>3, <2>5
    <2> HIDE DEF s, q, u
    <2> QED
      BY <2>2, <2>3, <2>6, <2>9, <2>10, BadRequestSucceeds
  <1>3. CASE i = 14
    <2> DEFINE p == Of(1)
               as == As("player", tBad, DisqualifiedPlayer)
               s == Refuses("disqualified_reads", "ranking", as, p, 403)
               q == Request("ranking", as, p)
               D == {DisqualifiedPlayer}
    <2>1. t = Holding(PlayerNum, D, cs) /\ BadRequestTable(t, i + 1)
      BY <1>3 DEF BadRequestTable, With
    <2>2. Script("badRequest", choice)[i] = s /\ s.ask = {q} /\ s.status = 403
      BY <1>3, BadRequestSteps, RefusesIs
    <2>3. DisqualifiedPlayer \in D /\ "ranking" \in PlayerApi
      BY DEF PlayerApi
    <2> HIDE DEF D, cs, p
    <2>4. Proper(q, tBad) /\ Answer(t, q, known) = Refused(t, 403)
      BY <1>1, <2>1, <2>3, AskDisqualifiedReader
    <2> HIDE DEF s, q
    <2> QED
      BY <2>1, <2>2, <2>4, BadRequestRefusalPasses
  <1> QED
    BY <1>2, <1>3

LEMMA BadRequestEnds ==
  ASSUME NEW known, tBad \in known, NEW i \in {15, 16, 17}, NEW t, BadRequestTable(t, i), NEW m
  PROVE  Passes("badRequest", i, t, known, m)
  <1> DEFINE org == OrganizerOf(tBad)
             D == {DisqualifiedPlayer}
             R == <<>>
             V == {}
  <1>1. tBad # Admin /\ PlayerNum \in Nat
    BY Ground1
  <1>2. Kept(R, V) /\ Open(R, V) \in CompetitionSet
    BY NothingKept
  <1>3. CASE i = 15
    <2> DEFINE p == Of(0)
               s == Refuses("finish_nothing", "finish", org, p, 404)
               q == Request("finish", org, p)
               k == Open(R, V)
    <2>1. t = With(PlayerNum, D, k) /\ BadRequestTable(t, i + 1)
      BY <1>3 DEF BadRequestTable
    <2>2. Script("badRequest", choice)[i] = s /\ s.ask = {q} /\ s.status = 404
      BY <1>3, BadRequestSteps, RefusesIs
    <2> HIDE DEF D, k
    <2>3. Proper(q, tBad) /\ Answer(t, q, known) = Refused(t, 404)
      BY <1>1, <1>2, <2>1, AskNothing DEF k
    <2> HIDE DEF s, q
    <2> QED
      BY <2>1, <2>2, <2>3, BadRequestRefusalPasses
  <1>4. CASE i = 16
    <2> DEFINE p == Of(1)
               s == Must("finish", "finish", org, p)
               q == Request("finish", org, p)
               u == With(PlayerNum, D, Closed(R, V))
    <2>1. t = With(PlayerNum, D, Open(R, V)) /\ BadRequestTable(u, i + 1)
      BY <1>4 DEF BadRequestTable
    <2>2. Script("badRequest", choice)[i] = s /\ s.ask = {q} /\ s.status = 200 /\ s.name = "finish"
      BY <1>4, BadRequestSteps, MustIs
    <2> HIDE DEF D, R, V
    <2>3. Proper(q, tBad) /\ Answer(t, q, known) = Done(u, {})
      BY <1>1, <1>2, <2>1, AskFinishWith
    <2> HIDE DEF s, q, u
    <2>4. BadRequestFits(s.name, {})
      BY <2>2 DEF BadRequestFits
    <2> DEFINE d == {}
    <2>5. Answer(t, q, known) = Done(u, d) /\ BadRequestFits(s.name, d)
      BY <2>3, <2>4
    <2> HIDE DEF d
    <2> QED
      BY <2>1, <2>2, <2>3, <2>5, BadRequestSucceeds
  <1>5. CASE i = 17
    <2> DEFINE p == File(<<>>)
               s == Refuses("score_finished", "score", org, p, 400)
               q == Request("score", org, p)
    <2>1. t = With(PlayerNum, D, Closed(R, V)) /\ BadRequestTable(t, i + 1)
      BY <1>5 DEF BadRequestTable
    <2>2. Script("badRequest", choice)[i] = s /\ s.ask = {q} /\ s.status = 400
      BY <1>5, BadRequestSteps, RefusesIs
    <2> HIDE DEF D, R, V
    <2>3. Proper(q, tBad) /\ Answer(t, q, known) = Refused(t, 400)
      BY <1>1, <1>2, <2>1, AskRefusedUpload
    <2> HIDE DEF s, q
    <2> QED
      BY <2>1, <2>2, <2>3, BadRequestRefusalPasses
  <1> QED
    BY <1>3, <1>4, <1>5

LEMMA BadRequestPasses ==
  ASSUME NEW known, tBad \in known, NEW i \in {2} \cup 5..17, NEW t, BadRequestTable(t, i), NEW m
  PROVE  Passes("badRequest", i, t, known, m)
  <1>1. i \in {2, 5, 6} \/ i \in {7, 8, 9, 10, 11, 12} \/ i \in {13, 14} \/ i \in {15, 16, 17}
    OBVIOUS
  <1> QED
    BY <1>1, BadRequestBegins, BadRequestRefuses, BadRequestDisqualifies, BadRequestEnds

LEMMA InvalidJwtPasses ==
  ASSUME NEW known, tJwt \in known, NEW t, InvalidJwtTable(t, 6), NEW m
  PROVE  Passes("invalidJWT", 6, t, known, m)
  <1> DEFINE as == As("player", tJwt, 0)
             s == Refuses("no_player", "player_competitions", as, Nothing, 401)
             q == Request("player_competitions", as, Nothing)
  <1>1. t = Holding(0, {}, <<>>)
    BY DEF InvalidJwtTable
  <1>2. Script("invalidJWT", choice)[6] = s /\ s.ask = {q} /\ s.status = 401
    BY InvalidJwtSteps, RefusesIs
  <1>3. q.op = "player_competitions" /\ q.as = as
    BY RequestIs
  <1> HIDE DEF q
  <1>4. Proper(q, tJwt)
    BY <1>3, AsIs DEF Proper, HasParameters, PlayerApi
  <1>5. t.file /\ 0 \notin Player(t)
    BY <1>1, HoldingFile, HoldingFields
  <1>6. Answer(t, q, known) = Refused(t, 401)
    <2> DEFINE p == 0
    <2>1. q.op \in PlayerApi /\ q.as = As("player", tJwt, p) /\ p \notin Player(t) /\ tJwt # Admin
      BY <1>3, <1>5, Ground1 DEF PlayerApi
    <2> HIDE DEF p
    <2> QED
      BY <1>5, <2>1, NobodyAnswered
  <1>7. TableIs("invalidJWT", t, 6 + 1, m)
    BY DEF TableIs, InvalidJwtTable
  <1> HIDE DEF s
  <1> DEFINE c == "invalidJWT"
             i == 6
  <1>8. Script(c, choice)[i] = s /\ Proper(q, Ground(c)) /\ TableIs(c, t, i + 1, m)
    BY <1>2, <1>4, <1>7, GroundIs
  <1>9. s.status # 200 /\ Answer(t, q, known) = Refused(t, s.status) /\ s.ask = {q}
    BY <1>2, <1>6
  <1> HIDE DEF c, i
  <1>10. Passes(c, i, t, known, m)
    BY <1>8, <1>9, RefusalPasses
  <1> QED
    BY <1>10 DEF c, i

-----------------------------------------------------------------------------
(* The check of everything *)

(* A step whose answer is not kept. *)
LEMMA AllApiSucceeds ==
  ASSUME NEW i, NEW t, NEW known, NEW m, NEW q, NEW s, Script("allAPI", choice)[i] = s,
         s.ask = {q}, s.status = 200, s.name # "upload", Proper(q, tAll), NEW u, NEW d, Answer(t, q, known) = Done(u, d),
         AllApiFits(s.name, d, m, initial.billing), AllApiTable(u, i + 1), i + 1 >= 6 => m = PlayerNum - 1
  PROVE  Passes("allAPI", i, t, known, m)
  <1>1. Fits("allAPI", s, q, Done(u, d).answer, m, initial.billing)
    BY AnswerIs DEF Fits
  <1>2. ~Remembered("allAPI", s)
    BY DEF Remembered
  <1>3. TableIs("allAPI", u, i + 1, m)
    BY DEF TableIs
  <1>4. TableIs("allAPI", u, i + 1, IF Remembered("allAPI", s) THEN d ELSE m)
    BY <1>2, <1>3
  <1> QED
    BY <1>1, <1>4, GroundIs, SuccessPasses

LEMMA AllApiBegins ==
  ASSUME NEW known, tAll \in known, NEW i \in {1, 2, 3}, NEW t, AllApiTable(t, i), NEW m
  PROVE  Passes("allAPI", i, t, known, m)
  <1> DEFINE org == OrganizerOf(tAll)
  <1>0. ~(i + 1 >= 6)
    OBVIOUS
  <1>1. CASE i = 1
    <2>1. t = Holding(0, {}, <<>>)
      BY <1>1 DEF AllApiTable
    <2> DEFINE p == [n |-> PlayerNum]
               s == Must("players_add", "players_add", org, p)
               q == Request("players_add", org, p)
               u == Holding(PlayerNum, {}, <<>>)
               d == (0 + 1)..(0 + PlayerNum)
    <2>2. Script("allAPI", choice)[i] = s /\ s.ask = {q} /\ s.status = 200 /\ s.name = "players_add"
      BY <1>1, AllApiSteps, MustIs
    <2>3. Proper(q, tAll) /\ Answer(t, q, known) = Done(u, d)
      <3>1. "n" \in DOMAIN p /\ p.n = PlayerNum
        OBVIOUS
      <3> HIDE DEF p
      <3> QED
        BY <2>1, <3>1, Ground1, CountIs, AskPlayersAdd
    <2>4. AllApiTable(u, i + 1)
      BY <1>1 DEF AllApiTable
    <2> HIDE DEF s, q, u, d
    <2>5. AllApiFits(s.name, d, m, initial.billing)
      BY <2>2, Ground1, CountIs DEF AllApiFits, d
    <2>6. s.name # "upload"
      BY <2>2
    <2> QED
      BY <1>0, <2>2, <2>3, <2>4, <2>5, <2>6, AllApiSucceeds
  <1>2. CASE i = 2
    <2> DEFINE s == Should("players", "players", org, Nothing)
               q == Request("players", org, Nothing)
               D == {}
               cs == <<>>
               d == [players |-> 1..PlayerNum, disqualified |-> D]
    <2>1. t = Holding(PlayerNum, D, cs) /\ AllApiTable(t, i + 1)
      BY <1>2 DEF AllApiTable
    <2>2. Script("allAPI", choice)[i] = s /\ s.ask = {q} /\ s.status = 200 /\ s.name = "players"
      BY <1>2, AllApiSteps, ShouldIs
    <2>3. d = [players |-> 1..PlayerNum, disqualified |-> {}]
      OBVIOUS
    <2>4. AllApiFits(s.name, d, m, initial.billing)
      <3> HIDE DEF d, s
      <3> QED
        BY <2>2, <2>3 DEF AllApiFits
    <2>5. s.name # "upload"
      BY <2>2
    <2> HIDE DEF D, cs
    <2>6. Proper(q, tAll) /\ Answer(t, q, known) = Done(t, d)
      BY <2>1, Ground1, AskPlayers
    <2> HIDE DEF s, q, d
    <2> QED
      BY <1>0, <2>1, <2>2, <2>4, <2>5, <2>6, AllApiSucceeds
  <1>3. CASE i = 3
    <2>1. t = Holding(PlayerNum, {}, <<>>)
      BY <1>3 DEF AllApiTable
    <2> DEFINE s == Must("competitions_add", "competitions_add", org, Nothing)
               q == Request("competitions_add", org, Nothing)
               u == With(PlayerNum, {}, Open(<<>>, {}))
    <2>2. Script("allAPI", choice)[i] = s /\ s.ask = {q} /\ s.status = 200 /\ s.name = "competitions_add"
      BY <1>3, AllApiSteps, MustIs
    <2>3. Proper(q, tAll) /\ Answer(t, q, known) = Done(u, 1)
      BY <2>1, Ground1, AskFirst
    <2>4. AllApiTable(u, i + 1)
      BY <1>3 DEF AllApiTable
    <2> HIDE DEF s, q, u
    <2> DEFINE d == 1
    <2>5. AllApiFits(s.name, d, m, initial.billing)
      BY <2>2 DEF AllApiFits
    <2>6. s.name # "upload" /\ Answer(t, q, known) = Done(u, d)
      BY <2>2, <2>3
    <2> HIDE DEF d
    <2> QED
      BY <1>0, <2>2, <2>3, <2>4, <2>5, <2>6, AllApiSucceeds
  <1> QED
    BY <1>1, <1>2, <1>3

LEMMA AllApiDisqualifies ==
  ASSUME NEW known, tAll \in known, NEW t, AllApiTable(t, 4), NEW m
  PROVE  Passes("allAPI", 4, t, known, m)
  <1> DEFINE org == OrganizerOf(tAll)
             cs == Append(<<>>, Open(<<>>, {}))
             i == 4
             p == [player |-> DisqualifiedPlayer]
             s == Must("disqualified", "disqualified", org, p)
             q == Request("disqualified", org, p)
             D == {}
             u == Holding(PlayerNum, D \cup {DisqualifiedPlayer}, cs)
             d == [player |-> DisqualifiedPlayer, disqualified |-> TRUE]
  <1>0. tAll # Admin /\ DisqualifiedPlayer \in 1..PlayerNum /\ DisqualifiedPlayer \in Nat
    BY Ground1
  <1>1. t = Holding(PlayerNum, D, cs)
    BY DEF AllApiTable, With
  <1>2. AllApiTable(u, i + 1)
    <2>1. {} \cup {DisqualifiedPlayer} = {DisqualifiedPlayer}
      OBVIOUS
    <2> QED
      BY <2>1 DEF AllApiTable, With
  <1>3. Script("allAPI", choice)[i] = s /\ s.ask = {q} /\ s.status = 200 /\ s.name = "disqualified"
    BY AllApiSteps, MustIs
  <1>4. About(p) /\ p.player = DisqualifiedPlayer
    BY DEF About
  <1>5. \A name : name = "disqualified" => AllApiFits(name, d, m, initial.billing)
    BY DEF AllApiFits
  <1> DEFINE e(x) == [player |-> x, disqualified |-> TRUE]
  <1> HIDE DEF p, D, cs
  <1>6. /\ Proper(q, tAll)
        /\ Answer(Holding(PlayerNum, D, cs), q, known)
             = Done(Holding(PlayerNum, D \cup {p.player}, cs), [player |-> p.player, disqualified |-> TRUE])
    BY <1>0, <1>4, AskDisqualified
  <1>7. e(p.player) = d
    BY <1>4
  <1> HIDE DEF e
  <1>8. Answer(Holding(PlayerNum, D, cs), q, known) = Done(Holding(PlayerNum, D \cup {p.player}, cs), e(p.player))
    BY <1>6, Zenon DEF e
  <1> HIDE DEF d
  <1>9. Answer(t, q, known) = Done(u, d)
    BY <1>1, <1>4, <1>7, <1>8
  <1>10. AllApiFits(s.name, d, m, initial.billing) /\ s.name # "upload" /\ ~(i + 1 >= 6)
    BY <1>3, <1>5
  <1> HIDE DEF s, q, u, i
  <1>11. Passes("allAPI", i, t, known, m)
    BY <1>2, <1>3, <1>6, <1>9, <1>10, AllApiSucceeds
  <1> QED
    BY <1>11 DEF i

(* The first upload of the check. *)
AllApiRows == Rising(PlayerNum - 1, 100)

LEMMA AllApiFile ==
  /\ AllApiUpload = Must("upload", "score", OrganizerOf(tAll), File(AllApiRows))
  /\ PlayerNum - 1 \in Nat /\ Sent(AllApiRows, PlayerNum, PlayerNum - 1)
  /\ \A V \in SUBSET Nat : Kept(AllApiRows, V)
  <1>1. PlayerNum \in Nat /\ PlayerNum >= 4
    BY Ground1
  <1> DEFINE n == PlayerNum - 1
  <1>2. n \in Nat /\ n + 1 = PlayerNum
    BY <1>1
  <1>3. AllApiUpload = Must("upload", "score", OrganizerOf(tAll), File(AllApiRows))
    BY DEF AllApiUpload, AllApiRows, Rising, Scorer
  <1> HIDE DEF n
  <1>4. Sent(Rising(n, 100), n, n)
    BY <1>2, FilesAre
  <1>5. Sent(AllApiRows, PlayerNum, n)
    <2>1. \A p \in 1..n : p \in 1..PlayerNum
      BY <1>1, <1>2
    <2> QED
      BY <1>4, <2>1 DEF Sent, AllApiRows, n
  <1>6. \A V \in SUBSET Nat : Kept(AllApiRows, V)
    BY <1>5 DEF Kept, Sent
  <1> QED
    BY <1>2, <1>3, <1>5, <1>6 DEF n

LEMMA AllApiUploads ==
  ASSUME NEW known, tAll \in known, NEW t, AllApiTable(t, 5), NEW m
  PROVE  Passes("allAPI", 5, t, known, m)
  <1> DEFINE i == 5
             rows == AllApiRows
             n == PlayerNum - 1
             D == {DisqualifiedPlayer}
             R == <<>>
             V == {}
             s == AllApiUpload
             q == Request("score", OrganizerOf(tAll), File(rows))
             u == With(PlayerNum, D, Open(rows, V))
  <1>1. t = With(PlayerNum, D, Open(R, V)) /\ AllApiTable(u, i + 1)
    BY DEF AllApiTable, AllApiRows
  <1>2. Script("allAPI", choice)[i] = s /\ s.ask = {q} /\ s.status = 200 /\ s.name = "upload"
    BY AllApiSteps, AllApiFile, MustIs
  <1>3. Kept(R, V) /\ Sent(rows, PlayerNum, n) /\ tAll # Admin
    BY Ground1, AllApiFile, NothingKept
  <1> HIDE DEF rows, n, D, R, V
  <1>4. Proper(q, tAll) /\ Answer(t, q, known) = Done(u, n)
    BY <1>1, <1>3, AskScoreWith
  <1> HIDE DEF s, q, u
  <1>5. AllApiFits(s.name, n, m, initial.billing)
    BY <1>2 DEF AllApiFits
  <1>6. Fits("allAPI", s, q, Done(u, n).answer, m, initial.billing)
    BY <1>2, <1>5, AnswerIs DEF Fits
  <1>7. Remembered("allAPI", s)
    BY <1>2 DEF Remembered
  <1>8. TableIs("allAPI", u, i + 1, n)
    BY <1>1 DEF TableIs, n
  <1>9. TableIs("allAPI", u, i + 1, IF Remembered("allAPI", s) THEN n ELSE m)
    BY <1>7, <1>8
  <1> HIDE DEF i
  <1>10. Passes("allAPI", i, t, known, m)
    BY <1>2, <1>4, <1>6, <1>9, GroundIs, SuccessPasses
  <1> QED
    BY <1>10 DEF i

LEMMA AllApiPages ==
  LET page == PageOf(AllApiRows, 0)
  IN  /\ Len(page) = PlayerNum - 1
      /\ \A p \in Scorer : [rank |-> PlayerNum - p, player |-> p, score |-> 100 + p] \in ToSet(page)
  <1> DEFINE n == PlayerNum - 1
             rows == AllApiRows
             Ranked == [rank : Nat, player : Nat, score : Int]
             st == Standings(rows)
             page == PageOf(rows, 0)
  <1>1. n \in Nat /\ PlayerNum = n + 1 /\ RankLimit \in Nat /\ n <= RankLimit /\ PlayerNum \in Nat
    BY Ground1
  <1>2. rows = Rising(n, 100)
    BY DEF AllApiRows
  <1> HIDE DEF n, rows
  <1>20. st = [k \in 1..n |-> [rank |-> k, player |-> n + 1 - k, score |-> 100 + (n + 1 - k)]]
    <2>1. Standings(Rising(n, 100)) =
             [k \in 1..n |-> [rank |-> k, player |-> n + 1 - k, score |-> 100 + (n + 1 - k)]]
      <3>1. n \in Nat
        BY <1>1
      <3> QED
        BY <3>1, RisingStandings, Zenon
    <2> QED
      BY <1>2, <2>1
  <1>3. st \in [1..n -> Ranked]
    BY <1>1, <1>20
  <1>4. \A k \in 1..n : st[k] = [rank |-> k, player |-> n + 1 - k, score |-> 100 + (n + 1 - k)]
    BY <1>20
  <1> HIDE DEF st, Ranked
  <1>5. RanksOf(rows, Ranked, n)
    <2>1. st \in Seq(Ranked) /\ DOMAIN st = 1..n
      BY <1>1, <1>3, SeqDef
    <2>2. Len(st) = n
      BY <1>1, <2>1, LenProperties
    <2> QED
      BY <1>1, <2>1, <2>2 DEF RanksOf, st
  <1>6. PageLength(0, n, n)
    BY <1>1 DEF PageLength
  <1>7. IsPageOf(page, rows, 0, n)
    BY <1>5, <1>6, PageIs
  <1> HIDE DEF page
  <1>8. Len(page) = n /\ DOMAIN page = 1..n /\ \A k \in 1..n : page[k] = st[0 + k]
    BY <1>7 DEF IsPageOf, st
  <1>9. ASSUME NEW p \in Scorer
        PROVE  [rank |-> PlayerNum - p, player |-> p, score |-> 100 + p] \in ToSet(page)
    <2> DEFINE k == PlayerNum - p
    <2>1. p \in Nat /\ p \in 1..n /\ k \in 1..n /\ 0 + k = k /\ n + 1 - k = p
      BY <1>1 DEF Scorer, n
    <2> HIDE DEF k
    <2>2. page[k] = [rank |-> k, player |-> p, score |-> 100 + p]
      <3>1. page[k] = st[k]
        BY <1>8, <2>1
      <3>2. st[k] = [rank |-> k, player |-> n + 1 - k, score |-> 100 + (n + 1 - k)]
        BY <1>4, <2>1
      <3> QED
        BY <2>1, <3>1, <3>2
    <2> QED
      BY <1>8, <2>1, <2>2 DEF ToSet, k
  <1> QED
    BY <1>8, <1>9 DEF page, rows, n

LEMMA CountFromOne ==
  ASSUME NEW n \in Nat
  PROVE  Cardinality(1..n) = n
  BY FS_Interval

LEMMA AllApiBill ==
  LET cs == Append(<<>>, Closed(AllApiRows, {1, PlayerNum}))
  IN  /\ [c \in DOMAIN cs |-> Report(cs[c])]
            = <<[players |-> PlayerNum - 1, visitors |-> 1, yen |-> 100 * (PlayerNum - 1) + 10]>>
      /\ DOMAIN cs = {1} /\ Cardinality(DOMAIN cs) = 1
  <1> DEFINE n == PlayerNum - 1
             rows == AllApiRows
             V == {1, PlayerNum}
             k == Closed(rows, V)
             cs == Append(<<>>, k)
  <1>1. n \in Nat /\ PlayerNum = n + 1 /\ PlayerNum \in Nat /\ 1 \in 1..n
    BY Ground1
  <1>2. rows \in Seq(Lines) /\ DOMAIN rows = 1..n /\ \A i \in 1..n : rows[i].player = i
    <2>1. rows = Rising(n, 100) /\ n \in Nat
      BY <1>1 DEF AllApiRows
    <2> HIDE DEF rows, n
    <2>2. Rising(n, 100) \in Seq(Lines) /\ DOMAIN Rising(n, 100) = 1..n /\ \A i \in 1..n : Rising(n, 100)[i].player = i
      BY <2>1, RisingStandings
    <2> QED
      BY <2>1, <2>2
  <1>3. V \in SUBSET Nat
    BY <1>1
  <1>4. V \ (1..n) = {PlayerNum}
    BY <1>1
  <1> HIDE DEF rows, V, n
  <1>5. k \in CompetitionSet /\ k.finished /\ k.rows = rows /\ k.visitors = V
    BY <1>2, <1>3, ClosedFields
  <1> HIDE DEF k
  <1>6. Scored(k) = 1..n
    BY <1>2, <1>5 DEF Scored
  <1>7. Cardinality(1..n) = n /\ Cardinality({PlayerNum}) = 1
    <2>1. Cardinality(1..n) = n
      BY <1>1, CountFromOne
    <2>2. Cardinality({PlayerNum}) = 1
      BY FS_Singleton
    <2> QED
      BY <2>1, <2>2
  <1> DEFINE bill == [players |-> n, visitors |-> 1, yen |-> 100 * n + 10]
             owes(x, y) == [players |-> x, visitors |-> y, yen |-> 100 * x + 10 * y]
  <1>8. Report(k) = bill
    <2>1. /\ (IF k.finished THEN Cardinality(Scored(k)) ELSE 0) = n
          /\ (IF k.finished THEN Cardinality(k.visitors \ Scored(k)) ELSE 0) = 1
      BY <1>4, <1>5, <1>6, <1>7
    <2>2. Report(k) = owes(IF k.finished THEN Cardinality(Scored(k)) ELSE 0,
                           IF k.finished THEN Cardinality(k.visitors \ Scored(k)) ELSE 0)
      BY DEF Report
    <2>3. owes(n, 1) = bill
      OBVIOUS
    <2> HIDE DEF owes, bill
    <2> QED
      BY <2>1, <2>2, <2>3
  <1> HIDE DEF bill
  <1>9. cs = <<k>> /\ DOMAIN cs = {1} /\ cs[1] = k
    OBVIOUS
  <1> HIDE DEF cs
  <1>10. [c \in DOMAIN cs |-> Report(cs[c])] = [c \in {1} |-> bill]
    BY <1>8, <1>9
  <1>11. [c \in {1} |-> bill] = <<bill>>
    OBVIOUS
  <1>12. Cardinality(DOMAIN cs) = 1
    BY <1>9, FS_Singleton
  <1> QED
    BY <1>9, <1>10, <1>11, <1>12 DEF cs, k, rows, V, bill, n

LEMMA AllApiFitsRead ==
  ASSUME NEW b
  PROVE  /\ AllApiFits("player", Page(CheckPlayer, FALSE, <<{100 + CheckPlayer}>>), PlayerNum - 1, b)
         /\ AllApiFits("ranking", PageOf(AllApiRows, 0), PlayerNum - 1, b)
         /\ AllApiFits("ranking_visitor", PageOf(AllApiRows, 0), PlayerNum - 1, b)
         /\ AllApiFits("final_ranking", PageOf(AllApiRows, 0), PlayerNum - 1, b)
         /\ AllApiFits("at_once", PageOf(AllApiRows, 0), PlayerNum - 1, b)
         /\ AllApiFits("finish", {}, PlayerNum - 1, b)
  <1> DEFINE page == PageOf(AllApiRows, 0)
             d == Page(CheckPlayer, FALSE, <<{100 + CheckPlayer}>>)
             n == PlayerNum - 1
  <1>1. /\ Len(page) = n /\ n \in Nat
        /\ \A p \in Scorer : [rank |-> PlayerNum - p, player |-> p, score |-> 100 + p] \in ToSet(page)
    BY AllApiPages, AllApiFile
  <1>2. AllApiFits("player", d, n, b)
    <2> HIDE DEF page, n
    <2> QED
      BY Zenon DEF AllApiFits
  <1>3. ASSUME NEW name \in {"ranking", "ranking_visitor"} PROVE AllApiFits(name, page, n, b)
    <2> HIDE DEF page
    <2> QED
      BY <1>1 DEF AllApiFits
  <1>4. AllApiFits("final_ranking", page, n, b)
    <2> HIDE DEF page
    <2> QED
      BY <1>1 DEF AllApiFits
  <1>5. AllApiFits("at_once", page, n, b)
    <2> HIDE DEF page
    <2> QED
      BY <1>1 DEF AllApiFits
  <1>6. AllApiFits("finish", {}, n, b)
    BY DEF AllApiFits
  <1> QED
    BY <1>2, <1>3, <1>4, <1>5, <1>6

LEMMA AllApiPlayers ==
  /\ tAll # Admin /\ PlayerNum \in Nat
  /\ Reader(1, PlayerNum, {DisqualifiedPlayer}) /\ Reader(PlayerNum, PlayerNum, {DisqualifiedPlayer})
  /\ CheckPlayer \in 1..PlayerNum /\ CheckPlayer \in 1..(PlayerNum - 1) /\ CheckPlayer \notin {DisqualifiedPlayer}
  /\ {} \in SUBSET Nat /\ {1} \in SUBSET Nat /\ {1, PlayerNum} \in SUBSET Nat
  BY Ground1 DEF Reader

LEMMA AllApiReadsPage ==
  ASSUME NEW known, tAll \in known, NEW t, AllApiTable(t, 7), NEW m, m = PlayerNum - 1
  PROVE  Passes("allAPI", 7, t, known, m)
  <1>1. PICK V \in {{}, {1}} : t = With(PlayerNum, {DisqualifiedPlayer}, Open(AllApiRows, V))
    BY DEF AllApiTable, AllApiRows
  <1> DEFINE D == {DisqualifiedPlayer}
             cs == Append(<<>>, Open(AllApiRows, V))
             i == 7
             p == [player |-> CheckPlayer]
             as == As("player", tAll, 1)
             s == Should("player", "player", as, p)
             q == Request("player", as, p)
             x == ScoresOf(cs, CheckPlayer)
             d == Page(CheckPlayer, FALSE, x)
  <1>2. t = Holding(PlayerNum, D, cs)
    BY <1>1 DEF With
  <1>3. AllApiTable(t, i + 1)
    BY <1>1 DEF AllApiTable, AllApiRows
  <1>4. Script("allAPI", choice)[i] = s /\ s.ask = {q} /\ s.status = 200 /\ s.name = "player"
    BY AllApiSteps, ShouldIs
  <1>5. About(p) /\ p.player = CheckPlayer
    BY DEF About
  <1>6. x = <<{100 + CheckPlayer}>>
    <2>1. V \in SUBSET Nat /\ CheckPlayer \in 1..(PlayerNum - 1) /\ PlayerNum - 1 \in Nat
      BY <1>1, AllApiPlayers, AllApiFile
    <2> QED
      BY <2>1, CheckedScores DEF AllApiRows
  <1>7. AllApiFits("player", d, m, initial.billing)
    <2> HIDE DEF x
    <2> QED
      BY <1>6, AllApiFitsRead
  <1> HIDE DEF p, cs, D
  <1>8. /\ Proper(q, tAll)
        /\ Answer(Holding(PlayerNum, D, cs), q, known) = Done(Holding(PlayerNum, D, cs), Page(CheckPlayer, CheckPlayer \in D, x))
    <2>1. p.player \in 1..PlayerNum /\ tAll # Admin /\ Reader(1, PlayerNum, D)
      BY <1>5, AllApiPlayers DEF D
    <2>2. Proper(q, tAll)
      BY <1>5, <2>1, AskPage
    <2>3. Answer(Holding(PlayerNum, D, cs), q, known)
              = Done(Holding(PlayerNum, D, cs), Page(p.player, p.player \in D, ScoresOf(cs, p.player)))
      BY <1>5, <2>1, AskPage
    <2> QED
      BY <1>5, <2>2, <2>3
  <1>9. Page(CheckPlayer, CheckPlayer \in D, x) = d
    <2>1. (CheckPlayer \in D) \in BOOLEAN /\ ~(CheckPlayer \in D)
      BY AllApiPlayers DEF D
    <2> QED
      BY <2>1, PageOfOne, Zenon
  <1>10. Answer(t, q, known) = Done(t, d)
    BY <1>2, <1>8, <1>9
  <1> HIDE DEF d
  <1>11. AllApiFits(s.name, d, m, initial.billing) /\ s.name # "upload"
    BY <1>4, <1>7
  <1> HIDE DEF s, q, i
  <1>12. Passes("allAPI", i, t, known, m)
    BY <1>3, <1>4, <1>8, <1>10, <1>11, AllApiSucceeds
  <1> QED
    BY <1>12 DEF i

(* A ranking that a player reads while the competition is running. *)
LEMMA AllApiReadsRanking ==
  ASSUME NEW known, tAll \in known, NEW i, NEW m, m = PlayerNum - 1, NEW V, V \in SUBSET Nat,
         NEW r \in Nat, Reader(r, PlayerNum, {DisqualifiedPlayer}), NEW name \in {"ranking", "ranking_visitor"},
         Script("allAPI", choice)[i] = Should(name, "ranking", As("player", tAll, r), Of(1)),
         AllApiTable(With(PlayerNum, {DisqualifiedPlayer}, Open(AllApiRows, V \cup {r})), i + 1)
  PROVE  Passes("allAPI", i, With(PlayerNum, {DisqualifiedPlayer}, Open(AllApiRows, V)), known, m)
  <1> DEFINE D == {DisqualifiedPlayer}
             p == Of(1)
             as == As("player", tAll, r)
             s == Should(name, "ranking", as, p)
             q == Request("ranking", as, p)
             t == With(PlayerNum, D, Open(AllApiRows, V))
             u == With(PlayerNum, D, Open(AllApiRows, V \cup {r}))
             d == PageOf(AllApiRows, 0)
  <1>1. s.ask = {q} /\ s.status = 200 /\ s.name = name
    BY ShouldIs
  <1>2. IsReading(p) /\ p.after = 0
    BY DEF IsReading, Of
  <1>3. Kept(AllApiRows, V) /\ tAll # Admin
    BY AllApiFile, AllApiPlayers
  <1>4. AllApiTable(u, i + 1) /\ Script("allAPI", choice)[i] = s
    OBVIOUS
  <1>5. Reader(r, PlayerNum, D)
    OBVIOUS
  <1>6. AllApiFits(name, d, m, initial.billing)
    BY AllApiFitsRead
  <1> HIDE DEF p, D
  <1>7. Proper(q, tAll)
    BY <1>2, <1>3, <1>5, AskRankingWith
  <1>8. Answer(t, q, known) = Done(u, PageOf(AllApiRows, p.after))
    BY <1>2, <1>3, <1>5, AskRankingWith
  <1>9. Answer(t, q, known) = Done(u, d)
    BY <1>2, <1>8
  <1>10. AllApiFits(s.name, d, m, initial.billing) /\ s.name # "upload"
    BY <1>1, <1>6
  <1> HIDE DEF s, q, t, u, d
  <1>11. Passes("allAPI", i, t, known, m)
    BY <1>1, <1>4, <1>7, <1>9, <1>10, AllApiSucceeds
  <1> QED
    BY <1>11 DEF t, D

LEMMA AllApiRankings ==
  ASSUME NEW known, tAll \in known, NEW i \in {8, 9}, NEW t, AllApiTable(t, i), NEW m, m = PlayerNum - 1
  PROVE  Passes("allAPI", i, t, known, m)
  <1> DEFINE held(V) == With(PlayerNum, {DisqualifiedPlayer}, Open(AllApiRows, V))
  <1>1. CASE i = 8
    <2>1. PICK V \in {{}, {1}} : t = held(V)
      BY <1>1 DEF AllApiTable, AllApiRows
    <2>2. V \in SUBSET Nat /\ Reader(1, PlayerNum, {DisqualifiedPlayer})
      BY <2>1, AllApiPlayers
    <2>3. V \cup {1} = {1}
      BY <2>1
    <2>4. AllApiTable(held(V \cup {1}), i + 1)
      BY <1>1, <2>3 DEF AllApiTable, AllApiRows
    <2>5. Script("allAPI", choice)[i] = Should("ranking", "ranking", As("player", tAll, 1), Of(1))
      BY <1>1, AllApiSteps
    <2> QED
      BY <2>1, <2>2, <2>4, <2>5, AllApiReadsRanking
  <1>2. CASE i = 9
    <2> DEFINE V == {1}
    <2>1. t = held(V)
      BY <1>2 DEF AllApiTable, AllApiRows
    <2>2. V \in SUBSET Nat /\ Reader(PlayerNum, PlayerNum, {DisqualifiedPlayer}) /\ PlayerNum \in Nat
      BY AllApiPlayers
    <2>3. V \cup {PlayerNum} = {1, PlayerNum}
      OBVIOUS
    <2>4. AllApiTable(held(V \cup {PlayerNum}), i + 1)
      BY <1>2, <2>3 DEF AllApiTable, AllApiRows
    <2>5. Script("allAPI", choice)[i] = Should("ranking_visitor", "ranking", As("player", tAll, PlayerNum), Of(1))
      BY <1>2, AllApiSteps, Ground1
    <2> HIDE DEF V
    <2> QED
      BY <2>1, <2>2, <2>4, <2>5, AllApiReadsRanking
  <1> QED
    BY <1>1, <1>2

LEMMA AllApiFinishes ==
  ASSUME NEW known, tAll \in known, NEW i \in {10, 11}, NEW t, AllApiTable(t, i), NEW m, m = PlayerNum - 1
  PROVE  Passes("allAPI", i, t, known, m)
  <1> DEFINE D == {DisqualifiedPlayer}
             V == {1, PlayerNum}
             rows == AllApiRows
  <1>1. Kept(rows, V) /\ tAll # Admin /\ Reader(1, PlayerNum, D) /\ 1 \in V
    BY AllApiFile, AllApiPlayers
  <1>2. CASE i = 10
    <2> DEFINE p == Of(1)
               s == Must("finish", "finish", OrganizerOf(tAll), p)
               q == Request("finish", OrganizerOf(tAll), p)
               u == With(PlayerNum, D, Closed(rows, V))
               d == {}
    <2>1. t = With(PlayerNum, D, Open(rows, V)) /\ AllApiTable(u, i + 1)
      BY <1>2 DEF AllApiTable, AllApiRows
    <2>2. Script("allAPI", choice)[i] = s /\ s.ask = {q} /\ s.status = 200 /\ s.name = "finish"
      BY <1>2, AllApiSteps, MustIs
    <2>3. AllApiFits("finish", d, m, initial.billing)
      BY AllApiFitsRead
    <2> HIDE DEF D, V, rows
    <2>4. Proper(q, tAll) /\ Answer(t, q, known) = Done(u, d)
      BY <1>1, <2>1, AskFinishWith
    <2> HIDE DEF d, p
    <2>5. AllApiFits(s.name, d, m, initial.billing) /\ s.name # "upload"
      BY <2>2, <2>3
    <2> HIDE DEF s, q, u
    <2> QED
      BY <2>1, <2>2, <2>4, <2>5, AllApiSucceeds
  <1>3. CASE i = 11
    <2> DEFINE p == Of(1)
               r == 1
               as == As("player", tAll, r)
               s == Should("final_ranking", "ranking", as, p)
               q == Request("ranking", as, p)
               d == PageOf(rows, 0)
    <2>1. t = With(PlayerNum, D, Closed(rows, V)) /\ AllApiTable(t, i + 1)
      BY <1>3 DEF AllApiTable, AllApiRows
    <2>2. Script("allAPI", choice)[i] = s /\ s.ask = {q} /\ s.status = 200 /\ s.name = "final_ranking"
      BY <1>3, AllApiSteps, ShouldIs
    <2>3. AllApiFits("final_ranking", d, m, initial.billing)
      BY AllApiFitsRead
    <2>4. IsReading(p) /\ p.after = 0
      BY DEF IsReading, Of
    <2>5. r \in Nat /\ Reader(r, PlayerNum, D) /\ r \in V
      BY <1>1
    <2> HIDE DEF D, V, rows, p, r
    <2>6. Proper(q, tAll)
      BY <1>1, <2>4, <2>5, AskRankingClosedWith
    <2>7. Answer(t, q, known) = Done(t, PageOf(rows, p.after))
      BY <1>1, <2>1, <2>4, <2>5, AskRankingClosedWith
    <2>8. Answer(t, q, known) = Done(t, d)
      BY <2>4, <2>7
    <2> HIDE DEF d
    <2>9. AllApiFits(s.name, d, m, initial.billing) /\ s.name # "upload"
      BY <2>2, <2>3
    <2> HIDE DEF s, q
    <2> QED
      BY <2>1, <2>2, <2>6, <2>8, <2>9, AllApiSucceeds
  <1> QED
    BY <1>2, <1>3

(* What is owed for each competition. *)
BillOf(cs) == [c \in DOMAIN cs |-> Report(cs[c])]

LEMMA AskBillOf ==
  ASSUME NEW known, NEW g \in known, g # Admin, NEW n, NEW D, NEW cs, NEW p
  PROVE  LET q == Request("billing", OrganizerOf(g), p)
         IN  /\ Proper(q, g)
             /\ Answer(Holding(n, D, cs), q, known) = Done(Holding(n, D, cs), BillOf(cs))
  BY AskBill DEF BillOf

LEMMA AllApiEnds ==
  ASSUME NEW known, tAll \in known, NEW i \in {12, 13, 14}, NEW t, AllApiTable(t, i), NEW m, m = PlayerNum - 1
  PROVE  Passes("allAPI", i, t, known, m)
  <1> DEFINE D == {DisqualifiedPlayer}
             cs == Append(<<>>, Closed(AllApiRows, {1, PlayerNum}))
             bill == BillOf(cs)
             org == OrganizerOf(tAll)
  <1>1. t = Holding(PlayerNum, D, cs) /\ AllApiTable(t, i + 1)
    BY DEF AllApiTable, With, AllApiRows
  <1>2. tAll # Admin /\ 1 \in 1..PlayerNum /\ 1 \notin D
    BY AllApiPlayers DEF Reader
  <1>3. /\ bill = <<[players |-> PlayerNum - 1, visitors |-> 1, yen |-> 100 * (PlayerNum - 1) + 10]>>
        /\ Cardinality(DOMAIN cs) = 1
    BY AllApiBill DEF BillOf
  <1>4. AllApiFits("billing", bill, m, initial.billing)
    <2> HIDE DEF bill
    <2> QED
      BY <1>3 DEF AllApiFits
  <1>5. AllApiFits("competitions", DOMAIN cs, m, initial.billing)
    <2> DEFINE d == DOMAIN cs
    <2> HIDE DEF d
    <2>1. Cardinality(d) = 1
      BY <1>3 DEF d
    <2>2. AllApiFits("competitions", d, m, initial.billing)
      BY <2>1 DEF AllApiFits
    <2> QED
      BY <2>2 DEF d
  <1> HIDE DEF D, cs
  <1>6. CASE i = 12
    <2> DEFINE s == Should("billing", "billing", org, Nothing)
               q == Request("billing", org, Nothing)
    <2>1. Script("allAPI", choice)[i] = s /\ s.ask = {q} /\ s.status = 200 /\ s.name = "billing"
      BY <1>6, AllApiSteps, ShouldIs
    <2>2. Proper(q, tAll)
      BY <1>2, AskBillOf
    <2>3. Answer(Holding(PlayerNum, D, cs), q, known) = Done(Holding(PlayerNum, D, cs), bill)
      BY <1>2, AskBillOf
    <2> HIDE DEF bill
    <2>4. Answer(t, q, known) = Done(t, bill)
      BY <1>1, <2>3
    <2>5. AllApiFits(s.name, bill, m, initial.billing) /\ s.name # "upload"
      BY <1>4, <2>1
    <2> HIDE DEF s, q
    <2> QED
      BY <1>1, <2>1, <2>2, <2>4, <2>5, AllApiSucceeds
  <1> HIDE DEF bill
  <1> DEFINE d == DOMAIN cs
             r == 1
  <1>7. r \in 1..PlayerNum /\ r \notin D
    BY <1>2
  <1> HIDE DEF r
  <1>8. CASE i = 13
    <2> DEFINE as == As("player", tAll, r)
               s == Should("competitions", "player_competitions", as, Nothing)
               q == Request("player_competitions", as, Nothing)
    <2>1. Script("allAPI", choice)[i] = s /\ s.ask = {q} /\ s.status = 200 /\ s.name = "competitions"
      BY <1>8, AllApiSteps, ShouldIs DEF r
    <2>2. Proper(q, tAll) /\ Answer(t, q, known) = Done(t, d)
      BY <1>1, <1>2, <1>7, AskList
    <2> HIDE DEF d
    <2>3. AllApiFits(s.name, d, m, initial.billing) /\ s.name # "upload"
      BY <1>5, <2>1 DEF d
    <2> HIDE DEF s, q
    <2> QED
      BY <1>1, <2>1, <2>2, <2>3, AllApiSucceeds
  <1>9. CASE i = 14
    <2> DEFINE s == Should("competitions", "organizer_competitions", org, Nothing)
               q == Request("organizer_competitions", org, Nothing)
    <2>1. Script("allAPI", choice)[i] = s /\ s.ask = {q} /\ s.status = 200 /\ s.name = "competitions"
      BY <1>9, AllApiSteps, ShouldIs
    <2>2. Proper(q, tAll) /\ Answer(t, q, known) = Done(t, d)
      BY <1>1, <1>2, <1>7, AskList
    <2> HIDE DEF d
    <2>3. AllApiFits(s.name, d, m, initial.billing) /\ s.name # "upload"
      BY <1>5, <2>1 DEF d
    <2> HIDE DEF s, q
    <2> QED
      BY <1>1, <2>1, <2>2, <2>3, AllApiSucceeds
  <1> QED
    BY <1>6, <1>8, <1>9

LEMMA AllApiPasses ==
  ASSUME NEW known, tAll \in known, NEW i \in 1..14, i # 6, NEW t, AllApiTable(t, i),
         NEW m, i >= 6 => m = PlayerNum - 1
  PROVE  Passes("allAPI", i, t, known, m)
  <1>1. CASE i \in {1, 2, 3}
    BY <1>1, AllApiBegins
  <1>2. CASE i \in {4, 5}
    BY <1>2, AllApiDisqualifies, AllApiUploads
  <1>3. CASE i \in {7, 8, 9}
    <2>1. m = PlayerNum - 1
      BY <1>3
    <2> QED
      BY <1>3, <2>1, AllApiReadsPage, AllApiRankings
  <1>4. CASE i \in {10, 11, 12, 13, 14}
    <2>1. m = PlayerNum - 1
      BY <1>4
    <2> QED
      BY <1>4, <2>1, AllApiFinishes, AllApiEnds
  <1>5. i \in {1, 2, 3} \/ i \in {4, 5} \/ i \in {7, 8, 9} \/ i \in {10, 11, 12, 13, 14}
    OBVIOUS
  <1> QED
    BY <1>1, <1>2, <1>3, <1>4, <1>5
=============================================================================
