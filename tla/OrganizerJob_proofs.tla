-------------------------- MODULE OrganizerJob_proofs --------------------------
(* Theorems about OrganizerJob, for any players, numbers of readers, uploads  *)
(* and jobs, and any size of the channel.                                     *)
EXTENDS OrganizerJob, FiniteSetTheorems, SequenceTheorems, TLAPS

-----------------------------------------------------------------------------
(* The inductive invariant, in parts. *)

TenantTypes ==
    /\ enrolled \in 1..Len(PlayerList)
    /\ scores \in [Job -> SUBSET Player] /\ visitors \in [Job -> SUBSET Player]
    /\ workerCh \subseteq Job \X Player
    /\ running \subseteq Player /\ kicked \subseteq Player /\ kicking \subseteq Player

JobTypes ==
    /\ main \in {"list", "add", "run", "finish", "ended", "failed"} /\ job \in 0..Jobs
    /\ players \subseteq Player /\ playerIDs \subseteq Player
    /\ taken \in Seq(Player) /\ Len(taken) <= Len(PlayerList)

RoutineTypes ==
    /\ uploads \in 0..ScoreRepeat
    /\ scorer \in {"upload", "done"} /\ starter \in {"look", "send", "done"}
    /\ ranker \in [Ranker -> {"check", "get", "answer", "done"}]
    /\ reader \in [Ranker -> Player]
    /\ lastSeen \in [Ranker -> 0..ScoreRepeat] /\ ranks \in [Ranker -> SUBSET Player]
    /\ next \in 1..(Len(PlayerList) + 1) /\ added \in Nat /\ added < next

Flags ==
    /\ finished \in [Job -> BOOLEAN] /\ ctxDone \in BOOLEAN /\ failed \in BOOLEAN
    /\ doneCh \in BOOLEAN /\ scoreDone \in [Ranker -> BOOLEAN]

ResultType == result \in [Job -> {None} \cup 1..Len(PlayerList)]

ChannelFits == IsFiniteSet(workerCh) /\ Cardinality(workerCh) <= ChannelSize

QuietOutside ==
    main # "run" => scorer = "done" /\ starter = "done" /\ \A r \in Ranker : ranker[r] = "done"

(* What is to come has no score, no visit and no result yet. *)
JobsAhead ==
    /\ \A j \in Job : j > job => /\ scores[j] = {} /\ visitors[j] = {}
                                 /\ finished[j] = FALSE /\ result[j] = None
    /\ main \in {"list", "add"} => job < Jobs
    /\ main \in {"run", "finish"} => job \in Job /\ finished[job] = FALSE /\ result[job] = None

PlayersKnown ==
    main \in {"add", "run", "finish"} =>
        players = ToSet(taken) /\ playerIDs \subseteq players /\ players # {}

(* The server has scores of the map's players only, of all of them after the   *)
(* first upload; so have the rankings.                                         *)
ScoresKnown ==
    main \in {"run", "finish"} =>
        /\ scores[job] \subseteq players
        /\ uploads > 0 => scores[job] = players
        /\ \A r \in Ranker : ranks[r] \subseteq players /\ reader[r] \in players

(* doneCh is closed as the uploads end, which they do before the last one only *)
(* when the job has failed or the load is over.                                *)
UploadsOver ==
    /\ main \in {"run", "finish"} => /\ doneCh => scorer = "done"
                                     /\ scorer = "done" => uploads = ScoreRepeat \/ failed \/ ctxDone
    /\ scorer = "upload" => uploads < ScoreRepeat
    /\ main = "finish" => ~failed

SendsListed == starter = "send" => next <= Len(taken)

(* A reader that has seen doneCh closed has the ranking of the last upload.    *)
RankingsOver ==
    main \in {"run", "finish"} =>
        \A r \in Ranker :
            /\ scoreDone[r] => doneCh
            /\ ranker[r] = "answer" /\ scoreDone[r] => lastSeen[r] = uploads
            /\ ranker[r] = "done" => \/ lastSeen[r] = uploads /\ doneCh
                                     \/ failed \/ ctxDone

IInv == /\ TenantTypes /\ JobTypes /\ RoutineTypes /\ Flags /\ ResultType
        /\ ChannelFits /\ QuietOutside /\ JobsAhead /\ PlayersKnown /\ ScoresKnown
        /\ UploadsOver /\ SendsListed /\ RankingsOver

-----------------------------------------------------------------------------
(* The lists. *)

LEMMA Assumed ==
  /\ Len(PlayerList) \in Nat /\ PlayerList \in Seq(Player) /\ Enrolled \in 1..Len(PlayerList)
  /\ MaxScoredPlayer \in Nat /\ ScoreRepeat \in Nat /\ ScoreRepeat > 0
  /\ ChannelSize \in Nat /\ ChannelSize > 0 /\ Jobs \in Nat
  BY OrganizerJobAssumption

LEMMA ListOf ==
  ASSUME enrolled \in 1..Len(PlayerList)
  PROVE  /\ List \in Seq(Player) /\ Len(List) = enrolled
         /\ \A i \in 1..enrolled : List[i] = PlayerList[Len(PlayerList) - enrolled + i]
  <1>1. PlayerList \in Seq(Player) /\ Len(PlayerList) \in Nat
    BY Assumed
  <1>2. enrolled \in Nat /\ enrolled >= 1 /\ enrolled <= Len(PlayerList)
    BY <1>1
  <1> DEFINE m == Len(PlayerList) - enrolled + 1
  <1>3. /\ m \in Nat /\ m >= 1 /\ m <= Len(PlayerList)
        /\ Len(PlayerList) - m + 1 = enrolled
        /\ \A i \in 1..enrolled : m + i - 1 = Len(PlayerList) - enrolled + i
    BY <1>1, <1>2
  <1>4. List = SubSeq(PlayerList, m, Len(PlayerList))
    BY DEF List
  <1> HIDE DEF m
  <1>5. /\ List \in Seq(Player) /\ Len(List) = Len(PlayerList) - m + 1
        /\ \A i \in 1..(Len(PlayerList) - m + 1) : List[i] = PlayerList[m + i - 1]
    BY <1>1, <1>3, <1>4
  <1> QED
    BY <1>3, <1>5

LEMMA TakenOf ==
  ASSUME enrolled \in 1..Len(PlayerList)
  PROVE  Taken \in Seq(Player) /\ Len(Taken) <= Len(PlayerList)
  <1>1. List \in Seq(Player) /\ Len(List) = enrolled
    BY ListOf
  <1>2. Len(PlayerList) \in Nat
    BY Assumed
  <1>3. CASE MaxScoredPlayer \in 1..Len(List)
    <2>1. Taken = SubSeq(List, 1, MaxScoredPlayer)
      BY <1>3 DEF Taken
    <2>2. Taken \in Seq(Player) /\ Len(Taken) = MaxScoredPlayer
      BY <1>1, <1>3, <2>1
    <2> QED
      BY <1>1, <1>2, <1>3, <2>2
  <1>4. CASE MaxScoredPlayer \notin 1..Len(List)
    BY <1>1, <1>2, <1>4 DEF Taken
  <1> QED
    BY <1>3, <1>4

LEMMA SetOfList ==
  ASSUME NEW list \in Seq(Player)
  PROVE  /\ ToSet(list) \subseteq Player
         /\ IsFiniteSet(ToSet(list)) /\ Cardinality(ToSet(list)) <= Len(list)
         /\ \A i \in 1..Len(list) : list[i] \in ToSet(list)
  <1>1. Len(list) \in Nat /\ DOMAIN list = 1..Len(list) /\ \A i \in 1..Len(list) : list[i] \in Player
    OBVIOUS
  <1>2. ToSet(list) = {list[i] : i \in 1..Len(list)}
    BY <1>1 DEF ToSet
  <1> DEFINE h == [i \in 1..Len(list) |-> list[i]]
  <1>3. h \in Surjection(1..Len(list), ToSet(list))
    BY <1>2 DEF Surjection
  <1>4. \A n \in Nat : IsFiniteSet(1..n) /\ Cardinality(1..n) = n
    BY FS_Interval
  <1>5. IsFiniteSet(ToSet(list)) /\ Cardinality(ToSet(list)) <= Len(list)
    <2> HIDE DEF h
    <2> QED
      BY <1>1, <1>3, <1>4, FS_Surjection
  <1> QED
    BY <1>1, <1>2, <1>4, <1>5

-----------------------------------------------------------------------------
LEMMA Initially == Init => IInv
  <1> SUFFICES ASSUME Init PROVE IInv
    OBVIOUS
  <1>1. TenantTypes
    BY Assumed DEF Init, TenantTypes
  <1>2. JobTypes
    BY Assumed DEF Init, JobTypes
  <1>3. RoutineTypes
    <2>1. Len(PlayerList) >= 1 /\ PlayerList[1] \in Player
      BY Assumed
    <2> QED
      BY <2>1, Assumed DEF Init, RoutineTypes
  <1>4. Flags
    BY Zenon DEF Init, Flags
  <1>5. ResultType
    BY DEF Init, ResultType
  <1>6. ChannelFits
    BY Assumed, FS_EmptySet DEF Init, ChannelFits
  <1>7. JobsAhead
    BY Assumed DEF Init, JobsAhead
  <1>8. QuietOutside /\ PlayersKnown /\ ScoresKnown /\ UploadsOver /\ SendsListed /\ RankingsOver
    BY DEF Init, QuietOutside, PlayersKnown, ScoresKnown, UploadsOver, SendsListed, RankingsOver
  <1> QED
    BY <1>1, <1>2, <1>3, <1>4, <1>5, <1>6, <1>7, <1>8 DEF IInv

-----------------------------------------------------------------------------
(* Each action keeps it. *)

LEMMA BeginKeeps ==
  ASSUME IInv, Begin
  PROVE  IInv'
  <1>1. /\ enrolled' = enrolled /\ scores' = scores /\ visitors' = visitors /\ finished' = finished
        /\ ctxDone' = ctxDone /\ workerCh' = workerCh /\ running' = running /\ kicked' = kicked
        /\ kicking' = kicking /\ job' = job /\ players' = players /\ playerIDs' = playerIDs
        /\ taken' = taken /\ result' = result /\ doneCh' = doneCh /\ uploads' = uploads
        /\ scorer' = scorer /\ ranker' = ranker /\ reader' = reader /\ scoreDone' = scoreDone
        /\ lastSeen' = lastSeen /\ ranks' = ranks /\ starter' = starter /\ next' = next
        /\ added' = added
    BY DEF Begin, outside, server, load, kicks, listed, plan, uploading, rankers, starting, goroutines
  <1>2. /\ main' = "list" /\ failed' = FALSE /\ main \in {"ended", "failed"} /\ job < Jobs
    BY DEF Begin
  <1>3. TenantTypes' /\ RoutineTypes' /\ ResultType' /\ ChannelFits'
    BY <1>1 DEF IInv, TenantTypes, RoutineTypes, ResultType, ChannelFits
  <1>4. SendsListed'
    BY <1>1 DEF IInv, SendsListed
  <1>5. JobTypes'
    BY <1>1, <1>2 DEF IInv, JobTypes
  <1>6. Flags'
    BY <1>1, <1>2, Zenon DEF IInv, Flags
  <1>7. QuietOutside'
    BY <1>1, <1>2 DEF IInv, QuietOutside
  <1>8. JobsAhead'
    BY <1>1, <1>2 DEF IInv, JobsAhead
  <1>9. PlayersKnown'
    BY <1>1, <1>2 DEF IInv, PlayersKnown
  <1>10. ScoresKnown'
    BY <1>1, <1>2 DEF IInv, ScoresKnown
  <1>11. UploadsOver'
    BY <1>1, <1>2 DEF IInv, UploadsOver
  <1>12. RankingsOver'
    BY <1>1, <1>2 DEF IInv, RankingsOver
  <1> QED
    BY <1>3, <1>4, <1>5, <1>6, <1>7, <1>8, <1>9, <1>10, <1>11, <1>12 DEF IInv

LEMMA AddPlayersKeeps ==
  ASSUME IInv, AddPlayers
  PROVE  IInv'
  <1>1. /\ scores' = scores /\ visitors' = visitors /\ finished' = finished /\ ctxDone' = ctxDone
        /\ workerCh' = workerCh /\ running' = running /\ kicked' = kicked /\ kicking' = kicking
        /\ main' = main /\ job' = job /\ players' = players /\ playerIDs' = playerIDs
        /\ taken' = taken /\ result' = result /\ failed' = failed /\ doneCh' = doneCh
        /\ uploads' = uploads /\ scorer' = scorer /\ ranker' = ranker /\ reader' = reader
        /\ scoreDone' = scoreDone /\ lastSeen' = lastSeen /\ ranks' = ranks /\ starter' = starter
        /\ next' = next /\ added' = added
    BY DEF AddPlayers, outside, server, load, kicks, listed, plan, uploading, rankers, starting, goroutines
  <1>2. /\ enrolled' = enrolled + 1 /\ enrolled < Len(PlayerList)
    BY DEF AddPlayers
  <1>3. JobTypes' /\ RoutineTypes' /\ Flags' /\ ResultType'
    BY <1>1 DEF IInv, JobTypes, RoutineTypes, Flags, ResultType
  <1>4. ChannelFits' /\ QuietOutside' /\ JobsAhead' /\ PlayersKnown'
    BY <1>1 DEF IInv, ChannelFits, QuietOutside, JobsAhead, PlayersKnown
  <1>5. ScoresKnown' /\ UploadsOver' /\ SendsListed' /\ RankingsOver'
    BY <1>1 DEF IInv, ScoresKnown, UploadsOver, SendsListed, RankingsOver
  <1>6. TenantTypes'
    BY <1>1, <1>2,  Assumed DEF IInv, TenantTypes
  <1> QED
    BY <1>3, <1>4, <1>5, <1>6 DEF IInv

LEMMA ListPlayersKeeps ==
  ASSUME IInv, ListPlayers
  PROVE  IInv'
  <1>1. /\ enrolled' = enrolled /\ scores' = scores /\ visitors' = visitors /\ finished' = finished
        /\ ctxDone' = ctxDone /\ workerCh' = workerCh /\ running' = running /\ kicked' = kicked
        /\ kicking' = kicking /\ job' = job /\ result' = result /\ failed' = failed
        /\ doneCh' = doneCh /\ uploads' = uploads /\ scorer' = scorer /\ ranker' = ranker
        /\ reader' = reader /\ scoreDone' = scoreDone /\ lastSeen' = lastSeen /\ ranks' = ranks
        /\ starter' = starter /\ next' = next /\ added' = added
    BY DEF ListPlayers, outside, server, load, kicks, listed, plan, uploading, rankers, starting, goroutines
  <1>2. /\ main = "list" /\ taken' = Taken /\ players' = ToSet(Taken) /\ playerIDs' = ToSet(Taken)
        /\ main' = IF Qualified(Taken) = {} THEN "failed" ELSE "add"
    BY DEF ListPlayers
  <1>3. TenantTypes' /\ Flags' /\ ResultType' /\ ChannelFits'
    BY <1>1 DEF IInv, TenantTypes, Flags, ResultType, ChannelFits
  <1>4. JobTypes'
    <2>1. Taken \in Seq(Player) /\ Len(Taken) <= Len(PlayerList)
      BY TakenOf DEF IInv, TenantTypes
    <2>2. ToSet(Taken) \subseteq Player
      BY <2>1, SetOfList
    <2> QED
      BY <1>1, <1>2, <2>1, <2>2 DEF IInv, JobTypes
  <1>5. RoutineTypes'
    BY <1>1, <1>2 DEF IInv, RoutineTypes
  <1>6. QuietOutside'
    BY <1>1, <1>2 DEF IInv, QuietOutside
  <1>7. JobsAhead'
    BY <1>1, <1>2 DEF IInv, JobsAhead
  <1>8. PlayersKnown'
    <2> SUFFICES ASSUME main' \in {"add", "run", "finish"}
                 PROVE  players' = ToSet(taken') /\ playerIDs' \subseteq players' /\ players' # {}
      BY DEF PlayersKnown
    <2>1. Qualified(Taken) # {}
      BY <1>2
    <2>2. ToSet(Taken) # {}
      BY <2>1 DEF Qualified
    <2> QED
      BY <1>2, <2>2
  <1>9. ScoresKnown'
    BY <1>1, <1>2 DEF IInv, ScoresKnown
  <1>10. UploadsOver'
    BY <1>1, <1>2 DEF IInv, UploadsOver
  <1>11. SendsListed'
    BY <1>1, <1>2 DEF IInv, QuietOutside, SendsListed
  <1>12. RankingsOver'
    BY <1>1, <1>2 DEF IInv, RankingsOver
  <1> QED
    BY <1>3, <1>4, <1>5, <1>6, <1>7, <1>8, <1>9, <1>10, <1>11, <1>12 DEF IInv

LEMMA AddCompetitionKeeps ==
  ASSUME IInv, AddCompetition
  PROVE  IInv'
  <1>1. /\ enrolled' = enrolled /\ scores' = scores /\ visitors' = visitors /\ finished' = finished
        /\ ctxDone' = ctxDone /\ workerCh' = workerCh /\ running' = running /\ kicked' = kicked
        /\ kicking' = kicking /\ players' = players /\ playerIDs' = playerIDs /\ taken' = taken
        /\ result' = result /\ failed' = failed
    BY DEF AddCompetition, outside, server, load, kicks, listed, plan, uploading, rankers, starting, goroutines
  <1>2. /\ main = "add" /\ main' = "run" /\ job' = job + 1
        /\ doneCh' = FALSE /\ uploads' = 0 /\ scorer' = "upload"
        /\ ranker' = [r \in Ranker |-> "check"] /\ reader' \in [Ranker -> Qualified(taken)]
        /\ scoreDone' = [r \in Ranker |-> FALSE]
        /\ lastSeen' = [r \in Ranker |-> 0] /\ ranks' = [r \in Ranker |-> {}]
        /\ starter' = "look" /\ next' = 1 /\ added' = 0
    BY DEF AddCompetition
  <1>3. TenantTypes' /\ ResultType' /\ ChannelFits'
    BY <1>1 DEF IInv, TenantTypes, ResultType, ChannelFits
  <1>4. JobTypes'
    BY <1>1, <1>2, Assumed DEF IInv, JobTypes, JobsAhead
  <1>5. RoutineTypes'
    <2>1. Qualified(taken) \subseteq Player
      BY SetOfList DEF IInv, JobTypes, Qualified
    <2>2. reader' \in [Ranker -> Player]
      BY <1>2, <2>1
    <2>3. 0 \in 0..ScoreRepeat /\ 1 \in 1..(Len(PlayerList) + 1)
      BY Assumed
    <2> QED
      BY <1>1, <1>2, <2>2, <2>3 DEF IInv, RoutineTypes
  <1>6. Flags'
    BY <1>1, <1>2, Zenon DEF IInv, Flags
  <1>7. QuietOutside'
    BY <1>1, <1>2 DEF IInv, QuietOutside
  <1>8. JobsAhead'
    <2>1. job \in Nat /\ job < Jobs /\ Jobs \in Nat /\ job + 1 \in Job /\ job + 1 > job
      BY <1>2, Assumed DEF IInv, JobTypes, JobsAhead, Job
    <2>2. \A j \in Job : j > job' => j > job
      BY <1>2, <2>1 DEF Job
    <2> QED
      BY <1>1, <1>2, <2>1, <2>2 DEF IInv, JobsAhead
  <1>9. PlayersKnown'
    BY <1>1, <1>2 DEF IInv, PlayersKnown
  <1>10. ScoresKnown'
    <2>1. job + 1 \in Job /\ job + 1 > job
      BY <1>2, Assumed DEF IInv, JobTypes, JobsAhead, Job
    <2>2. scores[job + 1] = {}
      BY <2>1 DEF IInv, JobsAhead
    <2>3. Qualified(taken) \subseteq players
      BY <1>2 DEF IInv, PlayersKnown, Qualified
    <2>4. \A r \in Ranker : ranks'[r] = {} /\ reader'[r] \in Qualified(taken)
      BY <1>2
    <2> QED
      BY <1>1, <1>2, <2>2, <2>3, <2>4 DEF ScoresKnown
  <1>11. UploadsOver'
    BY <1>1, <1>2, Assumed DEF IInv, UploadsOver
  <1>12. SendsListed'
    BY <1>1, <1>2 DEF IInv, SendsListed
  <1>13. RankingsOver'
    BY <1>1, <1>2 DEF IInv, RankingsOver
  <1> QED
    BY <1>3, <1>4, <1>5, <1>6, <1>7, <1>8, <1>9, <1>10, <1>11, <1>12, <1>13 DEF IInv

LEMMA WaitKeeps ==
  ASSUME IInv, Wait
  PROVE  IInv'
  <1>1. /\ enrolled' = enrolled /\ scores' = scores /\ visitors' = visitors /\ finished' = finished
        /\ ctxDone' = ctxDone /\ workerCh' = workerCh /\ running' = running /\ kicked' = kicked
        /\ kicking' = kicking /\ job' = job /\ players' = players /\ playerIDs' = playerIDs
        /\ taken' = taken /\ result' = result /\ failed' = failed /\ doneCh' = doneCh
        /\ uploads' = uploads /\ scorer' = scorer /\ ranker' = ranker /\ reader' = reader
        /\ scoreDone' = scoreDone /\ lastSeen' = lastSeen /\ ranks' = ranks /\ starter' = starter
        /\ next' = next /\ added' = added
    BY DEF Wait, outside, server, load, kicks, listed, plan, uploading, rankers, starting, goroutines
  <1>2. /\ main = "run" /\ scorer = "done" /\ starter = "done"
        /\ \A r \in Ranker : ranker[r] = "done"
        /\ main' = IF failed THEN "failed" ELSE "finish"
    BY DEF Wait
  <1>3. TenantTypes' /\ RoutineTypes' /\ Flags' /\ ResultType'
    BY <1>1 DEF IInv, TenantTypes, RoutineTypes, Flags, ResultType
  <1>4. ChannelFits' /\ SendsListed'
    BY <1>1 DEF IInv, ChannelFits, SendsListed
  <1>5. JobTypes'
    BY <1>1, <1>2 DEF IInv, JobTypes
  <1>6. QuietOutside'
    BY <1>1, <1>2 DEF IInv, QuietOutside
  <1>7. JobsAhead'
    BY <1>1, <1>2 DEF IInv, JobsAhead
  <1>8. PlayersKnown'
    BY <1>1, <1>2 DEF IInv, PlayersKnown
  <1>9. ScoresKnown'
    BY <1>1, <1>2 DEF IInv, ScoresKnown
  <1>10. UploadsOver'
    BY <1>1, <1>2 DEF IInv, UploadsOver
  <1>11. RankingsOver'
    BY <1>1, <1>2 DEF IInv, RankingsOver
  <1> QED
    BY <1>3, <1>4, <1>5, <1>6, <1>7, <1>8, <1>9, <1>10, <1>11 DEF IInv

LEMMA FinishKeeps ==
  ASSUME IInv, Finish
  PROVE  IInv'
  <1>1. /\ enrolled' = enrolled /\ scores' = scores /\ visitors' = visitors /\ ctxDone' = ctxDone
        /\ workerCh' = workerCh /\ running' = running /\ kicked' = kicked /\ kicking' = kicking
        /\ job' = job /\ players' = players /\ playerIDs' = playerIDs /\ taken' = taken
        /\ failed' = failed /\ doneCh' = doneCh /\ uploads' = uploads /\ scorer' = scorer
        /\ ranker' = ranker /\ reader' = reader /\ scoreDone' = scoreDone /\ lastSeen' = lastSeen
        /\ ranks' = ranks /\ starter' = starter /\ next' = next /\ added' = added
    BY DEF Finish, outside, server, load, kicks, listed, plan, uploading, rankers, starting, goroutines
  <1>2. /\ main = "finish" /\ main' = "ended"
        /\ finished' = [finished EXCEPT ![job] = TRUE]
        /\ result' = [result EXCEPT ![job] = Cardinality(players)]
    BY DEF Finish
  <1>3. TenantTypes' /\ RoutineTypes' /\ ChannelFits' /\ SendsListed'
    BY <1>1 DEF IInv, TenantTypes, RoutineTypes, ChannelFits, SendsListed
  <1>4. JobTypes'
    BY <1>1, <1>2 DEF IInv, JobTypes
  <1>5. Flags'
    BY <1>1, <1>2, Zenon DEF IInv, Flags
  <1>6. ResultType'
    <2>1. players = ToSet(taken) /\ players # {} /\ taken \in Seq(Player) /\ Len(taken) <= Len(PlayerList)
      BY <1>2 DEF IInv, JobTypes, PlayersKnown
    <2>2. IsFiniteSet(players) /\ Cardinality(players) <= Len(taken)
      BY <2>1, SetOfList
    <2>3. Cardinality(players) \in Nat /\ Cardinality(players) # 0
      BY <2>1, <2>2, FS_CardinalityType, FS_EmptySet
    <2>4. Cardinality(players) \in 1..Len(PlayerList)
      BY <2>1, <2>2, <2>3, Assumed
    <2> QED
      BY <1>2, <2>4 DEF IInv, ResultType
  <1>7. QuietOutside'
    BY <1>1, <1>2 DEF IInv, QuietOutside
  <1>8. JobsAhead'
    <2>1. \A j \in Job : j > job => finished'[j] = FALSE
      <3> SUFFICES ASSUME NEW j \in Job, j > job PROVE finished'[j] = FALSE
        OBVIOUS
      <3>1. j # job /\ finished[j] = FALSE
        BY DEF IInv, JobTypes, JobsAhead, Job
      <3> QED
        BY <1>2, <3>1 DEF IInv, Flags
    <2>2. \A j \in Job : j > job => result'[j] = None
      <3> SUFFICES ASSUME NEW j \in Job, j > job PROVE result'[j] = None
        OBVIOUS
      <3>1. j # job /\ result[j] = None
        BY DEF IInv, JobTypes, JobsAhead, Job
      <3> QED
        BY <1>2, <3>1 DEF IInv, ResultType
    <2> QED
      BY <1>1, <1>2, <2>1, <2>2 DEF IInv, JobsAhead
  <1>9. PlayersKnown'
    BY <1>1, <1>2 DEF IInv, PlayersKnown
  <1>10. ScoresKnown'
    BY <1>1, <1>2 DEF IInv, ScoresKnown
  <1>11. UploadsOver'
    BY <1>1, <1>2 DEF IInv, UploadsOver
  <1>12. RankingsOver'
    BY <1>1, <1>2 DEF IInv, RankingsOver
  <1> QED
    BY <1>3, <1>4, <1>5, <1>6, <1>7, <1>8, <1>9, <1>10, <1>11, <1>12 DEF IInv

LEMMA JobFailsKeeps ==
  ASSUME IInv, JobFails
  PROVE  IInv'
  <1>1. /\ enrolled' = enrolled /\ scores' = scores /\ visitors' = visitors /\ ctxDone' = ctxDone
        /\ workerCh' = workerCh /\ running' = running /\ kicked' = kicked /\ kicking' = kicking
        /\ job' = job /\ players' = players /\ playerIDs' = playerIDs /\ taken' = taken
        /\ result' = result /\ failed' = failed /\ doneCh' = doneCh /\ uploads' = uploads
        /\ scorer' = scorer /\ ranker' = ranker /\ reader' = reader /\ scoreDone' = scoreDone
        /\ lastSeen' = lastSeen /\ ranks' = ranks /\ starter' = starter /\ next' = next
        /\ added' = added
    BY DEF JobFails, outside, server, load, kicks, listed, plan, uploading, rankers, starting, goroutines
  <1>2. /\ main \in {"list", "add", "finish"} /\ main' = "failed"
        /\ finished' = finished \/ (main = "finish" /\ finished' = [finished EXCEPT ![job] = TRUE])
    BY DEF JobFails
  <1>3. TenantTypes' /\ RoutineTypes' /\ ResultType' /\ ChannelFits'
    BY <1>1 DEF IInv, TenantTypes, RoutineTypes, ResultType, ChannelFits
  <1>4. SendsListed'
    BY <1>1 DEF IInv, SendsListed
  <1>5. JobTypes'
    BY <1>1, <1>2 DEF IInv, JobTypes
  <1>6. Flags'
    BY <1>1, <1>2, Zenon DEF IInv, Flags
  <1>7. QuietOutside'
    BY <1>1, <1>2 DEF IInv, QuietOutside
  <1>8. JobsAhead'
    <2>1. \A j \in Job : j > job => finished'[j] = FALSE
      <3> SUFFICES ASSUME NEW j \in Job, j > job PROVE finished'[j] = FALSE
        OBVIOUS
      <3>1. j # job /\ finished[j] = FALSE
        BY DEF IInv, JobTypes, JobsAhead, Job
      <3> QED
        BY <1>2, <3>1 DEF IInv, Flags
    <2> QED
      BY <1>1, <1>2, <2>1 DEF IInv, JobsAhead
  <1>9. PlayersKnown'
    BY <1>1, <1>2 DEF IInv, PlayersKnown
  <1>10. ScoresKnown'
    BY <1>1, <1>2 DEF IInv, ScoresKnown
  <1>11. UploadsOver'
    BY <1>1, <1>2 DEF IInv, UploadsOver
  <1>12. RankingsOver'
    BY <1>1, <1>2 DEF IInv, RankingsOver
  <1> QED
    BY <1>3, <1>4, <1>5, <1>6, <1>7, <1>8, <1>9, <1>10, <1>11, <1>12 DEF IInv

LEMMA UploadKeeps ==
  ASSUME IInv, Upload
  PROVE  IInv'
  <1>1. /\ enrolled' = enrolled /\ visitors' = visitors /\ finished' = finished /\ ctxDone' = ctxDone
        /\ workerCh' = workerCh /\ running' = running /\ kicked' = kicked /\ kicking' = kicking
        /\ main' = main /\ job' = job /\ players' = players /\ playerIDs' = playerIDs
        /\ taken' = taken /\ result' = result /\ failed' = failed /\ ranker' = ranker
        /\ reader' = reader /\ scoreDone' = scoreDone /\ lastSeen' = lastSeen /\ ranks' = ranks
        /\ starter' = starter /\ next' = next /\ added' = added
    BY DEF Upload, outside, server, load, kicks, listed, plan, uploading, rankers, starting, goroutines
  <1>2. /\ scorer = "upload" /\ scores' \in Uploaded /\ uploads' = uploads + 1
        /\ scorer' = (IF uploads' = ScoreRepeat THEN "done" ELSE "upload")
        /\ doneCh' = (scorer' = "done")
    BY DEF Upload
  <1>a. main = "run" /\ job \in Job /\ \E drawn \in playerIDs :
            scores' = [scores EXCEPT ![job] = players \cup {drawn}]
    <2>1. main = "run"
      BY <1>2 DEF IInv, QuietOutside
    <2> QED
      BY <1>2, <2>1 DEF IInv, JobsAhead, Uploaded
  <1>b. scores'[job] = players
    BY <1>a DEF IInv, TenantTypes, PlayersKnown
  <1>3. JobTypes' /\ ResultType' /\ ChannelFits' /\ PlayersKnown'
    BY <1>1 DEF IInv, JobTypes, ResultType, ChannelFits, PlayersKnown
  <1>4. SendsListed'
    BY <1>1 DEF IInv, SendsListed
  <1>5. TenantTypes'
    BY <1>1, <1>2, <1>a DEF IInv, TenantTypes, JobTypes
  <1>6. RoutineTypes'
    <2>1. uploads' \in 0..ScoreRepeat
      BY <1>2, Assumed DEF IInv, RoutineTypes, UploadsOver
    <2> QED
      BY <1>1, <1>2, <2>1 DEF IInv, RoutineTypes
  <1>7. Flags'
    BY <1>1, <1>2, Zenon DEF IInv, Flags
  <1>8. QuietOutside'
    BY <1>1, <1>2 DEF IInv, QuietOutside
  <1>9. JobsAhead'
    <2>1. \A j \in Job : j > job => scores'[j] = scores[j]
      <3> SUFFICES ASSUME NEW j \in Job, j > job PROVE scores'[j] = scores[j]
        OBVIOUS
      <3>1. j # job
        BY DEF IInv, JobTypes, Job
      <3> QED
        BY <1>a, <3>1 DEF IInv, TenantTypes
    <2> QED
      BY <1>1, <1>2, <2>1 DEF IInv, JobsAhead
  <1>10. ScoresKnown'
    BY <1>1, <1>2, <1>b DEF IInv, ScoresKnown
  <1>11. UploadsOver'
    <2>1. uploads \in Nat /\ uploads < ScoreRepeat
      BY <1>2, Assumed DEF IInv, RoutineTypes, UploadsOver
    <2>2. scorer' = "upload" => uploads' < ScoreRepeat
      BY <1>2, <2>1, Assumed
    <2>3. scorer' = "done" => uploads' = ScoreRepeat
      BY <1>2
    <2>4. doneCh' => scorer' = "done"
      BY <1>2
    <2> QED
      BY <1>1, <1>a, <2>2, <2>3, <2>4 DEF UploadsOver
  <1>12. RankingsOver'
    <2> SUFFICES ASSUME NEW r \in Ranker
                 PROVE  /\ scoreDone[r] => doneCh'
                        /\ ranker[r] = "answer" /\ scoreDone[r] => lastSeen[r] = uploads'
                        /\ ranker[r] = "done" => \/ lastSeen[r] = uploads' /\ doneCh'
                                                 \/ failed \/ ctxDone
      BY <1>1, Zenon DEF RankingsOver
    <2>1. ~doneCh
      BY <1>2, <1>a DEF IInv, UploadsOver
    <2> QED
      BY <1>a, <2>1 DEF IInv, RankingsOver
  <1> QED
    BY <1>3, <1>4, <1>5, <1>6, <1>7, <1>8, <1>9, <1>10, <1>11, <1>12 DEF IInv

LEMMA UploadFailsKeeps ==
  ASSUME IInv, UploadFails
  PROVE  IInv'
  <1>1. /\ enrolled' = enrolled /\ visitors' = visitors /\ finished' = finished /\ ctxDone' = ctxDone
        /\ workerCh' = workerCh /\ running' = running /\ kicked' = kicked /\ kicking' = kicking
        /\ main' = main /\ job' = job /\ players' = players /\ playerIDs' = playerIDs
        /\ taken' = taken /\ result' = result /\ uploads' = uploads /\ ranker' = ranker
        /\ reader' = reader /\ scoreDone' = scoreDone /\ lastSeen' = lastSeen /\ ranks' = ranks
        /\ starter' = starter /\ next' = next /\ added' = added
    BY DEF UploadFails, outside, server, load, kicks, listed, plan, uploading, rankers, starting, goroutines
  <1>2. /\ scorer = "upload" /\ scorer' = "done" /\ doneCh' = TRUE
        /\ failed' = TRUE \/ (ctxDone /\ failed' = failed)
        /\ scores' = scores \/ scores' \in Uploaded
    BY DEF UploadFails
  <1>a. main = "run" /\ job \in Job /\ (\/ scores' = scores
                                         \/ \E drawn \in playerIDs :
                                               scores' = [scores EXCEPT ![job] = players \cup {drawn}])
    <2>1. main = "run"
      BY <1>2 DEF IInv, QuietOutside
    <2> QED
      BY <1>2, <2>1 DEF IInv, JobsAhead, Uploaded
  <1>b. scores'[job] = scores[job] \/ scores'[job] = players
    BY <1>a DEF IInv, TenantTypes, PlayersKnown
  <1>3. JobTypes' /\ ResultType' /\ ChannelFits' /\ PlayersKnown'
    BY <1>1 DEF IInv, JobTypes, ResultType, ChannelFits, PlayersKnown
  <1>4. SendsListed'
    BY <1>1 DEF IInv, SendsListed
  <1>5. TenantTypes'
    BY <1>1, <1>2, <1>a DEF IInv, TenantTypes, JobTypes
  <1>6. RoutineTypes'
    BY <1>1, <1>2 DEF IInv, RoutineTypes
  <1>7. Flags'
    BY <1>1, <1>2, Zenon DEF IInv, Flags
  <1>8. QuietOutside'
    BY <1>1, <1>2 DEF IInv, QuietOutside
  <1>9. JobsAhead'
    <2>1. \A j \in Job : j > job => scores'[j] = scores[j]
      <3> SUFFICES ASSUME NEW j \in Job, j > job PROVE scores'[j] = scores[j]
        OBVIOUS
      <3>1. j # job
        BY DEF IInv, JobTypes, Job
      <3> QED
        BY <1>a, <3>1 DEF IInv, TenantTypes
    <2> QED
      BY <1>1, <1>2, <2>1 DEF IInv, JobsAhead
  <1>10. ScoresKnown'
    BY <1>1, <1>2, <1>b DEF IInv, ScoresKnown
  <1>11. UploadsOver'
    <2>1. failed' \/ ctxDone'
      BY <1>1, <1>2
    <2> QED
      BY <1>1, <1>2, <1>a, <2>1 DEF UploadsOver
  <1>12. RankingsOver'
    BY <1>1, <1>2 DEF IInv, RankingsOver
  <1> QED
    BY <1>3, <1>4, <1>5, <1>6, <1>7, <1>8, <1>9, <1>10, <1>11, <1>12 DEF IInv

LEMMA CheckDoneKeeps ==
  ASSUME IInv, NEW r \in Ranker, CheckDone(r)
  PROVE  IInv'
  <1>1. /\ enrolled' = enrolled /\ scores' = scores /\ visitors' = visitors /\ finished' = finished
        /\ ctxDone' = ctxDone /\ workerCh' = workerCh /\ running' = running /\ kicked' = kicked
        /\ kicking' = kicking /\ main' = main /\ job' = job /\ players' = players
        /\ playerIDs' = playerIDs /\ taken' = taken /\ result' = result /\ failed' = failed
        /\ doneCh' = doneCh /\ uploads' = uploads /\ scorer' = scorer /\ reader' = reader
        /\ lastSeen' = lastSeen /\ ranks' = ranks /\ starter' = starter /\ next' = next
        /\ added' = added
    BY DEF CheckDone, outside, server, load, kicks, listed, plan, uploading, rankers, starting, goroutines
  <1>2. /\ ranker[r] = "check" /\ scoreDone' = [scoreDone EXCEPT ![r] = doneCh]
        /\ ranker' = [ranker EXCEPT ![r] = "get"]
    BY DEF CheckDone
  <1>3. TenantTypes' /\ JobTypes' /\ ResultType' /\ ChannelFits'
    BY <1>1 DEF IInv, TenantTypes, JobTypes, ResultType, ChannelFits
  <1>4. JobsAhead' /\ PlayersKnown' /\ ScoresKnown' /\ UploadsOver'
    BY <1>1 DEF IInv, JobsAhead, PlayersKnown, ScoresKnown, UploadsOver
  <1>5. SendsListed'
    BY <1>1 DEF IInv, SendsListed
  <1>6. RoutineTypes'
    BY <1>1, <1>2 DEF IInv, RoutineTypes
  <1>7. Flags'
    BY <1>1, <1>2, Zenon DEF IInv, Flags
  <1>8. QuietOutside'
    BY <1>1, <1>2 DEF IInv, QuietOutside
  <1>9. RankingsOver'
    BY <1>1, <1>2 DEF IInv, RankingsOver
  <1> QED
    BY <1>3, <1>4, <1>5, <1>6, <1>7, <1>8, <1>9 DEF IInv

LEMMA GetRankingKeeps ==
  ASSUME IInv, NEW r \in Ranker, GetRanking(r)
  PROVE  IInv'
  <1>1. /\ enrolled' = enrolled /\ scores' = scores /\ finished' = finished /\ ctxDone' = ctxDone
        /\ workerCh' = workerCh /\ running' = running /\ kicked' = kicked /\ kicking' = kicking
        /\ main' = main /\ job' = job /\ players' = players /\ playerIDs' = playerIDs
        /\ taken' = taken /\ result' = result /\ failed' = failed /\ doneCh' = doneCh
        /\ uploads' = uploads /\ scorer' = scorer /\ reader' = reader /\ scoreDone' = scoreDone
        /\ starter' = starter /\ next' = next /\ added' = added
    BY DEF GetRanking, outside, server, load, kicks, listed, plan, uploading, rankers, starting, goroutines
  <1>2. /\ ranker[r] = "get" /\ visitors' = [visitors EXCEPT ![job] = @ \cup {reader[r]}]
        /\ lastSeen' = [lastSeen EXCEPT ![r] = uploads]
        /\ ranks' = [ranks EXCEPT ![r] = scores[job]]
        /\ ranker' = [ranker EXCEPT ![r] = "answer"]
    BY DEF GetRanking
  <1>3. JobTypes' /\ Flags' /\ ResultType' /\ ChannelFits'
    BY <1>1 DEF IInv, JobTypes, Flags, ResultType, ChannelFits
  <1>4. PlayersKnown' /\ UploadsOver' /\ SendsListed'
    BY <1>1 DEF IInv, PlayersKnown, UploadsOver, SendsListed
  <1>5. TenantTypes'
    <2>1. reader[r] \in Player
      BY DEF IInv, RoutineTypes
    <2> QED
      BY <1>1, <1>2, <2>1 DEF IInv, TenantTypes
  <1>6. RoutineTypes'
    <2>1. main = "run" /\ job \in Job
      BY <1>2 DEF IInv, QuietOutside, JobsAhead
    <2>2. scores[job] \in SUBSET Player
      BY <2>1 DEF IInv, TenantTypes
    <2> QED
      BY <1>1, <1>2, <2>2 DEF IInv, RoutineTypes
  <1>7. QuietOutside'
    BY <1>1, <1>2 DEF IInv, QuietOutside
  <1>8. JobsAhead'
    <2>1. \A j \in Job : j > job => visitors'[j] = visitors[j]
      <3> SUFFICES ASSUME NEW j \in Job, j > job PROVE visitors'[j] = visitors[j]
        OBVIOUS
      <3>1. j # job
        BY DEF IInv, JobTypes, Job
      <3> QED
        BY <1>2, <3>1 DEF IInv, TenantTypes
    <2> QED
      BY <1>1, <2>1 DEF IInv, JobsAhead
  <1>9. ScoresKnown'
    BY <1>1, <1>2 DEF IInv, ScoresKnown
  <1>10. RankingsOver'
    <2> SUFFICES ASSUME main \in {"run", "finish"}, NEW q \in Ranker
                 PROVE  /\ scoreDone[q] => doneCh
                        /\ ranker'[q] = "answer" /\ scoreDone[q] => lastSeen'[q] = uploads
                        /\ ranker'[q] = "done" => \/ lastSeen'[q] = uploads /\ doneCh
                                                  \/ failed \/ ctxDone
      BY <1>1, Zenon DEF RankingsOver
    <2>1. CASE q = r
      BY <1>2, <2>1 DEF IInv, RoutineTypes, RankingsOver
    <2>2. CASE q # r
      <3>1. ranker'[q] = ranker[q] /\ lastSeen'[q] = lastSeen[q]
        BY <1>2, <2>2 DEF IInv, RoutineTypes
      <3> QED
        BY <3>1 DEF IInv, RankingsOver
    <2> QED
      BY <2>1, <2>2
  <1> QED
    BY <1>3, <1>4, <1>5, <1>6, <1>7, <1>8, <1>9, <1>10 DEF IInv

LEMMA RankingAnsweredKeeps ==
  ASSUME IInv, NEW r \in Ranker, RankingAnswered(r)
  PROVE  IInv'
  <1>1. /\ enrolled' = enrolled /\ scores' = scores /\ visitors' = visitors /\ finished' = finished
        /\ ctxDone' = ctxDone /\ workerCh' = workerCh /\ running' = running /\ kicked' = kicked
        /\ kicking' = kicking /\ main' = main /\ job' = job /\ players' = players
        /\ taken' = taken /\ result' = result /\ failed' = failed /\ doneCh' = doneCh
        /\ uploads' = uploads /\ scorer' = scorer /\ reader' = reader /\ scoreDone' = scoreDone
        /\ lastSeen' = lastSeen /\ starter' = starter /\ next' = next /\ added' = added
    BY DEF RankingAnswered, outside, server, load, kicks, listed, plan, uploading, rankers, starting, goroutines
  <1>2. /\ ranker[r] = "answer" /\ playerIDs' = playerIDs \cup ranks[r]
        /\ ranks' = [ranks EXCEPT ![r] = {}]
        /\ ranker' = [ranker EXCEPT ![r] = IF scoreDone[r] THEN "done" ELSE "check"]
    BY DEF RankingAnswered
  <1>3. TenantTypes' /\ Flags' /\ ResultType' /\ ChannelFits'
    BY <1>1 DEF IInv, TenantTypes, Flags, ResultType, ChannelFits
  <1>4. JobsAhead' /\ UploadsOver' /\ SendsListed'
    BY <1>1 DEF IInv, JobsAhead, UploadsOver, SendsListed
  <1>5. JobTypes'
    <2>1. ranks[r] \subseteq Player
      BY DEF IInv, RoutineTypes
    <2> QED
      BY <1>1, <1>2, <2>1 DEF IInv, JobTypes
  <1>6. RoutineTypes'
    BY <1>1, <1>2 DEF IInv, RoutineTypes
  <1>7. QuietOutside'
    BY <1>1, <1>2 DEF IInv, QuietOutside
  <1>8. PlayersKnown'
    <2>1. main = "run"
      BY <1>2 DEF IInv, QuietOutside
    <2>2. ranks[r] \subseteq players
      BY <2>1 DEF IInv, ScoresKnown
    <2> QED
      BY <1>1, <1>2, <2>2 DEF IInv, PlayersKnown
  <1>9. ScoresKnown'
    BY <1>1, <1>2 DEF IInv, ScoresKnown
  <1>10. RankingsOver'
    BY <1>1, <1>2 DEF IInv, RankingsOver
  <1> QED
    BY <1>3, <1>4, <1>5, <1>6, <1>7, <1>8, <1>9, <1>10 DEF IInv

LEMMA RankingFailsKeeps ==
  ASSUME IInv, NEW r \in Ranker, RankingFails(r)
  PROVE  IInv'
  <1>1. /\ enrolled' = enrolled /\ scores' = scores /\ visitors' = visitors /\ finished' = finished
        /\ ctxDone' = ctxDone /\ workerCh' = workerCh /\ running' = running /\ kicked' = kicked
        /\ kicking' = kicking /\ main' = main /\ job' = job /\ players' = players
        /\ playerIDs' = playerIDs /\ taken' = taken /\ result' = result /\ doneCh' = doneCh
        /\ uploads' = uploads /\ scorer' = scorer /\ reader' = reader /\ scoreDone' = scoreDone
        /\ lastSeen' = lastSeen /\ starter' = starter /\ next' = next /\ added' = added
    BY DEF RankingFails, outside, server, load, kicks, listed, plan, uploading, rankers, starting, goroutines
  <1>2. /\ ranker[r] \in {"get", "answer"} /\ ranker' = [ranker EXCEPT ![r] = "done"]
        /\ ranks' = [ranks EXCEPT ![r] = {}]
        /\ failed' = TRUE \/ (ctxDone /\ failed' = failed)
    BY DEF RankingFails
  <1>3. TenantTypes' /\ JobTypes' /\ ResultType' /\ ChannelFits'
    BY <1>1 DEF IInv, TenantTypes, JobTypes, ResultType, ChannelFits
  <1>4. JobsAhead' /\ PlayersKnown' /\ SendsListed'
    BY <1>1 DEF IInv, JobsAhead, PlayersKnown, SendsListed
  <1>5. RoutineTypes'
    BY <1>1, <1>2 DEF IInv, RoutineTypes
  <1>6. Flags'
    BY <1>1, <1>2, Zenon DEF IInv, Flags
  <1>7. QuietOutside'
    BY <1>1, <1>2 DEF IInv, QuietOutside
  <1>8. ScoresKnown'
    BY <1>1, <1>2 DEF IInv, ScoresKnown
  <1>9. UploadsOver'
    <2>1. main = "run"
      BY <1>2 DEF IInv, QuietOutside
    <2>2. failed' \/ failed' = failed
      BY <1>2
    <2> QED
      BY <1>1, <2>1, <2>2 DEF IInv, UploadsOver
  <1>10. RankingsOver'
    BY <1>1, <1>2 DEF IInv, RankingsOver
  <1> QED
    BY <1>3, <1>4, <1>5, <1>6, <1>7, <1>8, <1>9, <1>10 DEF IInv

LEMMA LookKeeps ==
  ASSUME IInv, Look
  PROVE  IInv'
  <1>1. /\ enrolled' = enrolled /\ scores' = scores /\ visitors' = visitors /\ finished' = finished
        /\ ctxDone' = ctxDone /\ workerCh' = workerCh /\ running' = running /\ kicked' = kicked
        /\ main' = main /\ job' = job /\ players' = players /\ playerIDs' = playerIDs
        /\ taken' = taken /\ result' = result /\ failed' = failed /\ doneCh' = doneCh
        /\ uploads' = uploads /\ scorer' = scorer /\ ranker' = ranker /\ reader' = reader
        /\ scoreDone' = scoreDone /\ lastSeen' = lastSeen /\ ranks' = ranks /\ added' = added
    BY DEF Look, outside, server, load, kicks, listed, plan, uploading, rankers, starting, goroutines
  <1>2. /\ starter = "look" /\ starter' \in {"look", "send", "done"}
        /\ next' = next \/ (next' = next + 1 /\ next <= Len(taken))
        /\ starter' = "send" => next' = next /\ next <= Len(taken)
        /\ kicking' = kicking \/ (next <= Len(taken) /\ kicking' = kicking \cup {taken[next]})
    <2>1. next \in Nat /\ Len(taken) \in Nat
      BY Assumed DEF IInv, RoutineTypes, JobTypes
    <2>2. CASE next > Len(taken) \/ NewPlayerWorkerNum < added
      BY <2>2 DEF Look
    <2>3. CASE ~(next > Len(taken) \/ NewPlayerWorkerNum < added)
      BY <2>1, <2>3 DEF Look
    <2> QED
      BY <2>2, <2>3
  <1>3. JobTypes' /\ Flags' /\ ResultType' /\ ChannelFits'
    BY <1>1 DEF IInv, JobTypes, Flags, ResultType, ChannelFits
  <1>4. JobsAhead' /\ PlayersKnown' /\ ScoresKnown' /\ UploadsOver'
    BY <1>1 DEF IInv, JobsAhead, PlayersKnown, ScoresKnown, UploadsOver
  <1>5. RankingsOver'
    BY <1>1 DEF IInv, RankingsOver
  <1>6. TenantTypes'
    <2>1. next <= Len(taken) => taken[next] \in Player
      BY Assumed DEF IInv, RoutineTypes, JobTypes
    <2> QED
      BY <1>1, <1>2, <2>1 DEF IInv, TenantTypes
  <1>7. RoutineTypes'
    <2>1. Len(taken) \in Nat /\ Len(taken) <= Len(PlayerList) /\ Len(PlayerList) \in Nat
      BY Assumed DEF IInv, JobTypes
    <2>2. next \in Nat /\ next >= 1 /\ next <= Len(PlayerList) + 1
          /\ added \in Nat /\ added < next
      BY <2>1 DEF IInv, RoutineTypes
    <2>3. next' \in 1..(Len(PlayerList) + 1) /\ added < next'
      BY <1>2, <2>1, <2>2
    <2> QED
      BY <1>1, <1>2, <2>2, <2>3 DEF IInv, RoutineTypes
  <1>8. QuietOutside'
    BY <1>1, <1>2 DEF IInv, QuietOutside
  <1>9. SendsListed'
    BY <1>1, <1>2 DEF IInv, SendsListed
  <1> QED
    BY <1>3, <1>4, <1>5, <1>6, <1>7, <1>8, <1>9 DEF IInv

LEMMA SendPlayerKeeps ==
  ASSUME IInv, SendPlayer
  PROVE  IInv'
  <1>1. /\ enrolled' = enrolled /\ scores' = scores /\ visitors' = visitors /\ finished' = finished
        /\ ctxDone' = ctxDone /\ running' = running /\ kicked' = kicked /\ kicking' = kicking
        /\ main' = main /\ job' = job /\ players' = players /\ playerIDs' = playerIDs
        /\ taken' = taken /\ result' = result /\ failed' = failed /\ doneCh' = doneCh
        /\ uploads' = uploads /\ scorer' = scorer /\ ranker' = ranker /\ reader' = reader
        /\ scoreDone' = scoreDone /\ lastSeen' = lastSeen /\ ranks' = ranks
    BY DEF SendPlayer, outside, server, load, kicks, listed, plan, uploading, rankers, starting, goroutines
  <1>2. /\ starter = "send" /\ Cardinality(workerCh) < ChannelSize
        /\ workerCh' = workerCh \cup {<<job, taken[next]>>}
        /\ starter' = "look" /\ next' = next + 1 /\ added' = added + 1
    BY DEF SendPlayer
  <1>a. job \in Job /\ next <= Len(taken) /\ taken[next] \in Player
    <2>1. main = "run" /\ job \in Job
      BY <1>2 DEF IInv, QuietOutside, JobsAhead
    <2>2. next <= Len(taken) /\ next \in Nat /\ next >= 1
      BY <1>2, Assumed DEF IInv, RoutineTypes, SendsListed
    <2> QED
      BY <2>1, <2>2 DEF IInv, JobTypes
  <1>3. JobTypes' /\ Flags' /\ ResultType' /\ JobsAhead'
    BY <1>1 DEF IInv, JobTypes, Flags, ResultType, JobsAhead
  <1>4. PlayersKnown' /\ ScoresKnown' /\ UploadsOver' /\ RankingsOver'
    BY <1>1 DEF IInv, PlayersKnown, ScoresKnown, UploadsOver, RankingsOver
  <1>5. TenantTypes'
    BY <1>1, <1>2, <1>a DEF IInv, TenantTypes
  <1>6. RoutineTypes'
    BY <1>1, <1>2, <1>a, Assumed DEF IInv, RoutineTypes, JobTypes
  <1>7. ChannelFits'
    <2>1. IsFiniteSet(workerCh) /\ Cardinality(workerCh) \in Nat
      BY FS_CardinalityType DEF IInv, ChannelFits
    <2>2. /\ IsFiniteSet(workerCh')
          /\ Cardinality(workerCh') = Cardinality(workerCh) \/ Cardinality(workerCh') = Cardinality(workerCh) + 1
      BY <1>2, <2>1, FS_AddElement
    <2> QED
      BY <1>2, <2>1, <2>2, Assumed DEF ChannelFits
  <1>8. QuietOutside'
    BY <1>1, <1>2 DEF IInv, QuietOutside
  <1>9. SendsListed'
    BY <1>1, <1>2 DEF IInv, SendsListed
  <1> QED
    BY <1>3, <1>4, <1>5, <1>6, <1>7, <1>8, <1>9 DEF IInv

LEMMA RecordKeeps ==
  ASSUME IInv, NEW p \in Player, Record(p)
  PROVE  IInv'
  <1>1. /\ enrolled' = enrolled /\ scores' = scores /\ visitors' = visitors /\ finished' = finished
        /\ ctxDone' = ctxDone /\ workerCh' = workerCh /\ running' = running /\ main' = main
        /\ job' = job /\ players' = players /\ playerIDs' = playerIDs /\ taken' = taken
        /\ result' = result /\ failed' = failed /\ doneCh' = doneCh /\ uploads' = uploads
        /\ scorer' = scorer /\ ranker' = ranker /\ reader' = reader /\ scoreDone' = scoreDone
        /\ lastSeen' = lastSeen /\ ranks' = ranks /\ starter' = starter /\ next' = next
        /\ added' = added
    BY DEF Record, outside, server, load, kicks, listed, plan, uploading, rankers, starting, goroutines
  <1>2. /\ kicked' = kicked \cup {p} /\ kicking' = kicking \ {p}
    BY DEF Record
  <1>3. JobTypes' /\ RoutineTypes' /\ Flags' /\ ResultType'
    BY <1>1 DEF IInv, JobTypes, RoutineTypes, Flags, ResultType
  <1>4. ChannelFits' /\ QuietOutside' /\ JobsAhead' /\ PlayersKnown'
    BY <1>1 DEF IInv, ChannelFits, QuietOutside, JobsAhead, PlayersKnown
  <1>5. ScoresKnown' /\ UploadsOver' /\ SendsListed' /\ RankingsOver'
    BY <1>1 DEF IInv, ScoresKnown, UploadsOver, SendsListed, RankingsOver
  <1>6. TenantTypes'
    BY <1>1, <1>2 DEF IInv, TenantTypes
  <1> QED
    BY <1>3, <1>4, <1>5, <1>6 DEF IInv

LEMMA LoadStartsKeeps ==
  ASSUME IInv, LoadStarts
  PROVE  IInv'
  <1>1. /\ enrolled' = enrolled /\ scores' = scores /\ visitors' = visitors /\ finished' = finished
        /\ ctxDone' = ctxDone /\ kicked' = kicked /\ kicking' = kicking /\ main' = main
        /\ job' = job /\ players' = players /\ playerIDs' = playerIDs /\ taken' = taken
        /\ result' = result /\ failed' = failed /\ doneCh' = doneCh /\ uploads' = uploads
        /\ scorer' = scorer /\ ranker' = ranker /\ reader' = reader /\ scoreDone' = scoreDone
        /\ lastSeen' = lastSeen /\ ranks' = ranks /\ starter' = starter /\ next' = next
        /\ added' = added
    BY DEF LoadStarts, outside, server, load, kicks, listed, plan, uploading, rankers, starting, goroutines
  <1>2. /\ \E w \in workerCh : workerCh' = workerCh \ {w} /\ running' = running \cup {w[2]}
    BY DEF LoadStarts
  <1>3. JobTypes' /\ RoutineTypes' /\ Flags' /\ ResultType'
    BY <1>1 DEF IInv, JobTypes, RoutineTypes, Flags, ResultType
  <1>4. QuietOutside' /\ JobsAhead' /\ PlayersKnown' /\ ScoresKnown'
    BY <1>1 DEF IInv, QuietOutside, JobsAhead, PlayersKnown, ScoresKnown
  <1>5. UploadsOver' /\ SendsListed' /\ RankingsOver'
    BY <1>1 DEF IInv, UploadsOver, SendsListed, RankingsOver
  <1>6. TenantTypes'
    BY <1>1, <1>2 DEF IInv, TenantTypes
  <1>7. ChannelFits'
    <2>1. PICK w \in workerCh : workerCh' = workerCh \ {w}
      BY <1>2
    <2>2. IsFiniteSet(workerCh) /\ Cardinality(workerCh) \in Nat /\ Cardinality(workerCh) <= ChannelSize
      BY FS_CardinalityType DEF IInv, ChannelFits
    <2>3. IsFiniteSet(workerCh') /\ Cardinality(workerCh') = Cardinality(workerCh) - 1
      BY <2>1, <2>2, FS_RemoveElement
    <2> QED
      BY <2>2, <2>3, Assumed DEF ChannelFits
  <1> QED
    BY <1>3, <1>4, <1>5, <1>6, <1>7 DEF IInv

LEMMA PlayerVisitsKeeps ==
  ASSUME IInv, NEW p \in Player, PlayerVisits(p)
  PROVE  IInv'
  <1>1. /\ enrolled' = enrolled /\ scores' = scores /\ finished' = finished /\ ctxDone' = ctxDone
        /\ workerCh' = workerCh /\ running' = running /\ kicked' = kicked /\ kicking' = kicking
        /\ main' = main /\ job' = job /\ players' = players /\ playerIDs' = playerIDs
        /\ taken' = taken /\ result' = result /\ failed' = failed /\ doneCh' = doneCh
        /\ uploads' = uploads /\ scorer' = scorer /\ ranker' = ranker /\ reader' = reader
        /\ scoreDone' = scoreDone /\ lastSeen' = lastSeen /\ ranks' = ranks /\ starter' = starter
        /\ next' = next /\ added' = added
    BY DEF PlayerVisits, outside, server, load, kicks, listed, plan, uploading, rankers, starting, goroutines
  <1>2. /\ p \in running /\ \E j \in 1..job : ~finished[j] /\ visitors' = [visitors EXCEPT ![j] = @ \cup {p}]
    BY DEF PlayerVisits
  <1>3. JobTypes' /\ RoutineTypes' /\ Flags' /\ ResultType'
    BY <1>1 DEF IInv, JobTypes, RoutineTypes, Flags, ResultType
  <1>4. ChannelFits' /\ QuietOutside' /\ PlayersKnown' /\ ScoresKnown'
    BY <1>1 DEF IInv, ChannelFits, QuietOutside, PlayersKnown, ScoresKnown
  <1>5. UploadsOver' /\ SendsListed' /\ RankingsOver'
    BY <1>1 DEF IInv, UploadsOver, SendsListed, RankingsOver
  <1>6. TenantTypes'
    BY <1>1, <1>2 DEF IInv, TenantTypes
  <1>7. JobsAhead'
    <2>1. PICK k \in 1..job : visitors' = [visitors EXCEPT ![k] = @ \cup {p}]
      BY <1>2
    <2>2. \A j \in Job : j > job => visitors'[j] = visitors[j]
      <3> SUFFICES ASSUME NEW j \in Job, j > job PROVE visitors'[j] = visitors[j]
        OBVIOUS
      <3>1. j # k
        BY Assumed DEF IInv, JobTypes, Job
      <3> QED
        BY <2>1, <3>1 DEF IInv, TenantTypes
    <2> QED
      BY <1>1, <2>2 DEF IInv, JobsAhead
  <1> QED
    BY <1>3, <1>4, <1>5, <1>6, <1>7 DEF IInv

LEMMA PlayerLeavesKeeps ==
  ASSUME IInv, NEW p \in Player, PlayerLeaves(p)
  PROVE  IInv'
  <1>1. /\ enrolled' = enrolled /\ scores' = scores /\ visitors' = visitors /\ finished' = finished
        /\ ctxDone' = ctxDone /\ workerCh' = workerCh /\ kicked' = kicked /\ kicking' = kicking
        /\ main' = main /\ job' = job /\ players' = players /\ playerIDs' = playerIDs
        /\ taken' = taken /\ result' = result /\ failed' = failed /\ doneCh' = doneCh
        /\ uploads' = uploads /\ scorer' = scorer /\ ranker' = ranker /\ reader' = reader
        /\ scoreDone' = scoreDone /\ lastSeen' = lastSeen /\ ranks' = ranks /\ starter' = starter
        /\ next' = next /\ added' = added
    BY DEF PlayerLeaves, outside, server, load, kicks, listed, plan, uploading, rankers, starting, goroutines
  <1>2. /\ running' = running \ {p}
    BY DEF PlayerLeaves
  <1>3. JobTypes' /\ RoutineTypes' /\ Flags' /\ ResultType'
    BY <1>1 DEF IInv, JobTypes, RoutineTypes, Flags, ResultType
  <1>4. ChannelFits' /\ QuietOutside' /\ JobsAhead' /\ PlayersKnown'
    BY <1>1 DEF IInv, ChannelFits, QuietOutside, JobsAhead, PlayersKnown
  <1>5. ScoresKnown' /\ UploadsOver' /\ SendsListed' /\ RankingsOver'
    BY <1>1 DEF IInv, ScoresKnown, UploadsOver, SendsListed, RankingsOver
  <1>6. TenantTypes'
    BY <1>1, <1>2 DEF IInv, TenantTypes
  <1> QED
    BY <1>3, <1>4, <1>5, <1>6 DEF IInv

LEMMA DeadlineKeeps ==
  ASSUME IInv, Deadline
  PROVE  IInv'
  <1>1. /\ enrolled' = enrolled /\ scores' = scores /\ visitors' = visitors /\ finished' = finished
        /\ workerCh' = workerCh /\ running' = running /\ kicked' = kicked /\ kicking' = kicking
        /\ main' = main /\ job' = job /\ players' = players /\ playerIDs' = playerIDs
        /\ taken' = taken /\ result' = result /\ failed' = failed /\ doneCh' = doneCh
        /\ uploads' = uploads /\ scorer' = scorer /\ ranker' = ranker /\ reader' = reader
        /\ scoreDone' = scoreDone /\ lastSeen' = lastSeen /\ ranks' = ranks /\ starter' = starter
        /\ next' = next /\ added' = added
    BY DEF Deadline, outside, server, load, kicks, listed, plan, uploading, rankers, starting, goroutines
  <1>2. /\ ctxDone' = TRUE
    BY DEF Deadline
  <1>3. TenantTypes' /\ JobTypes' /\ RoutineTypes' /\ ResultType'
    BY <1>1 DEF IInv, TenantTypes, JobTypes, RoutineTypes, ResultType
  <1>4. ChannelFits' /\ QuietOutside' /\ JobsAhead' /\ PlayersKnown'
    BY <1>1 DEF IInv, ChannelFits, QuietOutside, JobsAhead, PlayersKnown
  <1>5. ScoresKnown' /\ SendsListed'
    BY <1>1 DEF IInv, ScoresKnown, SendsListed
  <1>6. Flags'
    BY <1>1, <1>2, Zenon DEF IInv, Flags
  <1>7. UploadsOver'
    BY <1>1, <1>2 DEF IInv, UploadsOver
  <1>8. RankingsOver'
    BY <1>1, <1>2 DEF IInv, RankingsOver
  <1> QED
    BY <1>3, <1>4, <1>5, <1>6, <1>7, <1>8 DEF IInv

LEMMA Inductive == IInv /\ [Next]_vars => IInv'
  <1> SUFFICES ASSUME IInv, [Next]_vars PROVE IInv'
    OBVIOUS
  <1>1. CASE Main
    BY <1>1, BeginKeeps, ListPlayersKeeps, AddCompetitionKeeps, WaitKeeps, FinishKeeps, JobFailsKeeps
       DEF Main
  <1>2. CASE AddPlayers \/ Scorer \/ Starter \/ LoadStarts \/ Deadline
    BY <1>2, AddPlayersKeeps, UploadKeeps, UploadFailsKeeps, LookKeeps, SendPlayerKeeps,
       LoadStartsKeeps, DeadlineKeeps DEF Scorer, Starter
  <1>3. CASE \E r \in Ranker : Ranking(r)
    BY <1>3, CheckDoneKeeps, GetRankingKeeps, RankingAnsweredKeeps, RankingFailsKeeps DEF Ranking
  <1>4. CASE \E p \in Player : Record(p) \/ PlayerVisits(p) \/ PlayerLeaves(p)
    BY <1>4, RecordKeeps, PlayerVisitsKeeps, PlayerLeavesKeeps
  <1>5. CASE UNCHANGED vars
    <2> USE <1>5 DEF IInv, vars, outside, server, load, kicks, listed, plan, uploading, rankers,
                     starting, goroutines
    <2>1. TenantTypes' /\ JobTypes' /\ RoutineTypes' /\ Flags' /\ ResultType'
      BY DEF TenantTypes, JobTypes, RoutineTypes, Flags, ResultType
    <2>2. ChannelFits' /\ QuietOutside' /\ JobsAhead' /\ PlayersKnown' /\ ScoresKnown'
      BY DEF ChannelFits, QuietOutside, JobsAhead, PlayersKnown, ScoresKnown
    <2>3. UploadsOver' /\ SendsListed' /\ RankingsOver'
      BY DEF UploadsOver, SendsListed, RankingsOver
    <2> QED
      BY <2>1, <2>2, <2>3
  <1> QED
    BY <1>1, <1>2, <1>3, <1>4, <1>5 DEF Next

(* IInv holds of every reachable state. *)
LEMMA Invariant == Spec => []IInv
  BY Initially, Inductive, PTL DEF Spec

-----------------------------------------------------------------------------
(* Every variable keeps its type: the channel never holds more than it can, no *)
(* more players are started than the tenant has, and a goroutine of a job runs *)
(* only between its errgroup's start and its Wait.                             *)
THEOREM TypeCorrect == Spec => []TypeOK
  <1>1. IInv => TypeOK
    <2> SUFFICES ASSUME IInv PROVE TypeOK
      OBVIOUS
    <2>1. added \in 0..Len(PlayerList)
      BY Assumed DEF IInv, RoutineTypes
    <2>2. finished \in [Job -> BOOLEAN] /\ ctxDone \in BOOLEAN /\ failed \in BOOLEAN
          /\ doneCh \in BOOLEAN /\ scoreDone \in [Ranker -> BOOLEAN]
      BY Zenon DEF IInv, Flags
    <2> QED
      BY <2>1, <2>2, Zenon DEF IInv, TypeOK, TenantTypes, JobTypes, RoutineTypes, ResultType,
                               ChannelFits, QuietOutside
  <1> QED
    BY <1>1, Invariant, PTL

(* Whatever the rankings and uploads of a job interleave to, an upload draws   *)
(* only players the map has: players[playerIDs[index]] is never nil.           *)
THEOREM DrawnAreKnown == Spec => []EveryDrawnPlayerKnown
  <1>1. IInv => EveryDrawnPlayerKnown
    BY DEF IInv, PlayersKnown, EveryDrawnPlayerKnown
  <1> QED
    BY <1>1, Invariant, PTL

(* A reader looks at doneCh before it asks: when all have ended and the job    *)
(* has not failed, each has read the ranking of the last upload.               *)
THEOREM RankingsAreFinal == Spec => []LastRankingIsFinal
  <1>1. IInv => LastRankingIsFinal
    <2> SUFFICES ASSUME IInv, main = "finish", ~ctxDone
                 PROVE  uploads = ScoreRepeat /\ \A r \in Ranker : lastSeen[r] = ScoreRepeat
      BY DEF LastRankingIsFinal
    <2>1. scorer = "done" /\ \A r \in Ranker : ranker[r] = "done"
      BY DEF IInv, QuietOutside
    <2>2. ~failed /\ uploads = ScoreRepeat
      BY <2>1 DEF IInv, UploadsOver
    <2> QED
      BY <2>1, <2>2 DEF IInv, RankingsOver
  <1> QED
    BY <1>1, Invariant, PTL

-----------------------------------------------------------------------------
(* The bill of a job that takes all the tenant's players. *)

(* Nobody looks at a ranking who is not in the tenant's list, and a job under  *)
(* way has taken the list as it is: players are added between jobs.            *)
VisitorsListed ==
    /\ running \subseteq ToSet(List) /\ \A w \in workerCh : w[2] \in ToSet(List)
    /\ \A j \in Job : visitors[j] \subseteq ToSet(List)
    /\ main \in {"add", "run", "finish"} => taken = List

BillsSettled ==
    \A j \in Job : result[j] # None =>
        finished[j] = TRUE /\ visitors[j] \subseteq scores[j] /\ result[j] = Cardinality(scores[j])

LEMMA ListGrows ==
  ASSUME IInv, AddPlayers
  PROVE  ToSet(List) \subseteq ToSet(List)'
  <1>1. enrolled \in 1..Len(PlayerList) /\ enrolled' \in 1..Len(PlayerList) /\ enrolled' = enrolled + 1
    <2>1. IInv'
      BY AddPlayersKeeps
    <2> QED
      BY <2>1 DEF AddPlayers, IInv, TenantTypes
  <1> DEFINE L(e) == SubSeq(PlayerList, Len(PlayerList) - e + 1, Len(PlayerList))
  <1>2. \A e \in 1..Len(PlayerList) :
           /\ L(e) \in Seq(Player) /\ Len(L(e)) = e
           /\ \A i \in 1..e : L(e)[i] = PlayerList[Len(PlayerList) - e + i]
    <2> SUFFICES ASSUME NEW e \in 1..Len(PlayerList)
                 PROVE  /\ L(e) \in Seq(Player) /\ Len(L(e)) = e
                        /\ \A i \in 1..e : L(e)[i] = PlayerList[Len(PlayerList) - e + i]
      OBVIOUS
    <2>1. PlayerList \in Seq(Player) /\ Len(PlayerList) \in Nat
      BY Assumed
    <2> DEFINE m == Len(PlayerList) - e + 1
    <2>2. /\ m \in Nat /\ m >= 1 /\ m <= Len(PlayerList)
          /\ Len(PlayerList) - m + 1 = e
          /\ \A i \in 1..e : m + i - 1 = Len(PlayerList) - e + i
      BY <2>1
    <2>3. L(e) = SubSeq(PlayerList, m, Len(PlayerList))
      OBVIOUS
    <2> HIDE DEF m, L
    <2>4. /\ L(e) \in Seq(Player) /\ Len(L(e)) = Len(PlayerList) - m + 1
          /\ \A i \in 1..(Len(PlayerList) - m + 1) : L(e)[i] = PlayerList[m + i - 1]
      BY <2>1, <2>2, <2>3
    <2> QED
      BY <2>2, <2>4
  <1>3. List = L(enrolled) /\ List' = L(enrolled')
    BY DEF List
  <1> HIDE DEF L
  <1>4. \A e \in 1..Len(PlayerList) : ToSet(L(e)) = {L(e)[i] : i \in 1..e}
    BY <1>2 DEF ToSet
  <1>5. \A i \in 1..enrolled : i + 1 \in 1..enrolled' /\ L(enrolled)[i] = L(enrolled')[i + 1]
    <2> SUFFICES ASSUME NEW i \in 1..enrolled
                 PROVE  i + 1 \in 1..enrolled' /\ L(enrolled)[i] = L(enrolled')[i + 1]
      OBVIOUS
    <2>1. i + 1 \in 1..enrolled'
          /\ Len(PlayerList) - enrolled + i = Len(PlayerList) - enrolled' + (i + 1)
      BY <1>1, Assumed
    <2> QED
      BY <1>1, <1>2, <2>1
  <1>6. ToSet(L(enrolled)) \subseteq ToSet(L(enrolled'))
    BY <1>1, <1>4, <1>5
  <1>7. ToSet(List)' = ToSet(List')
    OBVIOUS
  <1> QED
    BY <1>3, <1>6, <1>7

LEMMA VisitorsStayListed ==
  ASSUME MaxScoredPlayer = 0, IInv, VisitorsListed, [Next]_vars
  PROVE  VisitorsListed'
  <1> USE DEF outside, server, load, kicks, listed, plan, uploading, rankers, starting, goroutines
  <1>1. CASE AddPlayers
    <2>1. ToSet(List) \subseteq ToSet(List)'
      BY <1>1, ListGrows
    <2>2. /\ running' = running /\ workerCh' = workerCh /\ visitors' = visitors
          /\ main' = "ended"
      BY <1>1 DEF AddPlayers
    <2> QED
      BY <2>1, <2>2 DEF VisitorsListed
  <1>2. CASE enrolled' = enrolled
    <2>1. List' = List /\ ToSet(List)' = ToSet(List)
      BY <1>2 DEF List
    <2>2. CASE Begin \/ JobFails \/ Upload \/ UploadFails \/ Look \/ Deadline
               \/ (\E r \in Ranker : CheckDone(r) \/ RankingAnswered(r) \/ RankingFails(r))
               \/ (\E p \in Player : Record(p)) \/ Wait \/ Finish \/ AddCompetition \/ UNCHANGED vars
      <3>1. /\ running' = running /\ workerCh' = workerCh /\ visitors' = visitors /\ taken' = taken
            /\ main' \in {"add", "run", "finish"} => main \in {"add", "run", "finish"}
        BY <2>2 DEF Begin, JobFails, Upload, UploadFails, Look, Deadline, CheckDone,
                    RankingAnswered, RankingFails, Record, Wait, Finish, AddCompetition, vars
      <3> QED
        BY <2>1, <3>1 DEF VisitorsListed
    <2>3. CASE ListPlayers
      <3>1. List \in Seq(Player) /\ Taken = List
        BY ListOf DEF IInv, TenantTypes, Taken
      <3>2. /\ running' = running /\ workerCh' = workerCh /\ visitors' = visitors /\ taken' = Taken
        BY <2>3 DEF ListPlayers
      <3> QED
        BY <2>1, <3>1, <3>2 DEF VisitorsListed
    <2>4. CASE \E r \in Ranker : GetRanking(r)
      <3>1. PICK r \in Ranker : GetRanking(r)
        BY <2>4
      <3>2. /\ running' = running /\ workerCh' = workerCh /\ taken' = taken /\ main' = main
            /\ visitors' = [visitors EXCEPT ![job] = @ \cup {reader[r]}] /\ ranker[r] = "get"
        BY <3>1 DEF GetRanking
      <3>3. main = "run" /\ job \in Job
        BY <3>2 DEF IInv, QuietOutside, JobsAhead
      <3>4. reader[r] \in ToSet(List)
        BY <3>3 DEF IInv, ScoresKnown, PlayersKnown, VisitorsListed
      <3> QED
        BY <2>1, <3>2, <3>4 DEF VisitorsListed, IInv, TenantTypes
    <2>5. CASE SendPlayer
      <3>1. /\ running' = running /\ taken' = taken /\ main' = main /\ visitors' = visitors
            /\ workerCh' = workerCh \cup {<<job, taken[next]>>} /\ starter = "send"
        BY <2>5 DEF SendPlayer
      <3>2. main = "run" /\ next \in 1..Len(taken)
        BY <3>1, Assumed DEF IInv, QuietOutside, SendsListed, RoutineTypes, JobTypes
      <3>3. taken[next] \in ToSet(List)
        BY <3>2, SetOfList DEF VisitorsListed, IInv, JobTypes
      <3> QED
        BY <2>1, <3>1, <3>3 DEF VisitorsListed
    <2>6. CASE LoadStarts
      <3>1. /\ taken' = taken /\ main' = main /\ visitors' = visitors
            /\ \E w \in workerCh : workerCh' = workerCh \ {w} /\ running' = running \cup {w[2]}
        BY <2>6 DEF LoadStarts
      <3> QED
        BY <2>1, <3>1 DEF VisitorsListed
    <2>7. CASE \E p \in Player : PlayerVisits(p)
      <3>1. PICK p \in Player : PlayerVisits(p)
        BY <2>7
      <3>2. /\ running' = running /\ workerCh' = workerCh /\ taken' = taken /\ main' = main
            /\ p \in running /\ \E j \in 1..job : visitors' = [visitors EXCEPT ![j] = @ \cup {p}]
        BY <3>1 DEF PlayerVisits
      <3> QED
        BY <2>1, <3>2 DEF VisitorsListed, IInv, TenantTypes
    <2>8. CASE \E p \in Player : PlayerLeaves(p)
      <3>1. /\ workerCh' = workerCh /\ taken' = taken /\ main' = main /\ visitors' = visitors
            /\ running' \subseteq running
        BY <2>8 DEF PlayerLeaves
      <3> QED
        BY <2>1, <3>1 DEF VisitorsListed
    <2>9. CASE AddPlayers
      BY <1>1, <2>9
    <2> QED
      BY <2>2, <2>3, <2>4, <2>5, <2>6, <2>7, <2>8, <2>9 DEF Next, Main, Scorer, Ranking, Starter
  <1>3. AddPlayers \/ enrolled' = enrolled
    BY DEF Next, Main, Scorer, Ranking, Starter, Begin, ListPlayers, AddCompetition, Wait, Finish,
           JobFails, Upload, UploadFails, CheckDone, GetRanking, RankingAnswered, RankingFails,
           Look, SendPlayer, Record, LoadStarts, PlayerVisits, PlayerLeaves, Deadline, vars
  <1> QED
    BY <1>1, <1>2, <1>3

(* The result is the size of the map, which is whom the server has scores of;  *)
(* after it there is neither an upload nor a visit.                            *)
LEMMA BillsStaySettled ==
  ASSUME IInv, VisitorsListed, BillsSettled, [Next]_vars
  PROVE  BillsSettled'
  <1> USE DEF outside, server, load, kicks, listed, plan, uploading, rankers, starting, goroutines
  <1> SUFFICES ASSUME NEW j \in Job, result'[j] # None
               PROVE  /\ finished'[j] = TRUE /\ visitors'[j] \subseteq scores'[j]
                      /\ result'[j] = Cardinality(scores'[j])
    BY DEF BillsSettled
  <1>1. CASE Finish
    <2>1. /\ main = "finish" /\ ~ctxDone /\ visitors' = visitors /\ scores' = scores
          /\ finished' = [finished EXCEPT ![job] = TRUE]
          /\ result' = [result EXCEPT ![job] = Cardinality(players)]
      BY <1>1 DEF Finish
    <2>2. CASE j = job
      <3>1. scorer = "done" /\ ~failed
        BY <2>1 DEF IInv, QuietOutside, UploadsOver
      <3>2. uploads = ScoreRepeat /\ ScoreRepeat > 0
        BY <2>1, <3>1, Assumed DEF IInv, UploadsOver
      <3>3. scores[job] = players /\ players = ToSet(List)
        BY <2>1, <3>2 DEF IInv, ScoresKnown, PlayersKnown, VisitorsListed
      <3>4. visitors[job] \subseteq scores[job]
        BY <2>2, <3>3 DEF VisitorsListed
      <3>5. finished'[job] = TRUE /\ result'[job] = Cardinality(players)
        BY <2>1, <2>2 DEF IInv, Flags, ResultType
      <3> QED
        BY <2>1, <2>2, <3>3, <3>4, <3>5
    <2>3. CASE j # job
      <3>1. finished'[j] = finished[j] /\ result'[j] = result[j]
        BY <2>1, <2>3 DEF IInv, Flags, ResultType
      <3> QED
        BY <2>1, <3>1 DEF BillsSettled
    <2> QED
      BY <2>2, <2>3
  <1>2. CASE result' = result
    <2>1. /\ finished[j] = TRUE /\ visitors[j] \subseteq scores[j] /\ result[j] = Cardinality(scores[j])
      BY <1>2 DEF BillsSettled
    <2>2. main \in {"run", "finish"} => j # job
      BY <2>1, <1>2 DEF IInv, JobsAhead
    <2>3. CASE Upload \/ UploadFails
      <3>1. /\ scorer = "upload" /\ finished' = finished /\ visitors' = visitors
            /\ scores' = scores \/ \E drawn \in playerIDs :
                                      scores' = [scores EXCEPT ![job] = players \cup {drawn}]
        BY <2>3 DEF Upload, UploadFails, Uploaded
      <3>2. j # job
        BY <2>2, <3>1 DEF IInv, QuietOutside
      <3>3. scores'[j] = scores[j]
        BY <3>1, <3>2 DEF IInv, TenantTypes
      <3> QED
        BY <1>2, <2>1, <3>1, <3>3
    <2>4. CASE \E r \in Ranker : GetRanking(r)
      <3>1. PICK r \in Ranker : GetRanking(r)
        BY <2>4
      <3>2. /\ ranker[r] = "get" /\ finished' = finished /\ scores' = scores
            /\ visitors' = [visitors EXCEPT ![job] = @ \cup {reader[r]}]
        BY <3>1 DEF GetRanking
      <3>3. j # job
        BY <2>2, <3>2 DEF IInv, QuietOutside
      <3>4. visitors'[j] = visitors[j]
        BY <3>2, <3>3 DEF IInv, TenantTypes
      <3> QED
        BY <1>2, <2>1, <3>2, <3>4
    <2>5. CASE \E p \in Player : PlayerVisits(p)
      <3>1. PICK p \in Player : PlayerVisits(p)
        BY <2>5
      <3>2. PICK k \in 1..job : ~finished[k] /\ visitors' = [visitors EXCEPT ![k] = @ \cup {p}]
        BY <3>1 DEF PlayerVisits
      <3>3. finished' = finished /\ scores' = scores
        BY <3>1 DEF PlayerVisits
      <3>4. visitors'[j] = visitors[j]
        BY <2>1, <3>2 DEF IInv, TenantTypes
      <3> QED
        BY <1>2, <2>1, <3>3, <3>4
    <2>6. CASE JobFails
      <3>1. /\ visitors' = visitors /\ scores' = scores
            /\ finished' = finished \/ finished' = [finished EXCEPT ![job] = TRUE]
        BY <2>6 DEF JobFails
      <3>2. finished'[j] = TRUE
        BY <2>1, <3>1 DEF IInv, Flags
      <3> QED
        BY <1>2, <2>1, <3>1, <3>2
    <2>7. CASE finished' = finished /\ visitors' = visitors /\ scores' = scores
      BY <1>2, <2>1, <2>7
    <2>8. \/ Upload \/ UploadFails \/ (\E r \in Ranker : GetRanking(r)) \/ JobFails \/ Finish
          \/ (\E p \in Player : PlayerVisits(p))
          \/ finished' = finished /\ visitors' = visitors /\ scores' = scores
      BY DEF Next, Main, Scorer, Ranking, Starter, Begin, AddPlayers, ListPlayers, AddCompetition,
             Wait, CheckDone, RankingAnswered, RankingFails, Look, SendPlayer, Record, LoadStarts,
             PlayerLeaves, Deadline, vars
    <2> QED
      BY <1>1, <2>3, <2>4, <2>5, <2>6, <2>7, <2>8
  <1>3. Finish \/ result' = result
    BY DEF Next, Main, Scorer, Ranking, Starter, Begin, AddPlayers, ListPlayers, AddCompetition,
           Wait, JobFails, Upload, UploadFails, CheckDone, GetRanking, RankingAnswered,
           RankingFails, Look, SendPlayer, Record, LoadStarts, PlayerVisits, PlayerLeaves,
           Deadline, vars
  <1> QED
    BY <1>1, <1>2, <1>3

(* A job that takes all players (maxScoredPlayer is 0) and returns expects the *)
(* bill the server makes: nobody but those with a score has visited before the *)
(* finish, whatever player workers of earlier jobs do meanwhile.               *)
THEOREM BillAgrees ==
  ASSUME MaxScoredPlayer = 0
  PROVE  Spec => []BillIsAsResult
  <1>1. Init => VisitorsListed /\ BillsSettled
    BY DEF Init, VisitorsListed, BillsSettled
  <1>2. IInv /\ VisitorsListed /\ BillsSettled /\ [Next]_vars => (VisitorsListed /\ BillsSettled)'
    BY VisitorsStayListed, BillsStaySettled
  <1>3. Spec => [](VisitorsListed /\ BillsSettled)
    BY <1>1, <1>2, Invariant, PTL DEF Spec
  <1>4. IInv /\ BillsSettled => BillIsAsResult
    <2> SUFFICES ASSUME IInv, BillsSettled, NEW j \in Job, result[j] # None
                 PROVE  Bill(j) = 100 * result[j]
      BY DEF BillIsAsResult
    <2>1. visitors[j] \ scores[j] = {} /\ result[j] = Cardinality(scores[j])
      BY DEF BillsSettled
    <2>2. Cardinality({}) = 0
      BY FS_EmptySet
    <2>3. Bill(j) = 100 * result[j] + 10 * 0
      BY <2>1, <2>2 DEF Bill
    <2>4. result[j] \in Int
      BY Assumed DEF IInv, ResultType, None
    <2> QED
      BY <2>3, <2>4
  <1> QED
    BY <1>3, <1>4, Invariant, PTL
=============================================================================
