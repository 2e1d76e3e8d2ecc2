--------------------------- MODULE PlayerScenario ---------------------------
(***************************************************************************)
(* A player's worker of the load (bench/scenario_player.go) in a tenant    *)
(* whose organizer's worker opens, uploads and finishes competitions       *)
(* (bench/scenario_popular_tenant.go, scenario_new_tenant.go).  The player *)
(* reads the list of competitions, looks at some of them with the pages of *)
(* players in their rankings, and starts over; it leaves when the ranking  *)
(* has been slow too often.  Of an organizer's job there is what the       *)
(* player can see of it (OrganizerJob has the rest), of the errors that    *)
(* they end a scenario (BenchLoad has how they are counted).               *)
(***************************************************************************)
EXTENDS Integers, Sequences

CONSTANTS
    LoopCount,          \* competitions between two lists: 10
    SlowLimit,          \* slow rankings until the player leaves: 3
    PlayerCount,        \* how many players are looked at: 3 to 5
    MaxCompetitions     \* bound on the competitions of the tenant

PlayerScenarioAssumption ==
    /\ LoopCount \in Nat \ {0} /\ SlowLimit \in Nat \ {0} /\ PlayerCount \subseteq Nat \ {0}
    /\ MaxCompetitions \in Nat

VARIABLES
    ctxDone,        \* the load is over
    competitions,   \* the tenant's: whether each has scores
    organizer,      \* what the organizer's worker does
    tenant,         \* the tenant its scenario draws: "new", "initial"
    reproduce,      \* the option: PlayerScenarioReproduce instead of PlayerScenario
    pc, resume,     \* what the player's worker does, and after its sleep
    pass,           \* of the list it goes through: how long it was, and how far it is
    at,             \* of the competition it looks at
    slow,           \* SlowResponseCount
    busy            \* history: rankings asked for since the last sleep, at most 2

tenantVars == <<competitions, organizer, tenant>>
playerVars == <<reproduce, pc, resume, pass, at, slow, busy>>
vars == <<ctxDone, tenantVars, playerVars>>

(* competitions; the round of ConstPlayerScenarioCompetitionLoopCount *)
NoPass == [shown |-> 0, round |-> 1]

(* comp; rankAfterCheck; whether playerIDs has anyone, and how many of them are *)
(* still to be looked at                                                       *)
Nowhere == [comp |-> 0, check |-> FALSE, players |-> FALSE, toShow |-> 0]

Init ==
    /\ ctxDone = FALSE /\ competitions = <<>>
    /\ organizer = "draw" /\ tenant \in {"new", "initial"}
    /\ reproduce \in BOOLEAN /\ pc = "new" /\ resume = "list"
    /\ pass = NoPass /\ at = Nowhere /\ slow = 0 /\ busy = 0

Deadline ==
    /\ ~ctxDone
    /\ ctxDone' = TRUE
    /\ UNCHANGED <<tenantVars, playerVars>>

-----------------------------------------------------------------------------
(* The organizer's worker.  Once it works for another tenant ("elsewhere")     *)
(* this one's competitions stay as they are.                                   *)

Organizes(now, next) ==
    /\ organizer = now /\ ~ctxDone
    /\ organizer' = next
    /\ UNCHANGED <<ctxDone, tenant, playerVars>>

(* A new tenant is made but once, an initial one may be drawn again. *)
Draw ==
    /\ \/ tenant = "new" /\ Organizes("draw", "enrol")
       \/ tenant = "initial" /\ \E next \in {"job", "elsewhere"} : Organizes("draw", next)
    /\ UNCHANGED competitions

Enrol == Organizes("enrol", "job") /\ UNCHANGED competitions

OpenCompetition ==
    /\ Len(competitions) < MaxCompetitions
    /\ Organizes("job", "upload")
    /\ competitions' = Append(competitions, FALSE)

Upload ==
    /\ Organizes("upload", "finish")
    /\ competitions' = [competitions EXCEPT ![Len(competitions)] = TRUE]

(* Whether a competition is finished changes how often it is chosen, no more. *)
Finish == Organizes("finish", "bill") /\ UNCHANGED competitions

(* The bill; an initial tenant then grows. *)
Bill == Organizes("bill", IF tenant = "new" THEN "job" ELSE "enrol") /\ UNCHANGED competitions

(* An error ends the scenario and leaves its competition open; the worker      *)
(* sleeps, and runs the scenario again.                                        *)
ScenarioFails ==
    /\ organizer \in {"enrol", "job", "upload", "finish", "bill", "elsewhere"}
    /\ organizer' = IF tenant = "new" THEN "elsewhere" ELSE "draw"
    /\ UNCHANGED <<ctxDone, competitions, tenant, playerVars>>

(* Requests are cancelled, and the infinite loop sees the context. *)
OrganizerEnds ==
    /\ ctxDone /\ organizer # "done"
    /\ organizer' = "done"
    /\ UNCHANGED <<ctxDone, competitions, tenant, playerVars>>

Organizer ==
    Draw \/ Enrol \/ OpenCompetition \/ Upload \/ Finish \/ Bill \/ ScenarioFails \/ OrganizerEnds

-----------------------------------------------------------------------------
(* The player's worker *)

Stopped == {"new", "ended", "left", "failed"}

others == <<ctxDone, tenantVars, reproduce>>

Goes(next) == pc' = next /\ resume' = "list"
Rest(next) == pc' = "rest" /\ resume' = next
Stops(how) == Goes(how) /\ pass' = NoPass /\ at' = Nowhere

(* The job starts it when its competition is open. *)
StartPlayer ==
    /\ pc = "new" /\ competitions # <<>> /\ ~ctxDone
    /\ Goes("list")
    /\ UNCHANGED <<others, pass, at, slow, busy>>

ListCompetitions ==
    /\ pc = "list" /\ ~ctxDone
    /\ pass' = [NoPass EXCEPT !.shown = Len(competitions)]
    /\ IF competitions = <<>> THEN Rest("list") ELSE Goes("choose")
    /\ UNCHANGED <<others, at, slow, busy>>

(* Nine times in ten the latest that was not finished, and else any. *)
ChooseCompetition ==
    /\ pc = "choose"
    /\ \E c \in 1..pass.shown, check \in BOOLEAN :
          at' = [Nowhere EXCEPT !.comp = c, !.check = check]
    /\ Goes("ask")
    /\ UNCHANGED <<others, pass, slow, busy>>

AskRanking ==
    /\ pc = "ask" /\ ~ctxDone
    /\ busy' = IF busy < 2 THEN busy + 1 ELSE busy
    /\ Goes("ranking")
    /\ UNCHANGED <<others, pass, at, slow>>

(* The next of the LoopCount competitions, or the list again. *)
NextCompetition(rests) ==
    LET last == pass.round = LoopCount
        next == IF last THEN "list" ELSE "choose"
    IN  /\ IF rests THEN Rest(next) ELSE Goes(next)
        /\ pass' = IF last THEN NoPass ELSE [pass EXCEPT !.round = @ + 1]
        /\ at' = Nowhere

(* Mutant: the competition that has no players is passed over, without a sleep. *)
NobodyRankedGoesOn == NextCompetition(FALSE)

(* Mutant: nor does it matter whether there is anyone to look at. *)
NobodyRankedShows ==
    /\ \E n \in PlayerCount : at' = [at EXCEPT !.toShow = n]
    /\ Goes("show") /\ UNCHANGED pass

(* A competition without scores: from the list again, after a sleep.  During   *)
(* the contest it was the next competition, at once.                           *)
NobodyRanked ==
    IF reproduce THEN NextCompetition(FALSE)
                 ELSE Rest("list") /\ pass' = NoPass /\ at' = Nowhere

(* Once, from a rank the first answer had. *)
AskAgain ==
    /\ at' = [at EXCEPT !.check = FALSE, !.players = TRUE]
    /\ IF reproduce THEN Goes("ask") ELSE Rest("ask")
    /\ UNCHANGED pass

LookAtPlayers ==
    /\ \E n \in PlayerCount : at' = [at EXCEPT !.players = TRUE, !.toShow = n]
    /\ Goes("show")
    /\ UNCHANGED pass

RankingAnswered ==
    /\ pc = "ranking"
    /\ \E late \in {0, 1} : slow' = slow + late /\ slow' < SlowLimit
    /\ LET seen == at.players \/ competitions[at.comp]
       IN  \/ ~seen /\ NobodyRanked
           \/ seen /\ at.check /\ AskAgain
           \/ seen /\ ~at.check /\ LookAtPlayers
    /\ UNCHANGED <<others, busy>>

(* However it was answered. *)
RankingTooSlow ==
    /\ pc = "ranking" /\ slow + 1 = SlowLimit
    /\ slow' = SlowLimit
    /\ Stops("left")
    /\ UNCHANGED <<others, busy>>

ShowPlayer ==
    /\ pc = "show" /\ ~ctxDone
    /\ IF at.toShow = 1 THEN NextCompetition(TRUE)
       ELSE Rest("show") /\ at' = [at EXCEPT !.toShow = @ - 1] /\ UNCHANGED pass
    /\ UNCHANGED <<others, slow, busy>>

(* SleepWithCtx: no sleep when the load is over. *)
Sleep ==
    /\ pc = "rest"
    /\ Goes(resume)
    /\ busy' = IF ctxDone THEN busy ELSE 0
    /\ UNCHANGED <<others, pass, at, slow>>

Requesting == pc \in {"list", "ask", "ranking", "show"}

(* Mutant: a cancelled request counts as an empty answer. *)
CanceledRetries ==
    /\ Requesting /\ ctxDone
    /\ Rest("list") /\ pass' = NoPass /\ at' = Nowhere
    /\ UNCHANGED <<others, slow, busy>>

Canceled ==
    /\ Requesting /\ ctxDone
    /\ Stops("ended")
    /\ UNCHANGED <<others, slow, busy>>

(* An answer that is not what it should be is counted and ends the worker,     *)
(* which runs its scenario once.                                               *)
PlayerFails ==
    /\ Requesting /\ pc # "ask"
    /\ Stops("failed")
    /\ UNCHANGED <<others, slow, busy>>

Player ==
    \/ ListCompetitions \/ ChooseCompetition \/ AskRanking \/ RankingAnswered \/ RankingTooSlow
    \/ ShowPlayer \/ Sleep \/ Canceled \/ PlayerFails

Next == Deadline \/ Organizer \/ StartPlayer \/ Player

Spec == Init /\ [][Next]_vars

(* Every request is answered or cancelled, and a sleep ends. *)
FairSpec == Spec /\ WF_vars(Organizer) /\ WF_vars(Player)

-----------------------------------------------------------------------------
(* Properties *)

(* What is drawn at random is drawn from something: rand.Intn(0) panics, and   *)
(* with it the whole benchmarker.                                              *)
TypeOK ==
    /\ ctxDone \in BOOLEAN /\ reproduce \in BOOLEAN
    /\ competitions \in Seq(BOOLEAN)
    /\ organizer \in {"draw", "enrol", "job", "upload", "finish", "bill", "elsewhere", "done"}
    /\ tenant \in {"new", "initial"}
    /\ pc \in {"list", "choose", "ask", "ranking", "show", "rest"} \cup Stopped
    /\ pass \in [shown : 0..Len(competitions), round : 1..LoopCount]
    /\ at \in [comp : 0..pass.shown, check : BOOLEAN, players : BOOLEAN, toShow : Nat]
    /\ slow \in 0..SlowLimit /\ busy \in 0..2
    /\ pc = "choose" => pass.shown # 0
    /\ pc \in {"ask", "ranking", "show"} => at.comp # 0
    /\ pc = "show" => at.players /\ at.toShow # 0

(* A player rests between two rankings, whatever the first one had: a server   *)
(* that has no scores yet is not asked again and again.  In the scenario of    *)
(* the contest it was, as the comment on PlayerScenarioReproduce says.         *)
RestsBetweenRankings == ~reproduce => busy <= 1

(* When the load is over, the workers of players and organizers come to their  *)
(* end, which Load waits for.                                                  *)
AllStopped == pc \in Stopped /\ organizer = "done"
WorkersStop == ctxDone ~> AllStopped
=============================================================================
