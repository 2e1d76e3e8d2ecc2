------------------------------- MODULE MCLoad -------------------------------
(***************************************************************************)
(* The load for TLC: its loop with what it needs of its workers            *)
(* (BenchLoad), or one player's worker with its requests (PlayerScenario). *)
(* They share the end of the load only: a behaviour is one of one, the     *)
(* other does not begin.                                                   *)
(***************************************************************************)
EXTENDS BenchLoad

CONSTANTS
    b1, s1, s2,
    LoopCount, SlowLimit, PlayerCount, MaxCompetitions    \* PlayerScenario

VARIABLES
    watched,    \* "load" or "player"
    competitions, organizer, tenant, reproduce, playerPc, resume, pass, at, slow, busy

PlayerWorker == INSTANCE PlayerScenario WITH pc <- playerPc

ASSUME PlayerAssumption == PlayerWorker!PlayerScenarioAssumption

benchVars == <<loadVars, channels, pc, offer, found, run>>
playerVars == <<competitions, organizer, tenant, reproduce, playerPc, resume, pass, at, slow, busy>>
allVars == <<watched, ctxDone, benchVars, playerVars>>

AnyPart ==
    /\ watched \in {"load", "player"}
    /\ Init /\ PlayerWorker!Init
    /\ watched = "load" => tenant = "initial" /\ ~reproduce

OnlyLoad == watched = "load" /\ UNCHANGED <<watched, playerVars>>
OnlyPlayer == watched = "player" /\ UNCHANGED <<watched, benchVars>>

AnyStep == (OnlyLoad /\ Next) \/ (OnlyPlayer /\ PlayerWorker!Next)

(* The fairness of BenchLoad and of PlayerScenario, each of the part that is *)
(* watched.                                                                  *)
LoadSpec ==
    /\ AnyPart /\ [][AnyStep]_allVars
    /\ WF_allVars(OnlyLoad /\ (SendBase \/ Begin \/ Cancel \/ Return))
    /\ SF_allVars(OnlyLoad /\ ReceiveWorker) /\ SF_allVars(OnlyLoad /\ ReceiveError)
    /\ SF_allVars(OnlyLoad /\ ReceiveCritical) /\ SF_allVars(OnlyLoad /\ SeeDeadline)
    /\ \A w \in Worker : SF_allVars(OnlyLoad /\ Sends(w)) /\ WF_allVars(OnlyLoad /\ Canceled(w))
    /\ WF_allVars(OnlyPlayer /\ PlayerWorker!Organizer)
    /\ WF_allVars(OnlyPlayer /\ PlayerWorker!Player)

-----------------------------------------------------------------------------
(* When the load is over Load comes to its end, unless a worker meets a full *)
(* channel after it has stopped receiving.                                   *)
HangsOnlyAtFullChannel ==
    watched = "load" /\ Over ~> (Returned \/ \E w \in Worker : Stuck(w))

(* The properties of the player's worker, stated in PlayerScenario: it has    *)
(* something to draw from, it rests between rankings, and it comes to its end. *)
PlayerTypeOK == PlayerWorker!TypeOK
RestsBetweenRankings == PlayerWorker!RestsBetweenRankings
WorkersStop == watched = "player" /\ ctxDone ~> PlayerWorker!AllStopped
=============================================================================
