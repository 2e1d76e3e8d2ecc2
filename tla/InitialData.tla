---------------------------- MODULE InitialData ----------------------------
(***************************************************************************)
(* The initial data of a tenant (data/data.go): what CreatePlayerData      *)
(* draws, what storeTenant and storeAdmin write of it in batches, and what *)
(* the benchmarker is told that the tenant owes.  The last row of a list   *)
(* is in no batch; the bills are computed from all that was drawn.  The    *)
(* ids of the rows are in Identifiers.                                     *)
(***************************************************************************)
EXTENDS Service

CONSTANTS
    PlayersDrawn,       \* of a tenant: 20 to 200
    CompetitionsDrawn,  \* 2 to 20
    LeastVisits,        \* of a player who is there for a competition: 7
    LeastScores,        \* of a player who takes part: 10
    BatchSize           \* 1000

ASSUME InitialDataAssumption ==
    /\ PlayersDrawn \in Nat \ {0} /\ CompetitionsDrawn \in Nat \ {0}
    /\ LeastVisits \in Nat /\ LeastVisits >= 2 /\ LeastScores \in Nat /\ LeastScores >= 2
    /\ BatchSize \in Nat \ {0}

DrawnPlayer == 1..PlayersDrawn

(* The scores of the players of a competition by the times they were made. *)
Orders(scored) ==
    {o \in [1..(Cardinality(scored) * LeastScores) -> scored] :
        \A p \in scored : Cardinality({i \in DOMAIN o : o[i] = p}) = LeastScores}

(* Who comes late was created after the finish, and nine in ten of the others  *)
(* take part.                                                                  *)
Competition(finished, late, order) == [finished |-> finished, late |-> late, order |-> order]
LateSets(finished) == IF finished THEN SUBSET DrawnPlayer ELSE {{}}
OrdersWithout(late) == UNION {Orders(scored) : scored \in SUBSET (DrawnPlayer \ late)}
Draws ==
    UNION {UNION {{Competition(finished, late, order) : order \in OrdersWithout(late)} :
                     late \in LateSets(finished)} : finished \in BOOLEAN}

Ascending(S) == Ordered(S, {p \in S \X S : p[1] < p[2]})

There(draw) == Ascending(DrawnPlayer \ draw.late)
Visits(draw) ==
    [i \in 1..(LeastVisits * Len(There(draw))) |-> There(draw)[1 + (i - 1) \div LeastVisits]]

(* The rows of a tenant, one competition after another. *)
TenantRows(players) ==
    FlattenSeq([c \in DOMAIN players |->
                   [i \in DOMAIN players[c] |-> [competition |-> c, player |-> players[c][i]]]])
ScoreRows(draws) == TenantRows([c \in DOMAIN draws |-> draws[c].order])
VisitRows(draws) == TenantRows([c \in DOMAIN draws |-> Visits(draws[c])])

-----------------------------------------------------------------------------
(* storeTenant and storeAdmin; indexes as in the code, from 0. *)

Cuts(n) == Ascending({i \in 0..(n - 1) : (i > 0 /\ i % BatchSize = 0) \/ i = n - 1})

(* rows[from:i] *)
Batches(rows) ==
    LET cuts == Cuts(Len(rows))
        from(k) == IF k = 1 THEN 0 ELSE cuts[k - 1]
    IN  [k \in DOMAIN cuts |-> SubSeq(rows, from(k) + 1, cuts[k])]

(* A list of one row makes an empty batch, which is an error. *)
StoreFails(rows) == <<>> \in ToSet(Batches(rows))
Stored(rows) == FlattenSeq(Batches(rows))

-----------------------------------------------------------------------------
(* The tenant's tables. *)
Tables(draws) ==
    LET scores == Stored(ScoreRows(draws))
        visits == Stored(VisitRows(draws))
        of(rows, c) == Ascending({i \in DOMAIN rows : rows[i].competition = c})
        in(rows, c) == [n \in DOMAIN of(rows, c) |-> rows[of(rows, c)[n]]]
        scored(rows) == [i \in DOMAIN rows |-> [player |-> rows[i].player, score |-> 7]]
    IN  [EmptyTenant EXCEPT
            !.players = PlayersDrawn,
            !.competitions = [c \in DOMAIN draws |->
                [NewCompetition EXCEPT !.finished = draws[c].finished,
                                       !.rows = scored(in(scores, c)),
                                       !.visitors = {v.player : v \in ToSet(in(visits, c))}]]]

(* A player who is there has visits, and costs 100 instead of 10 with scores. *)
CompetitionBilling(draw) ==
    IF draw.finished
    THEN 100 * Cardinality(ToSet(draw.order))
         + 10 * Cardinality((DrawnPlayer \ draw.late) \ ToSet(draw.order))
    ELSE 0

(* What the web application has, and what the benchmarker expects it to bill. *)
Initial(draws) ==
    [tenant |-> Tables(draws),
     billing |-> [c \in DOMAIN draws |-> CompetitionBilling(draws[c])]]

StoredInitials ==
    {Initial(draws) : draws \in
        {d \in [1..CompetitionsDrawn -> Draws] :
            ~StoreFails(ScoreRows(d)) /\ ~StoreFails(VisitRows(d))}}

(* Every second competition is finished; the first player came after that, and *)
(* takes part in the others.                                                   *)
TypicalInitial ==
    Initial([c \in 1..CompetitionsDrawn |->
                IF c % 2 = 1 THEN Competition(TRUE, {1}, <<>>)
                             ELSE Competition(FALSE, {}, [i \in 1..LeastScores |-> 1])])
============================================================================
