------------------------------- MODULE Ranking -------------------------------
(***************************************************************************)
(* From the rows of one competition to the list a participant sees.  The   *)
(* server (competitionRankingHandler in webapp/go/isuports.go) selects the *)
(* rows under the tenant's lock, keeps one per participant, sorts, and     *)
(* cuts a page at rank_after; the browser (usePagerLoader in frontend/)    *)
(* asks for page after page while the organizer keeps uploading files.     *)
(***************************************************************************)
EXTENDS Integers, Sequences, FiniteSets, SequencesExt

CONSTANTS
    Player,
    Score,          \* scores a file may hold
    MaxRows,        \* bound on the rows of a file
    PageSize,       \* ranks in a page: 100 in the handler and in the browser
    MaxUploads      \* bound on the uploads of a behaviour

ASSUME RankingAssumption ==
    /\ Score \subseteq Int
    /\ MaxRows \in Nat /\ MaxUploads \in Nat
    /\ PageSize \in Nat \ {0}

VARIABLES
    rows,       \* table player_score of the competition
    uploads,    \* uploads so far
    ranks,      \* the list in the browser
    nextId,     \* rank_after of its next request; 0 before the first page
    noMoreLoad, \* the browser offers no further page
    isLoading,  \* a request is under way
    response,   \* the page on its way to the browser
    stable      \* history: no upload since the first page was cut

serverVars == <<rows, uploads>>
clientVars == <<ranks, nextId, noMoreLoad, isLoading, response, stable>>
vars == <<serverVars, clientVars>>

-----------------------------------------------------------------------------
(* The handler. *)

Row == [player : Player, score : Score, rowNum : 1..MaxRows]
File == UNION {[1..n -> [player : Player, score : Score]] : n \in 0..MaxRows}
RowsOf(file) == {[player |-> file[i].player, score |-> file[i].score, rowNum |-> i] :
                    i \in DOMAIN file}

(* The elements of a set in the order of a relation, as a sort leaves them. *)
Arranged(S, before) ==
    CHOOSE f \in [1..Cardinality(S) -> S] :
        \A i, j \in 1..Cardinality(S) : i < j => <<f[i], f[j]>> \in before

(* Mutant: ORDER BY row_num. *)
SelectedAscending(table) ==
    Arranged(table, {p \in table \X table : p[1].rowNum < p[2].rowNum})

(* SELECT ... ORDER BY row_num DESC *)
Selected(table) ==
    Arranged(table, {p \in table \X table : p[1].rowNum > p[2].rowNum})

(* scoredPlayerSet: later rows of a participant are skipped. *)
FirstOfEach(pss) ==
    {pss[i] : i \in {k \in DOMAIN pss : \A j \in 1..(k - 1) : pss[j].player # pss[k].player}}

(* The less function of sort.Slice. *)
Ahead(a, b) == \/ a.score > b.score
               \/ a.score = b.score /\ a.rowNum < b.rowNum

Ranked(scored) == Arranged(scored, {p \in scored \X scored : Ahead(p[1], p[2])})

(* Mutant: the participant at rank_after is sent again. *)
SkippedButOne(rankAfter) == IF rankAfter > 1 THEN rankAfter - 1 ELSE 0

(* How many leading ranks i < rankAfter skips. *)
Skipped(rankAfter) == IF rankAfter > 0 THEN rankAfter ELSE 0

(* Mutant: the index of the slice is taken for the rank. *)
EntryFromZero(rank, row) == [rank |-> rank - 1, score |-> row.score, player |-> row.player]

Entry(rank, row) == [rank |-> rank, score |-> row.score, player |-> row.player]

(* pagedRanks *)
Page(table, rankAfter) ==
    LET scored == FirstOfEach(Selected(table))
        from == Skipped(rankAfter)
        rest == Cardinality(scored) - from
    IN [k \in 1..(IF rest < PageSize THEN rest ELSE PageSize) |->
           Entry(from + k, Ranked(scored)[from + k])]

-----------------------------------------------------------------------------
Init ==
    /\ rows = {} /\ uploads = 0
    /\ ranks = <<>> /\ nextId = 0
    /\ noMoreLoad = FALSE /\ isLoading = FALSE
    /\ response = <<>> /\ stable = TRUE

(* setup(): the participant opens the page anew, with an empty list and a new  *)
(* usePagerLoader; an answer to the old one is dropped.                        *)
Open ==
    /\ ranks' = <<>> /\ nextId' = 0
    /\ noMoreLoad' = FALSE /\ isLoading' = FALSE
    /\ response' = <<>> /\ stable' = TRUE
    /\ UNCHANGED serverVars

(* The organizer replaces the file. *)
Upload ==
    /\ uploads < MaxUploads
    /\ \E file \in File : rows' = RowsOf(file)
    /\ uploads' = uploads + 1
    /\ stable' = (stable /\ ranks = <<>> /\ ~isLoading /\ ~noMoreLoad)
    /\ UNCHANGED <<ranks, nextId, noMoreLoad, isLoading, response>>

(* onMounted or the button, which is hidden while a page loads: the handler    *)
(* answers from the table of that moment.                                      *)
Fetch ==
    /\ ~isLoading /\ ~noMoreLoad
    /\ isLoading' = TRUE
    /\ response' = Page(rows, nextId)
    /\ UNCHANGED <<serverVars, ranks, nextId, noMoreLoad, stable>>

(* Mutant: a full page is taken for the last one. *)
ReceiveStopsEarly ==
    /\ isLoading
    /\ isLoading' = FALSE
    /\ ranks' = ranks \o response
    /\ nextId' = IF response = <<>> THEN nextId ELSE response[Len(response)].rank
    /\ noMoreLoad' = (Len(response) <= PageSize)
    /\ response' = <<>>
    /\ UNCHANGED <<serverVars, stable>>

Receive ==
    /\ isLoading
    /\ isLoading' = FALSE
    /\ ranks' = ranks \o response
    /\ nextId' = IF response = <<>> THEN nextId ELSE response[Len(response)].rank
    /\ noMoreLoad' = (Len(response) < PageSize)
    /\ response' = <<>>
    /\ UNCHANGED <<serverVars, stable>>

(* The request or its response is lost, or the answer is an error: an alert,   *)
(* and the button again.                                                       *)
FetchFails ==
    /\ isLoading
    /\ isLoading' = FALSE
    /\ response' = <<>>
    /\ UNCHANGED <<serverVars, ranks, nextId, noMoreLoad, stable>>

Next == Open \/ Upload \/ Fetch \/ Receive \/ FetchFails

Spec == Init /\ [][Next]_vars

-----------------------------------------------------------------------------
(* The ranking as the documentation defines it, without an algorithm. *)

Scored(table) == {row.player : row \in table}

(* "The row that appears last in the CSV is used", per participant. *)
Counting(table) ==
    {row \in table : \A other \in table : other.player = row.player => other.rowNum <= row.rowNum}

(* "On equal scores the one that appears first in the CSV ranks higher." *)
RankIn(counting, row) ==
    1 + Cardinality({other \in counting :
            \/ other.score > row.score
            \/ other.score = row.score /\ other.rowNum < row.rowNum})

Standings(table) ==
    {Entry(RankIn(Counting(table), row), row) : row \in Counting(table)}

-----------------------------------------------------------------------------
(* Properties *)

EntryType == [rank : 1..MaxRows, score : Score, player : Player]
TypeOK ==
    /\ rows \subseteq Row /\ uploads \in 0..MaxUploads
    /\ nextId \in 0..MaxRows
    /\ ranks \in Seq(EntryType) /\ response \in Seq(EntryType)
    /\ {noMoreLoad, isLoading, stable} \subseteq BOOLEAN

(* Whatever rank_after is (0 and less ask for the first page), the page holds  *)
(* the standings after it, at most PageSize of them, each at its place.        *)
PageAgreesWithStandings ==
    \A rankAfter \in -1..(MaxRows + 1) :
        LET page == Page(rows, rankAfter)
            from == Skipped(rankAfter)
        IN /\ ToSet(page) = {e \in Standings(rows) : e.rank \in (from + 1)..(from + PageSize)}
           /\ \A k \in DOMAIN page : page[k].rank = from + k

(* However uploads and lost requests fall between the pages, the browser's     *)
(* list has every rank once and in order.                                      *)
ListHasEveryRankOnce == \A i \in DOMAIN ranks : ranks[i].rank = i

(* When the button disappears and no upload came in since the first page, the  *)
(* list is the whole ranking: nobody is missing at the seam of two pages.      *)
ListIsComplete == noMoreLoad /\ stable => ToSet(ranks) = Standings(rows)
============================================================================
