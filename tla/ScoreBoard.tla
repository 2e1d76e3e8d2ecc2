----------------------------- MODULE ScoreBoard -----------------------------
(***************************************************************************)
(* What the score upload and the handlers that read scores promise         *)
(* together: a board per competition that an upload replaces in one step,  *)
(* and readers that are shown the board as it is at one instant.  There is *)
(* no lock, no DELETE and no INSERT here.  When statements may fail or the *)
(* process may die, an upload can also break off and leave the first rows  *)
(* of its file; nothing else can damage a board.                           *)
(***************************************************************************)
EXTENDS Integers, Sequences

CONSTANTS Competition, Player, CSV, MayBreakOff,
          NULL    \* in the place of a competition: the page is not of one

VARIABLES
    board,  \* the rows of each competition
    shown   \* the page in the last response

boardVars == <<board, shown>>

(* What a client sees: a ranking names its competition, so that an empty      *)
(* ranking is not the same as no ranking.                                     *)
Page(kind, c, rows) == [page |-> kind, competition |-> c, rows |-> rows]
NoPage == Page("none", NULL, {})

FirstRows(csv, k) ==
    {[player |-> csv[i].player, score |-> csv[i].score, rowNum |-> i] : i \in 1..k}

(* The row of p that counts: the last one of the file. *)
Counts(rows, p) ==
    {row \in rows : row.player = p /\ \A other \in rows :
                       other.player = p => other.rowNum <= row.rowNum}

BoardInit == board = [c \in Competition |-> {}] /\ shown = NoPage

Upload(c) ==
    /\ \E csv \in CSV : board' = [board EXCEPT ![c] = FirstRows(csv, Len(csv))]
    /\ UNCHANGED shown

(* The client of an upload that broke off gets an error, which shows no page. *)
BreakOff(c) ==
    /\ MayBreakOff
    /\ \E csv \in CSV : \E k \in 0..Len(csv) : board' = [board EXCEPT ![c] = FirstRows(csv, k)]
    /\ shown' \in {shown, NoPage}

ShowRanking ==
    \E c \in Competition : shown' = Page("ranking", c, board[c]) /\ UNCHANGED board

ShowPlayer ==
    \E p \in Player, cs \in SUBSET Competition :
        /\ shown' = Page("player", NULL, UNION {Counts(board[c], p) : c \in cs})
        /\ UNCHANGED board

(* Any other response; it is not a ranking and not a participant's page. *)
ShowNothing == shown' = NoPage /\ UNCHANGED board

BoardNext ==
    \/ \E c \in Competition : Upload(c) \/ BreakOff(c)
    \/ ShowRanking \/ ShowPlayer \/ ShowNothing

BoardSpec == BoardInit /\ [][BoardNext]_boardVars
=============================================================================
