-------------------------- MODULE CompetitionList --------------------------
(***************************************************************************)
(* The organizer's page of competitions in the browser                     *)
(* (frontend/src/views/tenant/organizer/CompetitionListView.vue): every    *)
(* answer of GET /api/organizer/competitions replaces the list, every      *)
(* finish or addition that was answered asks for it again, and what was    *)
(* asked for may be served and answered in any order or not at all.  Its   *)
(* other dialog (components/tenant/UploadCSVModal.vue) uploads a file to   *)
(* the competition it was opened for.                                      *)
(* PlayerListView.vue is the same with players and disqualified for        *)
(* competitions and finished, and without the upload.                      *)
(***************************************************************************)
EXTENDS Integers, Sequences, FiniteSets, SequencesExt

CONSTANTS
    Competition,        \* bound on the competitions
    InitialCompetition, \* those there are when the page is opened
    CSV,                \* files the organizer may choose
    NULL,               \* no file, no competition
    MaxGets, MaxPosts   \* bounds on the requests

CompetitionListAssumption ==
    /\ InitialCompetition \subseteq Competition
    /\ NULL \notin CSV \cup Competition
    /\ MaxGets \in Nat \ {0} /\ MaxPosts \in Nat

VARIABLES
    table,          \* the server: competitions, and whether each is finished
    competitions,   \* the same as the page shows it
    gets, posts,    \* the requests, in the order they were sent
    dialog,         \* what the upload dialog holds
    uploaded        \* history: the last upload it sent

vars == <<table, competitions, gets, posts, dialog, uploaded>>
dialogVars == <<dialog, uploaded>>

Table == UNION {[cs -> BOOLEAN] : cs \in SUBSET Competition}
Get == [state : {"sent", "cut", "over"}, alone : BOOLEAN, rows : Table]
Post == [op : {"finish", "add"}, competition : Competition,
         state : {"sent", "done", "ok", "failed"}]
\* chosen: history, the competition the dialog named when the file was chosen
Upload == [competition : Competition, file : CSV, input : CSV \cup {NULL},
           chosen : Competition]

NoRows == [c \in {} |-> FALSE]
UnderWay(k) == gets[k].state # "over"

(* alone: history, no other GET was under way. *)
NewGet(before) ==
    Append(before, [state |-> "sent", rows |-> NoRows,
                    alone |-> \A k \in DOMAIN before : before[k].state = "over"])

Init ==
    /\ table = [c \in InitialCompetition |-> FALSE]
    /\ competitions = NoRows
    /\ gets = NewGet(<<>>) /\ posts = <<>>
    /\ dialog = [show |-> FALSE, id |-> NULL, csvFile |-> NULL, input |-> NULL, chosen |-> NULL]
    /\ uploaded = NULL

-----------------------------------------------------------------------------
(* The server *)

Serve(k) ==
    /\ gets[k].state = "sent"
    /\ gets' = [gets EXCEPT ![k].state = "cut", ![k].rows = table]
    /\ UNCHANGED <<table, competitions, posts, dialogVars>>

Finished(c) == table' = [table EXCEPT ![c] = TRUE]
Added(c) == c \notin DOMAIN table /\ table' = [d \in DOMAIN table \cup {c} |-> d # c /\ table[d]]

Handle(p) ==
    /\ posts[p].state = "sent"
    /\ IF posts[p].op = "finish" THEN Finished(posts[p].competition)
                                 ELSE Added(posts[p].competition)
    /\ posts' = [posts EXCEPT ![p].state = "done"]
    /\ UNCHANGED <<competitions, gets, dialogVars>>

(* Another page, or another organizer. *)
Elsewhere ==
    /\ \E c \in Competition : (c \in DOMAIN table /\ Finished(c)) \/ Added(c)
    /\ UNCHANGED <<competitions, gets, posts, dialogVars>>

-----------------------------------------------------------------------------
(* The list *)

Over(k) == gets' = [gets EXCEPT ![k].state = "over", ![k].rows = NoRows]

Show(k) ==
    /\ gets[k].state = "cut"
    /\ Over(k)
    /\ competitions' = gets[k].rows
    /\ UNCHANGED <<table, posts, dialogVars>>

GetFails(k) ==
    /\ UnderWay(k)
    /\ Over(k)
    /\ UNCHANGED <<table, competitions, posts, dialogVars>>

Ask(op, c) ==
    /\ ~dialog.show /\ Len(posts) < MaxPosts
    /\ posts' = Append(posts, [op |-> op, competition |-> c, state |-> "sent"])
    /\ UNCHANGED <<table, gets, dialogVars>>

(* Mutant: the row is shown as finished at once. *)
CompleteCompetitionAtOnce(c) ==
    /\ c \in DOMAIN competitions /\ ~competitions[c]
    /\ Ask("finish", c)
    /\ competitions' = [competitions EXCEPT ![c] = TRUE]

(* The button is only there for a competition the page takes for running; it   *)
(* stays there until the list is loaded again.                                 *)
CompleteCompetition(c) ==
    /\ c \in DOMAIN competitions /\ ~competitions[c]
    /\ Ask("finish", c)
    /\ UNCHANGED competitions

(* The id is the server's choice: one that is not taken. *)
AddCompetition(c) ==
    /\ c \notin DOMAIN table
    /\ \A p \in DOMAIN posts : posts[p].op = "add" => posts[p].competition # c
    /\ Ask("add", c)
    /\ UNCHANGED competitions

(* 画面を更新! *)
Answered(p) ==
    /\ posts[p].state = "done" /\ Len(gets) < MaxGets
    /\ posts' = [posts EXCEPT ![p].state = "ok"]
    /\ gets' = NewGet(gets)
    /\ UNCHANGED <<table, competitions, dialogVars>>

(* Refused or lost: an alert at best. *)
PostFails(p) ==
    /\ posts[p].state \in {"sent", "done"}
    /\ posts' = [posts EXCEPT ![p].state = "failed"]
    /\ UNCHANGED <<table, competitions, gets, dialogVars>>

-----------------------------------------------------------------------------
(* The dialog, which covers the page while it is open *)

HandleUploadCSV(c) ==
    /\ ~dialog.show
    /\ c \in DOMAIN competitions /\ ~competitions[c]
    /\ dialog' = [dialog EXCEPT !.show = TRUE, !.id = c]
    /\ UNCHANGED <<table, competitions, gets, posts, uploaded>>

(* A selection that was broken off leaves no file. *)
HandleFileChange(file) ==
    /\ dialog.show
    /\ dialog' = [dialog EXCEPT !.csvFile = file, !.input = file, !.chosen = dialog.id]
    /\ UNCHANGED <<table, competitions, gets, posts, uploaded>>

(* Mutant: the dialog is only hidden. *)
CloseKeepsInput == dialog' = [dialog EXCEPT !.show = FALSE]

(* The input is emptied, csvFile is not. *)
Close == dialog' = [dialog EXCEPT !.show = FALSE, !.input = NULL]

HandleApply ==
    /\ dialog.show
    /\ IF dialog.csvFile = NULL THEN UNCHANGED uploaded
       ELSE uploaded' = [competition |-> dialog.id, file |-> dialog.csvFile,
                         input |-> dialog.input, chosen |-> dialog.chosen]
    /\ Close
    /\ UNCHANGED <<table, competitions, gets, posts>>

HandleClose ==
    /\ dialog.show
    /\ Close
    /\ UNCHANGED <<table, competitions, gets, posts, uploaded>>

-----------------------------------------------------------------------------
Next ==
    \/ \E k \in DOMAIN gets : Serve(k) \/ Show(k) \/ GetFails(k)
    \/ \E p \in DOMAIN posts : Handle(p) \/ Answered(p) \/ PostFails(p)
    \/ Elsewhere
    \/ \E c \in Competition : CompleteCompetition(c) \/ AddCompetition(c) \/ HandleUploadCSV(c)
    \/ \E file \in CSV \cup {NULL} : HandleFileChange(file)
    \/ HandleApply \/ HandleClose

Spec == Init /\ [][Next]_vars

-----------------------------------------------------------------------------
TypeOK ==
    /\ {table, competitions} \subseteq Table
    /\ gets \in Seq(Get) /\ Len(gets) \in 1..MaxGets
    /\ posts \in Seq(Post) /\ Len(posts) <= MaxPosts
    /\ dialog \in [show : BOOLEAN, id : Competition \cup {NULL}, chosen : Competition \cup {NULL},
                   csvFile : CSV \cup {NULL}, input : CSV \cup {NULL}]
    /\ dialog.show => dialog.id \in Competition
    /\ uploaded \in Upload \cup {NULL}

(* A row that was shown as finished is taken back, with its buttons, or gone,  *)
(* only if some answer was under way beside another: never while at most one   *)
(* was under way at a time.                                                    *)
GoesBackOnlyIfOvertaken ==
    [][(\E c \in DOMAIN competitions :
           c \notin DOMAIN competitions' \/ (competitions[c] /\ ~competitions'[c]))
       => \E k \in DOMAIN gets : ~gets[k].alone]_vars

(* A file the dialog shows goes to the competition it was chosen for.  An      *)
(* empty dialog sends the file of the last time, to whichever competition it   *)
(* is open for now: closing empties the input and leaves csvFile.              *)
ShownFileGoesWhereChosen ==
    uploaded # NULL /\ uploaded.input # NULL =>
       uploaded.file = uploaded.input /\ uploaded.chosen = uploaded.competition
=============================================================================
