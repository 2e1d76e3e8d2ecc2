---------------------------- MODULE Identifiers ----------------------------
(***************************************************************************)
(* Where ids come from.  The generator of the initial data derives them    *)
(* from the time a row is created (data/data.go); the web application asks *)
(* MySQL's AUTO_INCREMENT (dispenseID in webapp/go/isuports.go), which the *)
(* data starts above its own ids and POST /initialize sets back to a       *)
(* number of its own (webapp/sql/init.sql), while it puts the tenants'     *)
(* files back (webapp/sql/init.sh).  Handlers may be running meanwhile.    *)
(* Rows are those of players, competitions and scores.                     *)
(***************************************************************************)
EXTENDS Integers, FiniteSets

CONSTANTS
    Request,        \* goroutines of handlers that add one row
    Seconds,        \* from Epoch to the end of the initial data: 2678400
    IdsPerSecond,   \* 10000
    FirstIds,       \* the first of a second is one of these: 100
    Origin,         \* of webapp/sql/init.sql: 2678400000
    MaxTries,       \* 100
    Created,        \* the seconds rows of the initial data are created in
    MaxGenerated, MaxDispensed, MaxInits    \* bounds

ASSUME IdentifiersAssumption ==
    /\ Seconds \in Nat \ {0} /\ IdsPerSecond \in Nat \ {0}
    /\ FirstIds \in 1..IdsPerSecond /\ MaxTries \in Nat \ {0}
    /\ Created \subseteq 0..(Seconds - 1)
    /\ MaxGenerated \in Nat /\ MaxDispensed \in Nat /\ MaxInits \in Nat

MaxID == Seconds * IdsPerSecond
ASSUME OriginAssumption == Origin \in 1..MaxID

Id == 0..(MaxID + MaxDispensed + 1)
NoId == 0
Bag == [Id -> Nat]
Add(bag, id) == [bag EXCEPT ![id] = @ + 1]
NoRows == [id \in Id |-> 0]

VARIABLES
    phase,          \* "generate", "stopped" or "serve"
    idMap,          \* the last of each second, -1 for none
    generatedMaxID, generated,      \* how many rows have each id
    stub, autoIncrement,            \* id_generator: its row, and its next
    files,          \* the tenants' files are there
    rows,           \* in them
    initialize, inits,  \* "waiting" while one is running; how many there were
    script,         \* the step of init.sh
    pc, i, id, file,    \* of each handler; of its file: "closed", "open", "unlinked"
    clean,          \* history: requests that no /initialize overlaps so far,
    promised,       \*   ids of rows they were answered 200 for since the last /initialize,
    mixed           \*   the files may hold rows of before and after one

data == <<phase, idMap, generatedMaxID, generated>>
generator == <<stub, autoIncrement>>
handlers == <<pc, i, id, file>>
history == <<clean, promised, mixed>>
initialization == <<initialize, inits, script>>
vars == <<data, generator, files, rows, initialization, handlers, history>>

Init ==
    /\ phase = "generate" /\ idMap = [s \in Created |-> -1]
    /\ generatedMaxID = 0 /\ generated = NoRows
    /\ stub = NoId /\ autoIncrement = 1 /\ files = FALSE /\ rows = NoRows
    /\ initialize = "none" /\ inits = 0 /\ script = "none"
    /\ pc = [r \in Request |-> "idle"] /\ i = [r \in Request |-> 0]
    /\ id = [r \in Request |-> NoId] /\ file = [r \in Request |-> "closed"]
    /\ clean = [r \in Request |-> TRUE]
    /\ promised = {} /\ mixed = FALSE

-----------------------------------------------------------------------------
(* genID *)

Generated == {g \in Id : generated[g] > 0}
serverless == <<generator, files, rows, initialization, handlers, history>>

(* Mutant: a second is not left when it is full. *)
NewIdsRunOver(s) ==
    IF idMap[s] = -1 THEN {s * IdsPerSecond + n : n \in 0..(FirstIds - 1)}
    ELSE {s * IdsPerSecond + idMap[s] + 1}

(* The ids a row created in that second may get; none if there are too many. *)
NewIds(s) ==
    IF idMap[s] = -1 THEN {s * IdsPerSecond + n : n \in 0..(FirstIds - 1)}
    ELSE IF idMap[s] < IdsPerSecond - 1 THEN {s * IdsPerSecond + idMap[s] + 1}
    ELSE {}

Highest(newID) == IF newID > generatedMaxID THEN newID ELSE generatedMaxID

GenID(s) ==
    /\ phase = "generate" /\ s > 0
    /\ Cardinality(Generated) < MaxGenerated
    /\ \E newID \in NewIds(s) :
          /\ idMap' = [idMap EXCEPT ![s] = newID - s * IdsPerSecond]
          /\ generatedMaxID' = Highest(newID)
          /\ generated' = Add(generated, newID)
          /\ phase' = IF generatedMaxID' >= MaxID THEN "stopped" ELSE phase
    /\ UNCHANGED serverless

(* A row created at Epoch itself, and too many of one second. *)
GenStops(s) ==
    /\ phase = "generate" /\ (s <= 0 \/ NewIds(s) = {})
    /\ phase' = "stopped"
    /\ UNCHANGED <<idMap, generatedMaxID, generated, serverless>>

(* storeMaxID *)
Store ==
    /\ phase = "generate" /\ phase' = "serve"
    /\ stub' = MaxID /\ autoIncrement' = MaxID + 1
    /\ files' = TRUE /\ rows' = generated
    /\ UNCHANGED <<idMap, generatedMaxID, generated, initialization, handlers, history>>

-----------------------------------------------------------------------------
(* A handler: dispenseID, and an INSERT with the id. *)

(* The ids the bound lets through. *)
Dispensable ==
    {n \in Id : n <= Origin + MaxDispensed \/ (MaxID < n /\ n <= MaxID + MaxDispensed)}

Goto(r, label) == pc' = [pc EXCEPT ![r] = label]
elsewhere == <<data, initialization>>

(* An upload has read its tenant's file before it dispenses an id; who adds    *)
(* players or a competition opens the file for the INSERT.                     *)
Receive(r) ==
    /\ phase = "serve" /\ pc[r] = "idle"
    /\ Goto(r, "dispense")
    /\ i' = [i EXCEPT ![r] = 0]
    /\ file' \in {file} \cup (IF files THEN {[file EXCEPT ![r] = "open"]} ELSE {})
    /\ clean' = [clean EXCEPT ![r] = initialize = "none"]
    /\ UNCHANGED <<elsewhere, generator, files, rows, id, promised, mixed>>

(* Mutant: the generator's row is kept, and its id read. *)
ReplaceIgnored(r) ==
    /\ pc[r] = "dispense" /\ stub # NoId
    /\ id' = [id EXCEPT ![r] = stub] /\ Goto(r, "insert")
    /\ UNCHANGED <<elsewhere, generator, files, rows, i, file, history>>

(* REPLACE INTO id_generator (stub) VALUES ('a') *)
Replace(r) ==
    /\ pc[r] = "dispense"
    /\ autoIncrement \in Dispensable
    /\ stub' = autoIncrement /\ autoIncrement' = autoIncrement + 1
    /\ id' = [id EXCEPT ![r] = autoIncrement]
    /\ Goto(r, "insert")
    /\ UNCHANGED <<elsewhere, files, rows, i, file, clean, promised, mixed>>

(* The handler is done, with or without its row. *)
Return(r) ==
    /\ Goto(r, "idle")
    /\ id' = [id EXCEPT ![r] = NoId] /\ i' = [i EXCEPT ![r] = 0]
    /\ file' = [file EXCEPT ![r] = "closed"] /\ clean' = [clean EXCEPT ![r] = TRUE]

(* Mutant: the loop does not end. *)
DeadlockForever(r) ==
    /\ pc[r] = "dispense"
    /\ i' = [i EXCEPT ![r] = (@ + 1) % MaxTries]
    /\ UNCHANGED <<elsewhere, generator, files, rows, pc, id, file, history>>

(* Mutant: the last error is lost. *)
DeadlockNoError(r) ==
    /\ pc[r] = "dispense"
    /\ IF i[r] + 1 < MaxTries THEN i' = [i EXCEPT ![r] = @ + 1] /\ UNCHANGED pc
                              ELSE Goto(r, "insert") /\ UNCHANGED i
    /\ UNCHANGED <<elsewhere, generator, files, rows, id, file, history>>

(* Error 1213: once more, and after a hundred times the last error. *)
Deadlock(r) ==
    /\ pc[r] = "dispense"
    /\ IF i[r] + 1 < MaxTries
       THEN i' = [i EXCEPT ![r] = @ + 1] /\ UNCHANGED <<pc, id, file, clean>>
       ELSE Return(r)
    /\ UNCHANGED <<elsewhere, generator, files, rows, promised, mixed>>

(* Any other error, which may have come after the effect. *)
ReplaceFails(r) ==
    /\ pc[r] = "dispense"
    /\ Return(r)
    /\ \/ UNCHANGED generator
       \/ /\ autoIncrement \in Dispensable
          /\ stub' = autoIncrement /\ autoIncrement' = autoIncrement + 1
    /\ UNCHANGED <<elsewhere, files, rows, promised, mixed>>

(* A file that has been removed takes rows as long as it is open. *)
Insert(r) ==
    /\ pc[r] = "insert"
    /\ file[r] = "open" \/ (file[r] = "closed" /\ files)
    /\ rows' = Add(rows, id[r])
    /\ promised' = IF clean[r] THEN promised \cup {id[r]} ELSE promised
    /\ mixed' = (mixed \/ ~clean[r])
    /\ Return(r)
    /\ UNCHANGED <<elsewhere, generator, files>>

InsertUnlinked(r) ==
    /\ pc[r] = "insert" /\ file[r] = "unlinked"
    /\ promised' = IF clean[r] THEN promised \cup {id[r]} ELSE promised
    /\ Return(r)
    /\ UNCHANGED <<elsewhere, generator, files, rows, mixed>>

(* There is no file, it is locked, or its table has a row with the id. *)
InsertFails(r) ==
    /\ pc[r] = "insert"
    /\ Return(r)
    /\ UNCHANGED <<elsewhere, generator, files, rows, promised, mixed>>

-----------------------------------------------------------------------------
(* POST /initialize: init.sql and then init.sh, which ends at an error. *)

unscripted == <<data, handlers>>

Initialize ==
    /\ phase = "serve" /\ initialize = "none" /\ inits < MaxInits
    /\ initialize' = "waiting" /\ inits' = inits + 1 /\ script' = "update"
    /\ promised' = {} /\ clean' = [r \in Request |-> pc[r] = "idle"]
    /\ UNCHANGED <<unscripted, generator, files, rows, mixed>>

(* Mutant: the script is started and not waited for. *)
AnswerAtOnce ==
    /\ initialize = "waiting" /\ initialize' = "none"
    /\ UNCHANGED <<unscripted, generator, files, rows, inits, script, history>>

Answer ==
    /\ initialize = "waiting" /\ script = "none" /\ initialize' = "none"
    /\ UNCHANGED <<unscripted, generator, files, rows, inits, script, history>>

(* UPDATE id_generator SET id = ... WHERE stub = 'a' *)
Update ==
    /\ script = "update" /\ script' = "alter" /\ stub' = Origin
    /\ UNCHANGED <<unscripted, autoIncrement, files, rows, initialize, inits, history>>

(* ALTER TABLE id_generator AUTO_INCREMENT = ...: not below what the table has. *)
Alter ==
    /\ script = "alter" /\ script' = "remove"
    /\ autoIncrement' = IF stub < Origin THEN Origin ELSE stub + 1
    /\ UNCHANGED <<unscripted, stub, files, rows, initialize, inits, clean, promised, mixed>>

(* rm -f ../tenant_db/<id>.db, for all *)
Remove ==
    /\ script = "remove" /\ script' = "copy"
    /\ files' = FALSE /\ rows' = NoRows
    /\ file' = [r \in Request |-> IF file[r] = "open" THEN "unlinked" ELSE file[r]]
    /\ UNCHANGED <<data, pc, i, id, generator, initialize, inits, history>>

(* cp -r ../../initial_data/<id>.db ../tenant_db/ *)
Copy ==
    /\ script = "copy" /\ script' = "none"
    /\ files' = TRUE /\ rows' = generated /\ mixed' = FALSE
    /\ UNCHANGED <<unscripted, generator, initialize, inits, clean, promised>>

ScriptFails ==
    /\ script # "none" /\ script' = "none" /\ mixed' = TRUE
    /\ UNCHANGED <<unscripted, generator, files, rows, initialize, inits, clean, promised>>

-----------------------------------------------------------------------------
Dispense(r) == Replace(r) \/ Deadlock(r) \/ ReplaceFails(r)
Inserts(r) == Insert(r) \/ InsertUnlinked(r) \/ InsertFails(r)

Next ==
    \/ (\E s \in Created : GenID(s) \/ GenStops(s)) \/ Store
    \/ \E r \in Request : Receive(r) \/ Dispense(r) \/ Inserts(r)
    \/ Initialize \/ Answer
    \/ Update \/ Alter \/ Remove \/ Copy \/ ScriptFails

Spec == Init /\ [][Next]_vars

(* Statements are answered or fail. *)
FairSpec ==
    Spec /\ \A r \in Request : WF_pc(Inserts(r)) /\ WF_<<pc, i>>(Dispense(r))
-----------------------------------------------------------------------------
(* Properties *)

TypeOK ==
    /\ phase \in {"generate", "stopped", "serve"}
    /\ idMap \in [Created -> -1..(IdsPerSecond - 1)] /\ generatedMaxID \in Id
    /\ generated \in Bag /\ rows \in Bag
    /\ stub \in Id /\ autoIncrement \in Id \ {NoId}
    /\ files \in BOOLEAN /\ mixed \in BOOLEAN /\ inits \in Nat
    /\ initialize \in {"none", "waiting"}
    /\ script \in {"none", "update", "alter", "remove", "copy"}
    /\ pc \in [Request -> {"idle", "dispense", "insert"}]
    /\ i \in [Request -> 0..(MaxTries - 1)] /\ id \in [Request -> Id]
    /\ file \in [Request -> {"closed", "open", "unlinked"}]
    /\ clean \in [Request -> BOOLEAN] /\ promised \subseteq Id
    /\ \A r \in Request : pc[r] = "insert" => id[r] # NoId

(* genID gives no id twice, and none that the web application's begin with:    *)
(* the panic at the end of the range does not happen.                          *)
GeneratedOnce ==
    /\ \A g \in Id : generated[g] <= 1
    /\ generatedMaxID < MaxID /\ \A g \in Generated : g <= generatedMaxID

(* Until the first /initialize the rows of all tenants have ids of their own;  *)
(* after it, unless a handler or a failure has mixed the rows of before with   *)
(* those of after, an id is in two rows only if the initial data has it and it *)
(* lies above what init.sql sets the generator to.                             *)
RepeatsOnlyGenerated ==
    ~mixed => \A n \in Id :
        rows[n] <= IF inits > 0 /\ n > Origin THEN 1 + generated[n] ELSE 1

(* A row that was answered 200 is there, if no /initialize overlapped the      *)
(* request or was called since.                                                *)
CleanRowsKept == \A n \in promised : rows[n] > 0

(* dispenseID gives up: every handler comes to an end. *)
HandlersEnd == \A r \in Request : []<>(pc[r] = "idle")

-----------------------------------------------------------------------------
(* dispenseID "generates ids that are unique in the whole system"              *)
(* (isuports.go:100), the first id after /initialize being above those of the  *)
(* initial data (data/data.go:41).                                             *)
UniqueInSystem == ~mixed => \A n \in Id : rows[n] <= 1
============================================================================
