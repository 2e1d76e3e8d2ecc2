------------------------ MODULE Identifiers_proofs ------------------------
(* Theorems about Identifiers, for any number of handlers, seconds and ids   *)
(* per second, any origin in the generator's range, and whatever fails.      *)
EXTENDS Identifiers, TLAPS

-----------------------------------------------------------------------------
(* Ids by second.  K stands for IdsPerSecond. *)

LEMMA ProductIsNat == ASSUME NEW a \in Nat, NEW b \in Nat PROVE a * b \in Nat
  OBVIOUS

(* The ids of a second lie before those of the next. *)
LEMMA SecondsInOrder ==
  ASSUME NEW K \in Nat \ {0}, NEW s \in Nat, NEW t \in Nat, s < t, NEW n \in 0..(K - 1)
  PROVE  s * K + n < t * K
  <1>1. PICK d \in Nat : t = s + 1 + d
    <2>1. t - s - 1 \in Nat /\ t = s + 1 + (t - s - 1)
      OBVIOUS
    <2> QED
      BY <2>1
  <1>2. t * K = s * K + K + d * K
    BY <1>1
  <1>3. d * K \in Nat /\ s * K \in Nat
    BY <1>1, ProductIsNat
  <1> QED
    BY <1>2, <1>3

(* A second and a place in it are those of one id only. *)
LEMMA PlaceOfAnId ==
  ASSUME NEW K \in Nat \ {0}, NEW s \in Nat, NEW t \in Nat,
         NEW n \in 0..(K - 1), NEW m \in 0..(K - 1), s * K + n = t * K + m
  PROVE  s = t /\ n = m
  <1>1. s * K \in Nat /\ t * K \in Nat
    BY ProductIsNat
  <1>2. ~(s < t)
    BY <1>1, SecondsInOrder
  <1>3. ~(t < s)
    BY <1>1, SecondsInOrder
  <1>4. s = t
    BY <1>2, <1>3
  <1> QED
    BY <1>1, <1>4

LEMMA MaxIDIsNat == MaxID \in Nat \ {0} /\ Origin \in Nat \ {0} /\ Origin <= MaxID
  <1>1. Seconds * IdsPerSecond \in Nat
    BY IdentifiersAssumption, ProductIsNat
  <1>2. 0 * IdsPerSecond + 0 < Seconds * IdsPerSecond
    BY IdentifiersAssumption, SecondsInOrder
  <1>3. 0 * IdsPerSecond + 0 = 0
    BY IdentifiersAssumption
  <1> QED
    BY <1>1, <1>2, <1>3, OriginAssumption DEF MaxID

LEMMA IdRange == /\ \A n \in Int : n \in Id <=> 0 <= n /\ n <= MaxID + MaxDispensed + 1
                 /\ Id \subseteq Nat /\ MaxDispensed \in Nat
  BY MaxIDIsNat, IdentifiersAssumption DEF Id

(* An id of the initial data is below those of the web application. *)
LEMMA PlaceIsId ==
  ASSUME NEW s \in Created, NEW n \in 0..(IdsPerSecond - 1)
  PROVE  s * IdsPerSecond + n \in Id /\ s * IdsPerSecond + n < MaxID
  <1>1. s \in Nat /\ s < Seconds
    BY IdentifiersAssumption
  <1>2. s * IdsPerSecond + n < Seconds * IdsPerSecond
    BY <1>1, IdentifiersAssumption, SecondsInOrder
  <1>3. s * IdsPerSecond \in Nat
    BY <1>1, IdentifiersAssumption, ProductIsNat
  <1> QED
    BY <1>2, <1>3, MaxIDIsNat, IdRange DEF MaxID
-----------------------------------------------------------------------------
(* The inductive invariant *)

(* An id that was generated is a place of a second up to the last one given.   *)
Places ==
    \A g \in Generated : \E s \in Created, n \in 0..(IdsPerSecond - 1) :
        g = s * IdsPerSecond + n /\ n <= idMap[s]

(* Nothing is served before the initial data is there. *)
Quiet ==
    /\ rows = NoRows /\ promised = {} /\ ~mixed /\ inits = 0
    /\ initialize = "none" /\ script = "none"
    /\ \A r \in Request : pc[r] = "idle" /\ file[r] = "closed"

Phases == phase # "serve" => Quiet

StubOK == stub <= MaxID + MaxDispensed

(* The generator never goes below what init.sql sets it to. *)
AboveOrigin ==
    phase = "serve" => Origin < autoIncrement /\ (script = "alter" => Origin <= stub)

(* An /initialize that is running leaves no handler clean. *)
Overlaps ==
    /\ script # "none" => initialize = "waiting"
    /\ initialize = "waiting" => promised = {} /\ inits > 0
    /\ initialize = "waiting" => \A r \in Request : pc[r] # "idle" => ~clean[r]
    /\ \A r \in Request : pc[r] = "idle" => file[r] = "closed"
    /\ \A r \in Request : file[r] = "unlinked" => ~clean[r]

Inserter(r) == pc[r] = "insert" /\ clean[r]

(* The ids that clean handlers are about to insert. *)
Dispensed ==
    /\ \A r \in Request : Inserter(r) => id[r] < autoIncrement
    /\ \A r, s \in Request : Inserter(r) /\ Inserter(s) /\ id[r] = id[s] => r = s

(* How many rows may have an id that no handler has inserted. *)
Before(n) == IF inits > 0 /\ n > Origin THEN generated[n] ELSE 0

Fresh ==
    ~mixed =>
        /\ script # "remove" => \A n \in Id : n >= autoIncrement => rows[n] <= Before(n)
        /\ \A r \in Request : Inserter(r) => rows[id[r]] <= Before(id[r])

IInv == /\ TypeOK /\ StubOK /\ Phases /\ Places /\ GeneratedOnce
        /\ AboveOrigin /\ Overlaps /\ Dispensed /\ Fresh
        /\ RepeatsOnlyGenerated /\ CleanRowsKept

-----------------------------------------------------------------------------
(* Type correctness *)

LEMMA AddType ==
  ASSUME NEW bag \in Bag, NEW n \in Id
  PROVE  /\ Add(bag, n) \in Bag
         /\ \A k \in Id : Add(bag, n)[k] = IF k = n THEN bag[k] + 1 ELSE bag[k]
  BY DEF Add, Bag

LEMMA DispensableType ==
  ASSUME NEW n \in Dispensable
  PROVE  n \in Id /\ n + 1 \in Id \ {NoId} /\ n <= MaxID + MaxDispensed
  BY MaxIDIsNat, IdRange DEF Dispensable, NoId

LEMMA NewIdType ==
  ASSUME TypeOK, NEW s \in Created, NEW newID \in NewIds(s)
  PROVE  \E m \in 0..(IdsPerSecond - 1) :
            /\ newID = s * IdsPerSecond + m /\ newID - s * IdsPerSecond = m
            /\ idMap[s] < m
  <1>1. s * IdsPerSecond \in Nat /\ IdsPerSecond \in Nat
    BY IdentifiersAssumption, ProductIsNat
  <1>2. idMap[s] \in -1..(IdsPerSecond - 1)
    BY DEF TypeOK
  <1>3. CASE idMap[s] = -1
    <2>1. PICK m \in 0..(FirstIds - 1) : newID = s * IdsPerSecond + m
      BY <1>3 DEF NewIds
    <2> QED
      BY <1>1, <1>3, <2>1, IdentifiersAssumption
  <1>4. CASE idMap[s] # -1
    <2>1. idMap[s] < IdsPerSecond - 1 /\ newID = s * IdsPerSecond + idMap[s] + 1
      BY <1>4 DEF NewIds
    <2>2. idMap[s] + 1 \in 0..(IdsPerSecond - 1)
      BY <1>1, <1>2, <1>4, <2>1
    <2> QED
      BY <1>1, <1>2, <2>1, <2>2
  <1> QED
    BY <1>3, <1>4

(* Of the locals of a handler that is done. *)
LEMMA ReturnType ==
  ASSUME TypeOK, NEW r \in Request, Return(r)
  PROVE  /\ pc' \in [Request -> {"idle", "dispense", "insert"}]
         /\ i' \in [Request -> 0..(MaxTries - 1)] /\ id' \in [Request -> Id]
         /\ file' \in [Request -> {"closed", "open", "unlinked"}]
         /\ clean' \in [Request -> BOOLEAN]
         /\ \A s \in Request : pc'[s] = "insert" => id'[s] # NoId
  <1>1. NoId \in Id /\ 0 \in 0..(MaxTries - 1)
    BY MaxIDIsNat, IdRange, IdentifiersAssumption DEF NoId
  <1> QED
    BY <1>1 DEF Return, Goto, TypeOK

LEMMA InitTypeOK == Init => TypeOK /\ StubOK
  <1> SUFFICES ASSUME Init PROVE TypeOK /\ StubOK
    OBVIOUS
  <1>1. NoRows \in Bag /\ NoId \in Id /\ 1 \in Id \ {NoId}
    BY MaxIDIsNat, IdRange DEF NoRows, Bag, NoId
  <1>2. -1 \in -1..(IdsPerSecond - 1) /\ 0 \in 0..(MaxTries - 1)
    BY IdentifiersAssumption
  <1>3. TypeOK
    BY <1>1, <1>2 DEF Init, TypeOK, NoId
  <1>4. StubOK
    BY MaxIDIsNat, IdRange DEF Init, StubOK, NoId
  <1> QED
    BY <1>3, <1>4

LEMMA StepTypeOK ==
  ASSUME TypeOK, StubOK, [Next]_vars
  PROVE  TypeOK' /\ StubOK'
  <1> USE DEF data, handlers, generator, history, initialization, serverless, elsewhere, unscripted
  <1> NoId \in Id
    BY MaxIDIsNat, IdRange DEF NoId
  <1>1. ASSUME NEW s \in Created, GenID(s) PROVE TypeOK' /\ StubOK'
    <2>1. PICK newID \in NewIds(s) :
            /\ idMap' = [idMap EXCEPT ![s] = newID - s * IdsPerSecond]
            /\ generatedMaxID' = Highest(newID) /\ generated' = Add(generated, newID)
      BY <1>1 DEF GenID
    <2>2. newID \in Id /\ newID - s * IdsPerSecond \in 0..(IdsPerSecond - 1)
      BY NewIdType, PlaceIsId
    <2>3. Highest(newID) \in Id
      BY <2>2 DEF Highest, TypeOK
    <2>4. phase' \in {"generate", "stopped", "serve"}
      BY <1>1 DEF GenID, TypeOK
    <2>5. idMap' \in [Created -> -1..(IdsPerSecond - 1)]
      BY <2>1, <2>2, IdentifiersAssumption DEF TypeOK
    <2>6. generated' \in Bag
      BY <2>1, <2>2, AddType DEF TypeOK
    <2> QED
      BY <1>1, <2>1, <2>3, <2>4, <2>5, <2>6 DEF GenID, TypeOK, StubOK
  <1>2. ASSUME NEW s \in Created, GenStops(s) PROVE TypeOK' /\ StubOK'
    BY <1>2 DEF GenStops, TypeOK, StubOK
  <1>3. CASE Store
    <2>1. MaxID \in Id /\ MaxID + 1 \in Id \ {NoId} /\ MaxID <= MaxID + MaxDispensed
      BY MaxIDIsNat, IdRange DEF NoId
    <2> QED
      BY <1>3, <2>1 DEF Store, TypeOK, StubOK
  <1>4. ASSUME NEW r \in Request, Receive(r) PROVE TypeOK' /\ StubOK'
    BY <1>4, IdentifiersAssumption DEF Receive, Goto, TypeOK, StubOK
  <1>5. ASSUME NEW r \in Request, Replace(r) PROVE TypeOK' /\ StubOK'
    BY <1>5, DispensableType DEF Replace, Goto, TypeOK, StubOK
  <1>6. ASSUME NEW r \in Request, Deadlock(r) PROVE TypeOK' /\ StubOK'
    <2>1. i[r] \in 0..(MaxTries - 1) /\ MaxTries \in Nat
      BY IdentifiersAssumption DEF TypeOK
    <2>2. CASE i[r] + 1 < MaxTries
      BY <1>6, <2>1, <2>2 DEF Deadlock, TypeOK, StubOK
    <2>3. CASE ~(i[r] + 1 < MaxTries)
      <3>1. Return(r) /\ UNCHANGED <<elsewhere, generator, files, rows, promised, mixed>>
        BY <1>6, <2>3 DEF Deadlock
      <3> QED
        BY <3>1, ReturnType DEF TypeOK, StubOK
    <2> QED
      BY <2>2, <2>3
  <1>7. ASSUME NEW r \in Request, ReplaceFails(r) PROVE TypeOK' /\ StubOK'
    BY <1>7, DispensableType, ReturnType DEF ReplaceFails, TypeOK, StubOK
  <1>8. ASSUME NEW r \in Request, Inserts(r) PROVE TypeOK' /\ StubOK'
    <2>1. id[r] \in Id /\ rows \in Bag
      BY DEF TypeOK
    <2>2. rows' \in Bag
      <3>1. CASE Insert(r)
        BY <2>1, <3>1, AddType DEF Insert
      <3>2. CASE InsertUnlinked(r) \/ InsertFails(r)
        BY <2>1, <3>2 DEF InsertUnlinked, InsertFails
      <3> QED
        BY <1>8, <3>1, <3>2 DEF Inserts
    <2>3. mixed' \in BOOLEAN /\ promised' \subseteq Id
      BY <1>8 DEF Inserts, Insert, InsertUnlinked, InsertFails, TypeOK
    <2>4. Return(r) /\ UNCHANGED <<elsewhere, generator, files>>
      BY <1>8 DEF Inserts, Insert, InsertUnlinked, InsertFails
    <2> QED
      BY <1>8, <2>2, <2>3, <2>4, ReturnType DEF TypeOK, StubOK
  <1>9. CASE Initialize
    BY <1>9 DEF Initialize, TypeOK, StubOK
  <1>10. CASE Answer
    BY <1>10 DEF Answer, TypeOK, StubOK
  <1>11. CASE Update
    BY <1>11, MaxIDIsNat, IdRange DEF Update, TypeOK, StubOK
  <1>12. CASE Alter
    BY <1>12, MaxIDIsNat, IdRange DEF Alter, TypeOK, StubOK, NoId
  <1>13. CASE Remove
    <2>1. NoRows \in Bag
      BY DEF NoRows, Bag
    <2> QED
      BY <1>13, <2>1 DEF Remove, TypeOK, StubOK
  <1>14. CASE Copy
    BY <1>14 DEF Copy, TypeOK, StubOK
  <1>15. CASE ScriptFails
    BY <1>15 DEF ScriptFails, TypeOK, StubOK
  <1>16. CASE UNCHANGED vars
    BY <1>16 DEF vars, TypeOK, StubOK
  <1> QED
    BY <1>1, <1>2, <1>3, <1>4, <1>5, <1>6, <1>7, <1>8, <1>9, <1>10, <1>11, <1>12, <1>13,
       <1>14, <1>15, <1>16 DEF Next, Dispense

-----------------------------------------------------------------------------
(* The ids of the initial data *)

LEMMA StepGeneratedOnce ==
  ASSUME TypeOK, TypeOK', Places, GeneratedOnce, [Next]_vars
  PROVE  Places' /\ GeneratedOnce'
  <1> USE DEF data, handlers, generator, history, initialization, serverless, elsewhere, unscripted
  <1>1. ASSUME NEW s \in Created, GenID(s) PROVE Places' /\ GeneratedOnce'
    <2>1. PICK newID \in NewIds(s) :
            /\ idMap' = [idMap EXCEPT ![s] = newID - s * IdsPerSecond]
            /\ generatedMaxID' = Highest(newID) /\ generated' = Add(generated, newID)
      BY <1>1 DEF GenID
    <2>2. PICK m \in 0..(IdsPerSecond - 1) :
            newID = s * IdsPerSecond + m /\ newID - s * IdsPerSecond = m /\ idMap[s] < m
      BY NewIdType
    <2>3. newID \in Id /\ newID < MaxID /\ Id \subseteq Nat /\ MaxID \in Nat
      BY <2>2, PlaceIsId, IdRange, MaxIDIsNat
    <2>4. idMap'[s] = m /\ \A t \in Created : t # s => idMap'[t] = idMap[t]
      BY <2>1, <2>2 DEF TypeOK
    <2>5. generated[newID] = 0
      <3>1. SUFFICES ASSUME newID \in Generated PROVE FALSE
        BY <2>3 DEF Generated, TypeOK, Bag
      <3>2. PICK t \in Created, n \in 0..(IdsPerSecond - 1) :
              newID = t * IdsPerSecond + n /\ n <= idMap[t]
        BY <3>1 DEF Places
      <3>3. s \in Nat /\ t \in Nat /\ IdsPerSecond \in Nat \ {0}
        BY IdentifiersAssumption
      <3>4. s = t /\ m = n
        BY <2>2, <3>2, <3>3, PlaceOfAnId
      <3>5. idMap[s] \in -1..(IdsPerSecond - 1)
        BY DEF TypeOK
      <3> QED
        BY <2>2, <3>2, <3>3, <3>4, <3>5
    <2>6. \A g \in Id : generated'[g] = IF g = newID THEN 1 ELSE generated[g]
      <3>1. generated \in Bag
        BY DEF TypeOK
      <3> QED
        BY <2>1, <2>3, <2>5, <3>1, AddType
    <2>7. Places'
      <3>1. SUFFICES ASSUME NEW g \in Generated'
                     PROVE  \E t \in Created, n \in 0..(IdsPerSecond - 1) :
                                g = t * IdsPerSecond + n /\ n <= idMap'[t]
        BY DEF Places
      <3>2. CASE g = newID
        BY <2>2, <2>4, <3>2
      <3>3. CASE g # newID
        <4>1. g \in Generated
          BY <2>6, <3>1, <3>3 DEF Generated
        <4>2. PICK t \in Created, n \in 0..(IdsPerSecond - 1) :
                g = t * IdsPerSecond + n /\ n <= idMap[t]
          BY <4>1 DEF Places
        <4>3. idMap[t] <= idMap'[t]
          <5>1. idMap[t] \in Int
            BY IdentifiersAssumption DEF TypeOK
          <5> QED
            BY <2>2, <2>4, <5>1
        <4>4. idMap[t] \in Int /\ idMap'[t] \in Int /\ n \in Int
          BY IdentifiersAssumption DEF TypeOK
        <4>5. n <= idMap'[t]
          BY <4>2, <4>3, <4>4
        <4> QED
          BY <4>2, <4>5
      <3> QED
        BY <3>2, <3>3
    <2>8. generatedMaxID' < MaxID /\ generatedMaxID <= generatedMaxID' /\ newID <= generatedMaxID'
      BY <2>1, <2>3 DEF Highest, GeneratedOnce, TypeOK
    <2>9. \A g \in Generated' : g <= generatedMaxID'
      <3>1. SUFFICES ASSUME NEW g \in Generated' PROVE g <= generatedMaxID'
        OBVIOUS
      <3>2. CASE g = newID
        BY <2>8, <3>2
      <3>3. CASE g # newID
        <4>1. g \in Id /\ g \in Generated
          BY <2>6, <3>1, <3>3 DEF Generated
        <4> QED
          BY <2>3, <2>8, <4>1 DEF GeneratedOnce, TypeOK
      <3> QED
        BY <3>2, <3>3
    <2>10. \A g \in Id : generated'[g] <= 1
      BY <2>6 DEF GeneratedOnce
    <2> QED
      BY <2>7, <2>8, <2>9, <2>10 DEF GeneratedOnce
  <1>2. CASE UNCHANGED <<idMap, generatedMaxID, generated>>
    BY <1>2 DEF Places, GeneratedOnce, Generated
  <1>3. ASSUME ~(\E s \in Created : GenID(s)), Next
        PROVE  UNCHANGED <<idMap, generatedMaxID, generated>>
    BY <1>3 DEF Next, GenStops, Store, Receive, Dispense, Replace, Deadlock, ReplaceFails,
       Inserts, Insert, InsertUnlinked, InsertFails,
       Initialize, Answer, Update, Alter, Remove, Copy, ScriptFails
  <1>4. CASE UNCHANGED vars
    BY <1>2, <1>4 DEF vars
  <1> QED
    BY <1>1, <1>2, <1>3, <1>4

-----------------------------------------------------------------------------
(* Handlers and /initialize *)

LEMMA InitRest == Init => Places /\ GeneratedOnce /\ Phases /\ AboveOrigin /\ Overlaps
  <1> SUFFICES ASSUME Init PROVE Places /\ GeneratedOnce /\ Phases /\ AboveOrigin /\ Overlaps
    OBVIOUS
  <1>1. Generated = {} /\ \A g \in Id : generated[g] = 0
    BY DEF Init, Generated, NoRows
  <1>2. Places /\ GeneratedOnce
    BY <1>1, MaxIDIsNat DEF Init, Places, GeneratedOnce
  <1>3. Phases /\ AboveOrigin /\ Overlaps
    BY DEF Init, Phases, Quiet, AboveOrigin, Overlaps
  <1> QED
    BY <1>2, <1>3

LEMMA StepPhases ==
  ASSUME TypeOK, Phases, Overlaps, [Next]_vars
  PROVE  Phases'
  <1> USE DEF data, handlers, generator, history, initialization, serverless, elsewhere, unscripted
  <1>1. ASSUME NEW s \in Created, GenID(s) \/ GenStops(s) PROVE Phases'
    <2>1. phase # "serve" /\ UNCHANGED serverless
      BY <1>1 DEF GenID, GenStops
    <2>2. Quiet
      BY <2>1 DEF Phases
    <2> QED
      BY <2>1, <2>2 DEF Phases, Quiet
  <1>2. CASE Store
    BY <1>2 DEF Store, Phases
  <1>3. ASSUME NEW r \in Request, Receive(r) \/ Dispense(r) \/ Inserts(r) PROVE Phases'
    <2>1. phase' = phase
      BY <1>3 DEF Receive, Dispense, Replace, Deadlock, ReplaceFails, Inserts, Insert,
         InsertUnlinked, InsertFails
    <2>2. pc[r] # "idle" \/ phase = "serve"
      BY <1>3 DEF Receive, Dispense, Replace, Deadlock, ReplaceFails, Inserts, Insert,
         InsertUnlinked, InsertFails
    <2> QED
      BY <2>1, <2>2 DEF Phases, Quiet
  <1>4. CASE Initialize \/ Answer \/ Update \/ Alter \/ Remove \/ Copy \/ ScriptFails
    <2>1. phase' = phase
      BY <1>4 DEF Initialize, Answer, Update, Alter, Remove, Copy, ScriptFails
    <2>2. phase = "serve" \/ initialize = "waiting" \/ script # "none"
      BY <1>4 DEF Initialize, Answer, Update, Alter, Remove, Copy, ScriptFails
    <2> QED
      BY <2>1, <2>2 DEF Phases, Quiet, Overlaps
  <1>5. CASE UNCHANGED vars
    BY <1>5 DEF vars, Phases, Quiet
  <1> QED
    BY <1>1, <1>2, <1>3, <1>4, <1>5 DEF Next

LEMMA StepAboveOrigin ==
  ASSUME TypeOK, Phases, AboveOrigin, [Next]_vars
  PROVE  AboveOrigin'
  <1> USE DEF data, handlers, generator, history, initialization, serverless, elsewhere, unscripted
  <1>1. stub \in Int /\ autoIncrement \in Int /\ Origin \in Int /\ MaxID \in Int /\ Origin <= MaxID
    BY MaxIDIsNat, IdRange DEF TypeOK
  <1>2. ASSUME NEW s \in Created, GenID(s) \/ GenStops(s) PROVE AboveOrigin'
    BY <1>2 DEF GenID, GenStops, AboveOrigin
  <1>3. CASE Store
    BY <1>1, <1>3 DEF Store, AboveOrigin, Phases, Quiet
  <1>4. ASSUME NEW r \in Request, Dispense(r) PROVE AboveOrigin'
    <2>1. phase' = phase /\ script' = script
      BY <1>4 DEF Dispense, Replace, Deadlock, ReplaceFails
    <2>2. UNCHANGED generator \/ (stub' = autoIncrement /\ autoIncrement' = autoIncrement + 1)
      BY <1>4 DEF Dispense, Replace, Deadlock, ReplaceFails
    <2> QED
      BY <1>1, <2>1, <2>2 DEF AboveOrigin
  <1>5. ASSUME NEW r \in Request, Receive(r) \/ Inserts(r) PROVE AboveOrigin'
    BY <1>5 DEF Receive, Inserts, Insert, InsertUnlinked, InsertFails, AboveOrigin
  <1>6. CASE Update
    BY <1>1, <1>6 DEF Update, AboveOrigin
  <1>7. CASE Alter
    BY <1>1, <1>7 DEF Alter, AboveOrigin
  <1>8. CASE Initialize \/ Answer \/ Remove \/ Copy \/ ScriptFails
    BY <1>8 DEF Initialize, Answer, Remove, Copy, ScriptFails, AboveOrigin
  <1>9. CASE UNCHANGED vars
    BY <1>9 DEF vars, AboveOrigin
  <1> QED
    BY <1>2, <1>3, <1>4, <1>5, <1>6, <1>7, <1>8, <1>9 DEF Next

LEMMA StepOverlaps ==
  ASSUME TypeOK, Overlaps, [Next]_vars
  PROVE  Overlaps'
  <1> USE DEF data, handlers, generator, history, initialization, serverless, elsewhere, unscripted
  <1>1. ASSUME NEW s \in Created, GenID(s) \/ GenStops(s) PROVE Overlaps'
    BY <1>1 DEF GenID, GenStops, Overlaps
  <1>2. CASE Store
    BY <1>2 DEF Store, Overlaps
  <1>3. ASSUME NEW r \in Request, Receive(r) PROVE Overlaps'
    BY <1>3 DEF Receive, Goto, Overlaps, TypeOK
  <1>4. ASSUME NEW r \in Request, Return(r), UNCHANGED initialization,
               promised' = promised \/ clean[r], pc[r] # "idle"
        PROVE  Overlaps'
    BY <1>4 DEF Return, Goto, Overlaps, TypeOK
  <1>5. ASSUME NEW r \in Request, Dispense(r) PROVE Overlaps'
    <2>1. CASE Replace(r)
      BY <2>1 DEF Replace, Goto, Overlaps, TypeOK
    <2>2. CASE Deadlock(r)
      <3>1. CASE Return(r)
        BY <1>4, <2>2, <3>1 DEF Deadlock
      <3>2. CASE UNCHANGED <<pc, id, file, clean>>
        BY <2>2, <3>2 DEF Deadlock, Overlaps
      <3> QED
        BY <2>2, <3>1, <3>2 DEF Deadlock
    <2>3. CASE ReplaceFails(r)
      BY <1>4, <2>3 DEF ReplaceFails
    <2> QED
      BY <1>5, <2>1, <2>2, <2>3 DEF Dispense
  <1>6. ASSUME NEW r \in Request, Inserts(r) PROVE Overlaps'
    BY <1>4, <1>6 DEF Inserts, Insert, InsertUnlinked, InsertFails
  <1>7. CASE Initialize
    <2>1. inits' > 0
      BY <1>7 DEF Initialize, TypeOK
    <2> QED
      BY <1>7, <2>1 DEF Initialize, Overlaps, TypeOK
  <1>8. CASE Answer \/ Update \/ Alter \/ Copy \/ ScriptFails
    BY <1>8 DEF Answer, Update, Alter, Copy, ScriptFails, Overlaps
  <1>9. CASE Remove
    BY <1>9 DEF Remove, Overlaps, TypeOK
  <1>10. CASE UNCHANGED vars
    BY <1>10 DEF vars, Overlaps
  <1> QED
    BY <1>1, <1>2, <1>3, <1>5, <1>6, <1>7, <1>8, <1>9, <1>10 DEF Next

-----------------------------------------------------------------------------
(* Rows *)

(* A handler that returns leaves the other inserters as they are. *)
LEMMA ReturnInserters ==
  ASSUME TypeOK, NEW r \in Request, Return(r)
  PROVE  \A s \in Request : Inserter(s)' => s # r /\ Inserter(s) /\ id'[s] = id[s]
  BY DEF Return, Goto, Inserter, TypeOK

(* What a step does to those who are about to insert. *)
LEMMA InserterSteps ==
  ASSUME TypeOK, Phases, Overlaps, [Next]_vars
  PROVE  \A s \in Request : Inserter(s)' =>
            \/ Inserter(s) /\ id'[s] = id[s]
            \/ Replace(s) /\ initialize = "none" /\ script = "none"
  <1> USE DEF data, handlers, generator, history, initialization, serverless, elsewhere, unscripted
  <1> SUFFICES ASSUME NEW s \in Request, Inserter(s)'
               PROVE  \/ Inserter(s) /\ id'[s] = id[s]
                      \/ Replace(s) /\ initialize = "none" /\ script = "none"
    OBVIOUS
  <1>1. CASE \E r \in Request : Return(r)
    BY <1>1, ReturnInserters
  <1>2. ASSUME NEW r \in Request, Receive(r) PROVE Inserter(s) /\ id'[s] = id[s]
    BY <1>2 DEF Receive, Goto, Inserter, TypeOK
  <1>3. ASSUME NEW r \in Request, Replace(r)
        PROVE  \/ Inserter(s) /\ id'[s] = id[s]
               \/ Replace(s) /\ initialize = "none" /\ script = "none"
    <2>1. CASE s # r
      BY <1>3, <2>1 DEF Replace, Goto, Inserter, TypeOK
    <2>2. CASE s = r
      <3>1. clean[s] /\ pc[s] # "idle"
        BY <1>3, <2>2 DEF Replace, Inserter
      <3>2. initialize = "none" /\ script = "none"
        BY <3>1 DEF Overlaps, TypeOK
      <3> QED
        BY <1>3, <2>2, <3>2
    <2> QED
      BY <2>1, <2>2
  <1>4. ASSUME NEW r \in Request, Deadlock(r), ~Return(r) PROVE Inserter(s) /\ id'[s] = id[s]
    BY <1>4 DEF Deadlock, Inserter
  <1>5. CASE Initialize
    BY <1>5 DEF Initialize, Inserter, TypeOK
  <1>6. CASE \/ \E t \in Created : GenID(t) \/ GenStops(t)
             \/ Store \/ Answer \/ Update \/ Alter \/ Remove \/ Copy \/ ScriptFails
             \/ UNCHANGED vars
    BY <1>6 DEF GenID, GenStops, Store, Answer, Update, Alter, Remove, Copy, ScriptFails,
       vars, Inserter
  <1> QED
    BY <1>1, <1>2, <1>3, <1>4, <1>5, <1>6
    DEF Next, Dispense, Inserts, ReplaceFails, Insert, InsertUnlinked, InsertFails

(* While handlers are clean the generator only goes up. *)
LEMMA GeneratorSteps ==
  ASSUME TypeOK, Phases, Overlaps, [Next]_vars, NEW s \in Request, Inserter(s)
  PROVE  autoIncrement <= autoIncrement'
  <1> USE DEF data, handlers, generator, history, initialization, serverless, elsewhere, unscripted
  <1>1. autoIncrement \in Int
    BY IdRange DEF TypeOK
  <1>2. ~Store /\ ~Alter
    BY DEF Store, Alter, Phases, Quiet, Overlaps, Inserter
  <1>3. autoIncrement' = autoIncrement \/ autoIncrement' = autoIncrement + 1
    BY <1>2 DEF Next, GenID, GenStops, Receive, Dispense, Replace, Deadlock, ReplaceFails,
       Inserts, Insert, InsertUnlinked, InsertFails, Initialize, Answer, Update, Remove, Copy,
       ScriptFails, vars
  <1> QED
    BY <1>1, <1>3

LEMMA StepDispensed ==
  ASSUME TypeOK, TypeOK', Phases, Overlaps, Dispensed, [Next]_vars
  PROVE  Dispensed'
  <1>1. ASSUME NEW s \in Request, Inserter(s)'
        PROVE  id'[s] < autoIncrement'
    <2>1. CASE Inserter(s) /\ id'[s] = id[s]
      <3>1. id[s] < autoIncrement /\ autoIncrement <= autoIncrement'
        BY <2>1, GeneratorSteps DEF Dispensed
      <3>2. id[s] \in Id /\ autoIncrement \in Id /\ autoIncrement' \in Id
        BY DEF TypeOK
      <3>3. id[s] \in Nat /\ autoIncrement \in Nat /\ autoIncrement' \in Nat
        BY <3>2, IdRange
      <3> QED
        BY <2>1, <3>1, <3>3
    <2>2. CASE Replace(s)
      <3>1. id'[s] = autoIncrement /\ autoIncrement' = autoIncrement + 1
        BY <2>2 DEF Replace, TypeOK
      <3> QED
        BY <3>1, IdRange DEF TypeOK
    <2> QED
      BY <1>1, <2>1, <2>2, InserterSteps
  <1>2. ASSUME NEW r \in Request, NEW s \in Request, Inserter(r)', Inserter(s)', id'[r] = id'[s]
        PROVE  r = s
    <2>1. CASE (Inserter(r) /\ id'[r] = id[r]) /\ (Inserter(s) /\ id'[s] = id[s])
      BY <1>2, <2>1 DEF Dispensed
    <2>2. ASSUME NEW p \in Request, NEW q \in Request, Replace(p), Inserter(q), id'[q] = id[q]
          PROVE  p = q \/ id'[p] # id'[q]
      <3>1. id'[p] = autoIncrement
        BY <2>2 DEF Replace, TypeOK
      <3>2. id[q] < autoIncrement
        BY <2>2 DEF Dispensed
      <3> QED
        BY <2>2, <3>1, <3>2, IdRange DEF TypeOK
    <2>3. CASE Replace(r) /\ Replace(s)
      <3>1. pc[r] = "dispense" /\ pc' = [pc EXCEPT ![s] = "insert"]
        BY <2>3 DEF Replace, Goto
      <3>2. pc'[r] = "insert"
        BY <2>3 DEF Replace, Goto, TypeOK
      <3> QED
        BY <3>1, <3>2 DEF TypeOK
    <2> QED
      BY <1>2, <2>1, <2>2, <2>3, InserterSteps
  <1> QED
    BY <1>1, <1>2 DEF Dispensed

(* What may lie in the rows only grows. *)
LEMMA BeforeGrows ==
  ASSUME TypeOK, TypeOK', Phases, [Next]_vars, phase = "serve", NEW n \in Id
  PROVE  Before(n) \in Nat /\ Before(n) <= Before(n)'
  <1> USE DEF data, handlers, generator, history, initialization, serverless, elsewhere, unscripted
  <1>1. generated' = generated
    BY DEF Next, GenID, GenStops, Store, Receive, Dispense, Replace, Deadlock, ReplaceFails,
       Inserts, Insert, InsertUnlinked, InsertFails, Initialize, Answer, Update, Alter, Remove,
       Copy, ScriptFails, vars
  <1>2. inits' = inits \/ inits' = inits + 1
    BY DEF Next, GenID, GenStops, Store, Receive, Dispense, Replace, Deadlock, ReplaceFails,
       Inserts, Insert, InsertUnlinked, InsertFails, Initialize, Answer, Update, Alter, Remove,
       Copy, ScriptFails, vars
  <1>3. generated[n] \in Nat /\ inits \in Nat
    BY DEF TypeOK, Bag
  <1> QED
    BY <1>1, <1>2, <1>3 DEF Before

(* A step that leaves the rows as they are, and the generator not below. *)
LEMMA RowsStay ==
  ASSUME TypeOK, TypeOK', Phases, Overlaps, Fresh, RepeatsOnlyGenerated, [Next]_vars,
         phase = "serve", rows' = rows, mixed' = mixed, autoIncrement <= autoIncrement',
         script' # "remove" => script # "remove"
  PROVE  Fresh' /\ RepeatsOnlyGenerated'
  <1> DEFINE After(n) == IF inits' > 0 /\ n > Origin THEN generated'[n] ELSE 0
  <1>1. \A n \in Id : Before(n) \in Nat /\ After(n) \in Nat /\ Before(n) <= After(n) /\ rows[n] \in Nat
    <2>1. \A n \in Id : Before(n) \in Nat /\ Before(n) <= After(n)
      BY BeforeGrows DEF Before
    <2>2. \A n \in Id : After(n) \in Nat /\ rows[n] \in Nat
      BY DEF TypeOK, Bag
    <2> QED
      BY <2>1, <2>2
  <1>2. autoIncrement \in Nat /\ autoIncrement' \in Nat /\ Id \subseteq Nat /\ autoIncrement \in Id
    BY IdRange DEF TypeOK
  <1>3. ASSUME ~mixed, script' # "remove", NEW n \in Id, n >= autoIncrement'
        PROVE  rows[n] <= After(n)
    <2>1. n >= autoIncrement
      BY <1>2, <1>3
    <2>2. rows[n] <= Before(n)
      BY <1>3, <2>1 DEF Fresh
    <2> QED
      BY <1>1, <1>3, <2>2
  <1>4. ASSUME ~mixed, NEW r \in Request, Inserter(r)'
        PROVE  rows[id'[r]] <= After(id'[r])
    <2>1. id'[r] \in Id /\ id[r] \in Id
      BY DEF TypeOK
    <2>2. CASE Inserter(r) /\ id'[r] = id[r]
      <3>1. rows[id[r]] <= Before(id[r])
        BY <1>4, <2>2 DEF Fresh
      <3> QED
        BY <1>1, <2>1, <2>2, <3>1
    <2>3. CASE Replace(r) /\ script = "none"
      <3>1. id'[r] = autoIncrement
        BY <2>3 DEF Replace, TypeOK
      <3>2. rows[autoIncrement] <= Before(autoIncrement)
        BY <1>2, <1>4, <2>3 DEF Fresh
      <3> QED
        BY <1>1, <1>2, <2>1, <3>1, <3>2
    <2> QED
      BY <1>4, <2>2, <2>3, InserterSteps
  <1>5. Fresh'
    BY <1>3, <1>4 DEF Fresh, Before
  <1>6. RepeatsOnlyGenerated'
    <2>1. SUFFICES ASSUME ~mixed, NEW n \in Id PROVE rows[n] <= 1 + After(n)
      BY DEF RepeatsOnlyGenerated, Before
    <2>2. rows[n] <= 1 + Before(n)
      BY <2>1 DEF RepeatsOnlyGenerated, Before
    <2> QED
      BY <1>1, <2>1, <2>2
  <1> QED
    BY <1>5, <1>6

LEMMA StepRows ==
  ASSUME TypeOK, TypeOK', Phases, Phases', GeneratedOnce, GeneratedOnce', AboveOrigin, Overlaps,
         Overlaps', Dispensed, Fresh, RepeatsOnlyGenerated, [Next]_vars
  PROVE  Fresh' /\ RepeatsOnlyGenerated'
  <1> USE DEF data, handlers, generator, history, initialization, serverless, elsewhere, unscripted
  <1>1. /\ \A n \in Id : n \in Nat /\ generated[n] \in Nat /\ generated[n] <= 1 /\ rows[n] \in Nat
        /\ autoIncrement \in Nat /\ generatedMaxID \in Nat /\ MaxID \in Nat
        /\ \A n \in Id : generatedMaxID < n => generated[n] = 0
    BY IdRange, MaxIDIsNat DEF TypeOK, Bag, GeneratedOnce, Generated
  <1>2. CASE phase' # "serve"
    <2>1. rows' = NoRows /\ inits' = 0 /\ ~mixed' /\ \A r \in Request : pc'[r] = "idle"
      BY <1>2 DEF Phases, Quiet
    <2>2. \A n \in Id : rows'[n] = 0 /\ n \in Nat
      BY <1>1, <2>1 DEF NoRows
    <2> QED
      BY <2>1, <2>2 DEF Fresh, RepeatsOnlyGenerated, Before, Inserter
  <1>3. CASE Store
    <2>1. /\ rows' = generated /\ inits' = 0 /\ autoIncrement' = MaxID + 1
          /\ \A r \in Request : pc'[r] = "idle"
      BY <1>3 DEF Store, Phases, Quiet
    <2>2. \A n \in Id : n >= autoIncrement' => generated[n] = 0
      BY <1>1, <2>1 DEF GeneratedOnce
    <2> QED
      BY <1>1, <2>1, <2>2 DEF Fresh, RepeatsOnlyGenerated, Before, Inserter
  <1>4. CASE Remove
    <2>1. rows' = NoRows /\ initialize' = "waiting" /\ \A n \in Id : generated'[n] \in Nat
      BY <1>4 DEF Remove, Overlaps, TypeOK, Bag
    <2>2. \A r \in Request : ~Inserter(r)'
      BY <2>1 DEF Overlaps, Inserter
    <2>3. \A n \in Id : rows'[n] = 0
      BY <2>1 DEF NoRows
    <2> QED
      BY <2>1, <2>2, <2>3 DEF Fresh, RepeatsOnlyGenerated, Before
  <1>5. CASE Copy
    <2>1. /\ rows' = generated /\ generated' = generated /\ autoIncrement' = autoIncrement
          /\ initialize' = "waiting" /\ phase = "serve"
      BY <1>5 DEF Copy, Overlaps, Phases, Quiet
    <2>2. inits' > 0 /\ Origin < autoIncrement /\ Origin \in Nat
      BY <2>1, MaxIDIsNat DEF Overlaps, AboveOrigin
    <2>3. \A r \in Request : ~Inserter(r)'
      BY <2>1 DEF Overlaps, Inserter
    <2>4. \A n \in Id : n >= autoIncrement => n > Origin
      BY <1>1, <2>2
    <2> QED
      BY <1>1, <2>1, <2>2, <2>3, <2>4 DEF Fresh, RepeatsOnlyGenerated, Before
  <1>6. CASE Alter
    <2>1. /\ rows' = rows /\ generated' = generated /\ inits' = inits /\ mixed' = mixed
          /\ initialize' = "waiting" /\ script' = "remove"
      BY <1>6 DEF Alter, Overlaps
    <2>2. \A r \in Request : ~Inserter(r)'
      BY <2>1 DEF Overlaps, Inserter
    <2> QED
      BY <2>1, <2>2 DEF Fresh, RepeatsOnlyGenerated, Before
  <1>7. ASSUME NEW r \in Request, Insert(r) PROVE Fresh' /\ RepeatsOnlyGenerated'
    <2>1. /\ rows' = Add(rows, id[r]) /\ generated' = generated /\ inits' = inits
          /\ autoIncrement' = autoIncrement /\ script' = script
      BY <1>7 DEF Insert
    <2>2. CASE mixed'
      BY <2>2 DEF Fresh, RepeatsOnlyGenerated
    <2>3. CASE ~mixed'
      <3>1. ~mixed /\ Inserter(r)
        BY <1>7, <2>3 DEF Insert, Inserter
      <3>2. id[r] \in Id /\ id[r] < autoIncrement /\ rows[id[r]] <= Before(id[r])
        BY <3>1 DEF Dispensed, Fresh, TypeOK
      <3>3. \A n \in Id : rows'[n] = IF n = id[r] THEN rows[n] + 1 ELSE rows[n]
        <4>1. rows \in Bag
          BY DEF TypeOK
        <4> QED
          BY <2>1, <3>2, <4>1, AddType
      <3>4. \A s \in Request : Inserter(s)' => Inserter(s) /\ id'[s] = id[s] /\ id[s] # id[r]
        <4>1. Return(r)
          BY <1>7 DEF Insert
        <4> QED
          BY <3>1, <4>1, ReturnInserters DEF Dispensed
      <3>5. \A n \in Id : Before(n) = IF inits' > 0 /\ n > Origin THEN generated'[n] ELSE 0
        BY <2>1 DEF Before
      <3>6. Fresh'
        <4>1. ASSUME script' # "remove", NEW n \in Id, n >= autoIncrement'
              PROVE  rows'[n] <= Before(n)
          <5>1. rows[n] <= Before(n)
            BY <2>1, <3>1, <4>1 DEF Fresh
          <5>2. n # id[r]
            BY <1>1, <2>1, <3>2, <4>1
          <5> QED
            BY <3>3, <5>1, <5>2
        <4>2. ASSUME NEW s \in Request, Inserter(s)' PROVE rows'[id'[s]] <= Before(id[s])
          <5>1. id[s] \in Id /\ rows[id[s]] <= Before(id[s])
            BY <3>1, <3>4, <4>2 DEF Fresh, TypeOK
          <5> QED
            BY <3>3, <3>4, <4>2, <5>1
        <4>3. \A s \in Request : Inserter(s)' => id'[s] = id[s] /\ id[s] \in Id
          BY <3>4 DEF TypeOK
        <4> QED
          BY <3>5, <4>1, <4>2, <4>3 DEF Fresh, Before
      <3>7. RepeatsOnlyGenerated'
        <4>1. ASSUME NEW n \in Id PROVE rows'[n] <= 1 + Before(n)
          <5>1. rows[n] <= 1 + Before(n)
            BY <3>1 DEF RepeatsOnlyGenerated, Before
          <5>2. Before(n) \in Nat /\ rows[n] \in Nat
            BY <1>1 DEF Before
          <5> QED
            BY <3>2, <3>3, <5>1, <5>2
        <4> QED
          BY <3>5, <4>1 DEF RepeatsOnlyGenerated, Before
      <3> QED
        BY <3>6, <3>7
    <2> QED
      BY <2>2, <2>3
  <1>8. CASE ScriptFails
    BY <1>8 DEF ScriptFails, Fresh, RepeatsOnlyGenerated
  <1>9. ASSUME phase' = "serve", ~Store, ~Remove, ~Copy, ~Alter, ~ScriptFails,
               ~(\E r \in Request : Insert(r))
        PROVE  Fresh' /\ RepeatsOnlyGenerated'
    <2>1. phase = "serve"
      BY <1>9 DEF Next, GenID, GenStops, Receive, Dispense, Replace, Deadlock, ReplaceFails,
         Inserts, InsertUnlinked, InsertFails, Initialize, Answer, Update, vars
    <2>2. rows' = rows /\ mixed' = mixed
      BY <1>9, <2>1 DEF Next, GenID, GenStops, Receive, Dispense, Replace, Deadlock, ReplaceFails,
         Inserts, InsertUnlinked, InsertFails, Initialize, Answer, Update, vars
    <2>3. autoIncrement' = autoIncrement \/ autoIncrement' = autoIncrement + 1
      BY <1>9, <2>1 DEF Next, GenID, GenStops, Receive, Dispense, Replace, Deadlock, ReplaceFails,
         Inserts, InsertUnlinked, InsertFails, Initialize, Answer, Update, vars
    <2>4. autoIncrement <= autoIncrement'
      BY <1>1, <2>3
    <2>5. script' # "remove" => script # "remove"
      BY <1>9, <2>1 DEF Next, GenID, GenStops, Receive, Dispense, Replace, Deadlock, ReplaceFails,
         Inserts, InsertUnlinked, InsertFails, Initialize, Answer, Update, vars, Overlaps
    <2> QED
      BY <2>1, <2>2, <2>4, <2>5, RowsStay
  <1>10. phase' \in {"generate", "stopped", "serve"}
    BY DEF TypeOK
  <1> QED
    BY <1>2, <1>3, <1>4, <1>5, <1>6, <1>7, <1>8, <1>9, <1>10

LEMMA StepCleanRows ==
  ASSUME TypeOK, TypeOK', Phases, Overlaps, Overlaps', CleanRowsKept, [Next]_vars
  PROVE  CleanRowsKept'
  <1> USE DEF data, handlers, generator, history, initialization, serverless, elsewhere, unscripted
  <1>1. promised \subseteq Id /\ \A n \in Id : rows[n] \in Nat
    BY DEF TypeOK, Bag
  <1>2. CASE promised' = {}
    BY <1>2 DEF CleanRowsKept
  <1>3. ASSUME NEW r \in Request, Insert(r) PROVE CleanRowsKept'
    <2>1. rows \in Bag /\ id[r] \in Id /\ rows' = Add(rows, id[r])
      BY <1>3 DEF Insert, TypeOK
    <2>2. \A n \in Id : rows'[n] = IF n = id[r] THEN rows[n] + 1 ELSE rows[n]
      BY <2>1, AddType
    <2>3. promised' \subseteq promised \cup {id[r]}
      BY <1>3 DEF Insert
    <2>4. \A n \in promised : n \in Id /\ rows[n] > 0
      BY <1>1 DEF CleanRowsKept
    <2>5. \A n \in promised \cup {id[r]} : rows'[n] > 0
      BY <1>1, <2>1, <2>2, <2>4
    <2> QED
      BY <2>3, <2>5 DEF CleanRowsKept
  <1>4. ASSUME NEW r \in Request, InsertUnlinked(r) PROVE CleanRowsKept'
    <2>1. ~clean[r]
      BY <1>4 DEF InsertUnlinked, Overlaps
    <2> QED
      BY <1>4, <2>1 DEF InsertUnlinked, CleanRowsKept
  <1>5. CASE UNCHANGED <<rows, promised>>
    BY <1>5 DEF CleanRowsKept
  <1>6. CASE Store \/ Remove \/ Copy \/ Initialize
    <2>1. promised' = {}
      BY <1>6 DEF Store, Remove, Copy, Initialize, Phases, Quiet, Overlaps
    <2> QED
      BY <1>2, <2>1
  <1>7. ASSUME Next, ~Store, ~Remove, ~Copy, ~Initialize,
               ~(\E r \in Request : Insert(r) \/ InsertUnlinked(r))
        PROVE  UNCHANGED <<rows, promised>>
    BY <1>7 DEF Next, GenID, GenStops, Receive, Dispense, Replace, Deadlock, ReplaceFails,
       Inserts, InsertFails, Answer, Update, Alter, ScriptFails
  <1> QED
    BY <1>3, <1>4, <1>5, <1>6, <1>7 DEF vars

-----------------------------------------------------------------------------
(* Theorems *)

LEMMA Inductive == Spec => []IInv
  <1>1. Init => IInv
    <2> SUFFICES ASSUME Init PROVE IInv
      OBVIOUS
    <2>1. \A n \in Id : rows[n] = 0 /\ n \in Nat
      BY IdRange DEF Init, NoRows
    <2>2. inits = 0 /\ promised = {} /\ \A r \in Request : pc[r] = "idle"
      BY DEF Init
    <2>3. Dispensed /\ Fresh /\ RepeatsOnlyGenerated /\ CleanRowsKept
      BY <2>1, <2>2 DEF Dispensed, Fresh, RepeatsOnlyGenerated, CleanRowsKept, Inserter, Before
    <2> QED
      BY <2>3, InitTypeOK, InitRest DEF IInv
  <1>2. IInv /\ [Next]_vars => IInv'
    <2> SUFFICES ASSUME IInv, [Next]_vars PROVE IInv'
      OBVIOUS
    <2> USE DEF IInv
    <2>1. TypeOK' /\ StubOK'
      BY StepTypeOK
    <2>2. Places' /\ GeneratedOnce'
      BY <2>1, StepGeneratedOnce
    <2>3. Phases' /\ AboveOrigin' /\ Overlaps'
      BY StepPhases, StepAboveOrigin, StepOverlaps
    <2>4. Dispensed'
      BY <2>1, StepDispensed
    <2>5. Fresh' /\ RepeatsOnlyGenerated'
      BY <2>1, <2>2, <2>3, StepRows
    <2>6. CleanRowsKept'
      BY <2>1, <2>3, StepCleanRows
    <2> QED
      BY <2>1, <2>2, <2>3, <2>4, <2>5, <2>6
  <1> QED
    BY <1>1, <1>2, PTL DEF Spec

(* The tables, the generator, the handlers and the script have their types:    *)
(* neither dispenseID nor init.sql leads out of the range of ids.              *)
THEOREM TypeCorrect == Spec => []TypeOK
  BY Inductive, PTL DEF IInv

(* genID (data/data.go) never gives the same id twice, nor one of the range of *)
(* the web application, whatever seconds the rows are created in.              *)
THEOREM GeneratesOnce == Spec => []GeneratedOnce
  BY Inductive, PTL DEF IInv

(* dispenseID's ids meet each other never and those of the initial data only   *)
(* after an /initialize, above the number init.sql sets the generator to.      *)
THEOREM RepeatsAreGenerated == Spec => []RepeatsOnlyGenerated
  BY Inductive, PTL DEF IInv

(* A row that was answered 200 stays until the next /initialize, unless one    *)
(* overlapped the request: a handler that was alone has not written to a file  *)
(* that is no longer there.                                                    *)
THEOREM CleanRowsStay == Spec => []CleanRowsKept
  BY Inductive, PTL DEF IInv
=============================================================================
