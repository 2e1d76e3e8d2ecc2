----------------------------- MODULE Checks_proofs -----------------------------
(* The checks of the validation and the workers of the load that check, for    *)
(* any constants and any order of their steps: a server that is as written     *)
(* fails none of them, but for the page of the tenants' bills that is read     *)
(* while a new tenant has no file yet.  The invariant: each check has found    *)
(* and left its own tenant as its script wants it, whatever the others do to   *)
(* theirs in between.                                                          *)
EXTENDS Validation_proofs

-----------------------------------------------------------------------------
(* The tenants of the checks are different ones *)

AtMost(S, n) == n \in Nat /\ IsFiniteSet(S) /\ Cardinality(S) <= n
LEMMA OneMore ==
  ASSUME NEW S, NEW x, NEW n, AtMost(S, n)
  PROVE  AtMost(S \cup {x}, n + 1)
  <1>0. n \in Nat /\ IsFiniteSet(S) /\ Cardinality(S) <= n
    BY DEF AtMost
  <1>1. Cardinality(S) \in Nat
    BY <1>0, FS_CardinalityType
  <1>2. IsFiniteSet(S \cup {x}) /\ (Cardinality(S \cup {x}) = Cardinality(S) \/ Cardinality(S \cup {x}) = Cardinality(S) + 1)
    BY <1>0, FS_AddElement
  <1> QED
    BY <1>0, <1>1, <1>2 DEF AtMost

LEMMA AtMostFour ==
  ASSUME NEW a, NEW b, NEW c, NEW d
  PROVE  Cardinality({a, b, c, d}) <= 4
  <1> DEFINE n == 0
             S == {}
  <1>1. AtMost(S, n)
    BY FS_EmptySet DEF AtMost
  <1> HIDE DEF n, S
  <1>2. AtMost(S \cup {a}, n + 1)
    BY <1>1, OneMore
  <1>3. AtMost(S \cup {a} \cup {b}, n + 1 + 1)
    BY <1>1, <1>2, OneMore
  <1>4. AtMost(S \cup {a} \cup {b} \cup {c}, n + 1 + 1 + 1)
    BY <1>1, <1>3, OneMore
  <1>5. AtMost(S \cup {a} \cup {b} \cup {c} \cup {d}, n + 1 + 1 + 1 + 1)
    BY <1>4, OneMore
  <1>6. {a, b, c, d} = S \cup {a} \cup {b} \cup {c} \cup {d} /\ n + 1 + 1 + 1 + 1 = 4
    BY DEF n, S
  <1> QED
    BY <1>5, <1>6 DEF AtMost

LEMMA TenantsDiffer ==
  /\ tAll # tRanking /\ tAll # tBad /\ tAll # tJwt /\ tRanking # tBad /\ tRanking # tJwt /\ tBad # tJwt
  /\ tNone \notin {tAll, tRanking, tBad, tJwt} /\ {tAll, tRanking, tBad, tJwt} \subseteq NewTenant
  <1>1. NewTenant = {tAll, tRanking, tBad, tJwt, tBill} /\ Cardinality(NewTenant) = 5 /\ tNone \notin NewTenant
    BY ChecksAssumption
  <1>2. \A a, b, c, d : NewTenant # {a, b, c, d}
    <2> SUFFICES ASSUME NEW a, NEW b, NEW c, NEW d, NewTenant = {a, b, c, d} PROVE FALSE
      OBVIOUS
    <2>1. Cardinality({a, b, c, d}) <= 4
      BY AtMostFour
    <2>2. Cardinality({a, b, c, d}) = 5
      BY <1>1
    <2> QED
      BY <2>1, <2>2
  <1>3. tAll # tRanking
    <2>1. NewTenant # {tAll, tBad, tJwt, tBill}
      BY <1>2
    <2> QED
      BY <1>1, <2>1
  <1>4. tAll # tBad
    <2>1. NewTenant # {tAll, tRanking, tJwt, tBill}
      BY <1>2
    <2> QED
      BY <1>1, <2>1
  <1>5. tAll # tJwt
    <2>1. NewTenant # {tAll, tRanking, tBad, tBill}
      BY <1>2
    <2> QED
      BY <1>1, <2>1
  <1>6. tRanking # tBad
    <2>1. NewTenant # {tAll, tRanking, tJwt, tBill}
      BY <1>2
    <2> QED
      BY <1>1, <2>1
  <1>7. tRanking # tJwt
    <2>1. NewTenant # {tAll, tRanking, tBad, tBill}
      BY <1>2
    <2> QED
      BY <1>1, <2>1
  <1>8. tBad # tJwt
    <2>1. NewTenant # {tAll, tRanking, tBad, tBill}
      BY <1>2
    <2> QED
      BY <1>1, <2>1
  <1> QED
    BY <1>1, <1>3, <1>4, <1>5, <1>6, <1>7, <1>8

Tenanted == PrepareCheck \ {"billing"}

LEMMA GroundsDiffer ==
  ASSUME NEW c \in PrepareCheck, NEW d \in Tenanted, c # d
  PROVE  Ground(d) # Ground(c) /\ Ground(d) \in NewTenant
  <1>1. d \in {"allAPI", "ranking", "badRequest", "invalidJWT"}
    BY DEF Tenanted, PrepareCheck
  <1>2. c \in {"allAPI", "ranking", "badRequest", "invalidJWT", "billing"}
    BY DEF PrepareCheck
  <1> QED
    BY <1>1, <1>2, GroundIs, TenantsDiffer

-----------------------------------------------------------------------------
(* What there is of the tenants of the checks *)

NoFile == [EmptyTenant EXCEPT !.file = FALSE]

(* A check's tenant is not there until the step that adds it, has a row and no *)
(* file in the midst of it, and what the check has made of it afterwards.      *)
Grounds(c) ==
    /\ c \in adding => /\ c \in Adders /\ at[c] = AddStep(c) /\ Ground(c) \in DOMAIN tenants
                       /\ tenants[Ground(c)] = NoFile
    /\ c \notin adding /\ at[c] <= AddStep(c) => Ground(c) \notin DOMAIN tenants
    /\ at[c] > AddStep(c) => /\ Ground(c) \in DOMAIN tenants /\ tenants[Ground(c)] \in TenantSet
                             /\ TableIs(c, tenants[Ground(c)], at[c], memory[c])

(* A step of one check. *)
OnlyAt(c, f, f1) == \E x : f1 = [f EXCEPT ![c] = x]
Touches(c) ==
    /\ OnlyAt(c, at, at') /\ OnlyAt(c, memory, memory')
    /\ adding' \subseteq adding \cup {c} /\ adding \subseteq adding' \cup {c}
    /\ TouchesOnly(Ground(c))

LEMMA OthersKeep ==
  ASSUME NEW c \in PrepareCheck, Touches(c), NEW d \in Tenanted, d # c, Grounds(d)
  PROVE  Grounds(d)'
  <1>1. Ground(d) # Ground(c)
    BY GroundsDiffer
  <1>2. at'[d] = at[d] /\ memory'[d] = memory[d]
    BY DEF Touches, OnlyAt
  <1>3. d \in adding' <=> d \in adding
    BY DEF Touches
  <1>4. Ground(d) \in DOMAIN tenants' <=> Ground(d) \in DOMAIN tenants
    BY <1>1 DEF Touches, TouchesOnly
  <1>5. Ground(d) \in DOMAIN tenants => tenants'[Ground(d)] = tenants[Ground(d)]
    BY <1>1 DEF Touches, TouchesOnly
  <1>6. TableIs(d, tenants[Ground(d)], at[d], memory[d])' <=> TableIs(d, tenants'[Ground(d)], at'[d], memory'[d])
    BY DEF TableIs, AllApiTable, RankingTable, BadRequestTable, InvalidJwtTable
  <1> QED
    BY <1>2, <1>3, <1>4, <1>5 DEF Grounds

-----------------------------------------------------------------------------
(* Tenants are added *)

LEMMA AskedIsWritten ==
  ASSUME server = "as_written", NEW q, q.op # "score", NEW t
  PROVE  Asked(q, t) = q
  BY DEF Asked

LEMMA AddsRow ==
  ASSUME server = "as_written", NEW c, Works(c), ~expired, c \notin adding, NEW q, Now(c).ask = {q},
         q.op = "tenants_add", AddStatus(tenants, q) = 200
  PROVE  /\ tenants' = AddRow(tenants, q) /\ adding' = adding \cup {c}
         /\ UNCHANGED <<settings, main, at, result, memory, group, errors, expired>>
  <1>1. ~Asks(c) /\ ~AsksPage(c)
    BY DEF Asks, AsksPage, AdminApi
  <1>2. ~AddsFile(c) /\ ~Canceled(c)
    BY DEF AddsFile, Canceled
  <1>3. AddsTenant(c)
    BY <1>1, <1>2 DEF Works
  <1>4. Asked(q, EmptyTenant) = q
    BY AskedIsWritten
  <1> QED
    BY <1>3, <1>4 DEF AddsTenant

LEMMA AddRefused ==
  ASSUME server = "as_written", NEW c, Works(c), ~expired, c \notin adding, NEW q, Now(c).ask = {q},
         q.op = "tenants_add", NEW status, AddStatus(tenants, q) = status, status # 200,
         Now(c).status = status
  PROVE  /\ GoOn(c)
         /\ UNCHANGED <<settings, tenants, main, adding, memory, group, errors, expired>>
  <1>1. ~Asks(c) /\ ~AsksPage(c)
    BY DEF Asks, AsksPage, AdminApi
  <1>2. ~AddsFile(c) /\ ~Canceled(c)
    BY DEF AddsFile, Canceled
  <1>3. AddsTenant(c)
    BY <1>1, <1>2 DEF Works
  <1>4. Asked(q, EmptyTenant) = q
    BY AskedIsWritten
  <1> DEFINE a == [status |-> status]
  <1>5. /\ Receive(c, Now(c), q, a)
        /\ UNCHANGED <<settings, tenants, main, adding, memory, group, expired>>
    BY <1>3, <1>4 DEF AddsTenant
  <1>6. a.status = status
    OBVIOUS
  <1> HIDE DEF a
  <1>7. Fits(c, Now(c), q, a, memory[c], initial.billing)
    BY <1>6 DEF Fits
  <1> QED
    BY <1>5, <1>7 DEF Receive

LEMMA AddsItsFile ==
  ASSUME NEW c, Works(c), ~expired, c \in adding, NEW q, Now(c).ask = {q},
         q.op = "tenants_add", Now(c).status = 200, Now(c).name = "tenants_add", c \in Adders
  PROVE  /\ tenants' = AddFile(tenants, q) /\ adding' = adding \ {c} /\ GoOn(c)
         /\ UNCHANGED <<settings, main, memory, group, errors, expired>>
  <1>1. ~Asks(c) /\ ~AsksPage(c)
    BY DEF Asks, AsksPage, AdminApi
  <1>2. ~AddsTenant(c) /\ ~Canceled(c)
    BY DEF AddsTenant, Canceled
  <1>3. AddsFile(c)
    BY <1>1, <1>2 DEF Works
  <1> DEFINE a == [status |-> 200, data |-> {}]
  <1>4. /\ tenants' = AddFile(tenants, q) /\ adding' = adding \ {c} /\ Receive(c, Now(c), q, a)
        /\ UNCHANGED <<settings, main, memory, group, expired>>
    BY <1>3 DEF AddsFile
  <1>5. a.status = 200
    OBVIOUS
  <1> HIDE DEF a
  <1>6. Fits(c, Now(c), q, a, memory[c], initial.billing)
    BY <1>5 DEF Fits, RankingFits, BadRequestFits, Adders
  <1> QED
    BY <1>4, <1>6 DEF Receive

LEMMA AdminIs ==
  /\ AdminAs.role = "admin" /\ AdminAs.tenant = Admin /\ AdminAs.token = "valid" /\ AdminAs.host = Admin
  BY DEF AdminAs, As

LEMMA AddStatusIs ==
  ASSUME NEW q, q.as = AdminAs
  PROVE  AddStatus(tenants, q) = IF q.name \notin NewTenant \/ q.name \in DOMAIN tenants THEN 400 ELSE 200
  BY AdminIs DEF AddStatus, Unauthorized

(* A token that is not valid. *)
LEMMA AddUnauthorized ==
  ASSUME NEW q, q.as.token # "valid"
  PROVE  AddStatus(tenants, q) = 401
  BY DEF AddStatus, Unauthorized

LEMMA FileMakesEmpty ==
  ASSUME NEW g \in DOMAIN tenants, tenants[g] = NoFile, NEW q, q.name = g
  PROVE  /\ DOMAIN AddFile(tenants, q) = DOMAIN tenants
         /\ \A n \in DOMAIN tenants : n # g => AddFile(tenants, q)[n] = tenants[n]
         /\ AddFile(tenants, q)[g] = Holding(0, {}, <<>>)
  <1>1. AddFile(tenants, q) = [tenants EXCEPT ![g] = [NoFile EXCEPT !.file = TRUE]]
    BY DEF AddFile
  <1>2. [NoFile EXCEPT !.file = TRUE] = EmptyTenant
    <2> DEFINE yes == TRUE
               no == FALSE
               z == 0
               e == {}
               c0 == <<>>
               h(f) == [file |-> f, players |-> z, disqualified |-> e, competitions |-> c0]
    <2> HIDE DEF yes, no, z, e, c0
    <2>0. [h(yes) EXCEPT !.file = no] = h(no)
      OBVIOUS
    <2>1. [h(no) EXCEPT !.file = yes] = h(yes)
      OBVIOUS
    <2>2. EmptyTenant = h(yes)
      BY DEF EmptyTenant, yes, z, e, c0
    <2>3. NoFile = [h(yes) EXCEPT !.file = no]
      BY <2>2, Zenon DEF NoFile, no
    <2> QED
      <3>1. NoFile = h(no)
        BY <2>0, <2>3
      <3>2. [NoFile EXCEPT !.file = yes] = EmptyTenant
        BY <2>1, <2>2, <3>1
      <3> QED
        BY <3>2, Zenon DEF yes
  <1>3. EmptyTenant = Holding(0, {}, <<>>)
    BY DEF EmptyTenant, Holding
  <1> QED
    BY <1>1, <1>2, <1>3

LEMMA EmptyIs == EmptyTenant = Holding(0, {}, <<>>) /\ EmptyTenant \in TenantSet
  <1>1. EmptyTenant = Holding(0, {}, <<>>)
    BY DEF EmptyTenant, Holding
  <1>2. 0 \in Nat /\ {} \in SUBSET Nat /\ <<>> \in Seq(CompetitionSet)
    BY Ground1
  <1>3. Holding(0, {}, <<>>) \in TenantSet
    BY <1>2, HoldingIs
  <1> QED
    BY <1>1, <1>3

-----------------------------------------------------------------------------
(* A step of a check that is answered as it must be *)

MovesOn(c) == GoOn(c) \/ UNCHANGED <<at, result>>
Fine(c) ==
    /\ Touches(c) /\ Grounds(c)' /\ MovesOn(c)
    /\ UNCHANGED <<settings, main, group, errors, expired>>

(* What each of its steps finds. *)
Typed ==
    /\ at \in [Check -> Int] /\ memory \in [Check -> {memory[d] : d \in Check}]
    /\ DOMAIN tenants \subseteq NewTenant
Meets(c) == server = "as_written" /\ ~expired /\ Typed /\ Grounds(c) /\ Works(c)

LEMMA TenantedIs ==
  ASSUME NEW c \in Tenanted
  PROVE  c \in Check /\ c \in PrepareCheck /\ Ground(c) \in NewTenant /\ AddStep(c) \in Int
  <1>1. c \in {"allAPI", "ranking", "badRequest", "invalidJWT"}
    BY DEF Tenanted, PrepareCheck
  <1> QED
    BY <1>1, GroundIs, TenantsDiffer DEF Check, PrepareCheck, AddStep

LEMMA GoOnTouches ==
  ASSUME Typed, NEW c \in Check, GoOn(c)
  PROVE  OnlyAt(c, at, at') /\ at'[c] = at[c] + 1
  BY DEF Typed, GoOn, OnlyAt

LEMMA SameTouches ==
  ASSUME NEW c, NEW S, NEW f \in [Check -> S], UNCHANGED f
  PROVE  OnlyAt(c, f, f')
  <1>1. f = [f EXCEPT ![c] = f[c]]
    OBVIOUS
  <1> QED
    BY <1>1 DEF OnlyAt

LEMMA PassKeeps ==
  ASSUME NEW c \in Tenanted, Meets(c), c \notin adding, at[c] > AddStep(c),
         Passes(c, at[c], tenants[Ground(c)], Known, memory[c])
  PROVE  Fine(c)
  <1> DEFINE g == Ground(c)
  <1>1. g \in DOMAIN tenants /\ tenants[g] \in TenantSet /\ TableOf(g) = tenants[g] /\ g \in Known
    BY DEF Meets, Grounds, TableOf, TenantOf, Known
  <1>2. c \in Check /\ AddStep(c) \in Int /\ at[c] \in Int
    BY TenantedIs DEF Meets, Typed
  <1>3. memory \in [Check -> {memory[d] : d \in Check}]
    BY DEF Meets, Typed
  <1>4. /\ Running(c) /\ GoOn(c) /\ UNCHANGED <<settings, main, adding, group, errors, expired>>
        /\ TouchesOnly(g) /\ TableOf(g)' \in TenantSet
        /\ TableIs(c, TableOf(g)', at[c] + 1, memory'[c])
        /\ \E m : memory' = [memory EXCEPT ![c] = m]
    BY <1>1, <1>2, <1>3, StepPasses DEF Meets
  <1>5. g \in DOMAIN tenants' /\ TableOf(g)' = tenants'[g]
    BY <1>1, <1>4 DEF TouchesOnly, TableOf, TenantOf
  <1>6. OnlyAt(c, at, at') /\ at'[c] = at[c] + 1
    BY <1>2, <1>4, GoOnTouches DEF Meets
  <1>7. Touches(c)
    BY <1>4, <1>6 DEF Touches, OnlyAt
  <1>8. Grounds(c)'
    <2>1. c \notin adding' /\ at'[c] > AddStep(c)
      BY <1>2, <1>4, <1>6
    <2>2. tenants'[g] \in TenantSet /\ TableIs(c, tenants'[g], at'[c], memory'[c])
      BY <1>4, <1>5, <1>6
    <2>3. TableIs(c, tenants[g], at[c], memory[c])' <=> TableIs(c, tenants'[g], at'[c], memory'[c])
      BY DEF TableIs, AllApiTable, RankingTable, BadRequestTable, InvalidJwtTable
    <2>4. ~(at'[c] <= AddStep(c))
      BY <1>2, <2>1, <1>6
    <2> QED
      BY <1>5, <2>1, <2>2, <2>3, <2>4 DEF Grounds
  <1> QED
    BY <1>4, <1>7, <1>8 DEF Fine, MovesOn

LEMMA RankingTableIs ==
  ASSUME NEW t, NEW i, NEW m, RankingTable(t, i)
  PROVE  TableIs("ranking", t, i, m)
  BY DEF TableIs

LEMMA BadRequestTableIs ==
  ASSUME NEW t, NEW i, NEW m, BadRequestTable(t, i)
  PROVE  TableIs("badRequest", t, i, m)
  BY DEF TableIs

LEMMA InvalidJwtTableIs ==
  ASSUME NEW t, NEW i, NEW m, InvalidJwtTable(t, i)
  PROVE  TableIs("invalidJWT", t, i, m)
  BY DEF TableIs

(* The tenant is added, and then its file. *)
LEMMA AddKeeps ==
  ASSUME NEW c \in Adders, Meets(c), at[c] = AddStep(c), NEW q, Now(c).ask = {q},
         q.op = "tenants_add", q.as = AdminAs, q.name = Ground(c), Now(c).status = 200,
         Now(c).name = "tenants_add"
  PROVE  Fine(c)
  <1> DEFINE g == Ground(c)
  <1>1. c \in Tenanted /\ c \in {"ranking", "badRequest", "invalidJWT"}
    BY DEF Adders, Tenanted, PrepareCheck
  <1>2. c \in Check /\ g \in NewTenant /\ AddStep(c) \in Int
    BY <1>1, TenantedIs
  <1>3. server = "as_written" /\ ~expired /\ Typed /\ Works(c) /\ memory \in [Check -> {memory[d] : d \in Check}]
    BY DEF Meets, Typed
  <1>4. CASE c \notin adding
    <2>1. g \notin DOMAIN tenants
      BY <1>2, <1>4 DEF Meets, Grounds
    <2>2. AddStatus(tenants, q) = 200
      BY <1>2, <2>1, AddStatusIs
    <2>3. /\ tenants' = AddRow(tenants, q) /\ adding' = adding \cup {c}
          /\ UNCHANGED <<settings, main, at, result, memory, group, errors, expired>>
      BY <1>3, <1>4, <2>2, AddsRow
    <2>4. tenants' = Put(tenants, g, NoFile)
      BY <2>3 DEF AddRow, NoFile
    <2>5. DOMAIN tenants' = DOMAIN tenants \cup {g} /\ tenants'[g] = NoFile
          /\ \A n \in DOMAIN tenants : n # g => tenants'[n] = tenants[n]
      BY <2>4 DEF Put
    <2>6. OnlyAt(c, at, at') /\ OnlyAt(c, memory, memory')
      BY <1>3, <2>3, SameTouches DEF Typed
    <2>7. Touches(c)
      BY <2>3, <2>5, <2>6 DEF Touches, TouchesOnly
    <2>8. c \in adding' /\ at'[c] = AddStep(c)
      BY <2>3
    <2>9. Grounds(c)'
      BY <1>2, <2>5, <2>8 DEF Grounds
    <2> QED
      BY <2>3, <2>7, <2>9 DEF Fine, MovesOn
  <1>5. CASE c \in adding
    <2>1. g \in DOMAIN tenants /\ tenants[g] = NoFile
      BY <1>5 DEF Meets, Grounds
    <2>2. /\ tenants' = AddFile(tenants, q) /\ adding' = adding \ {c} /\ GoOn(c)
          /\ UNCHANGED <<settings, main, memory, group, errors, expired>>
      BY <1>3, <1>5, AddsItsFile
    <2>3. /\ DOMAIN tenants' = DOMAIN tenants /\ tenants'[g] = Holding(0, {}, <<>>)
          /\ \A n \in DOMAIN tenants : n # g => tenants'[n] = tenants[n]
      BY <2>1, <2>2, FileMakesEmpty
    <2>4. OnlyAt(c, at, at') /\ at'[c] = at[c] + 1
      BY <1>2, <1>3, <2>2, GoOnTouches
    <2>5. OnlyAt(c, memory, memory')
      BY <1>3, <2>2, SameTouches
    <2>6. Touches(c)
      BY <2>2, <2>3, <2>4, <2>5 DEF Touches, TouchesOnly
    <2>7. c \notin adding' /\ at'[c] > AddStep(c) /\ ~(at'[c] <= AddStep(c))
      BY <1>2, <2>2, <2>4
    <2>8. tenants'[g] \in TenantSet
      BY <2>3, EmptyIs
    <2>9. TableIs(c, tenants'[g], at'[c], memory'[c])
      <3> DEFINE u == tenants'[g]
                 m == memory'[c]
                 i == at'[c]
      <3>1. u = Holding(0, {}, <<>>)
        BY <2>3
      <3>2. (c \in {"ranking", "badRequest"} => i = 2) /\ (c = "invalidJWT" => i = 5)
        BY <2>4 DEF AddStep
      <3> HIDE DEF u, m, i
      <3>3. ASSUME c = "ranking" PROVE TableIs(c, u, i, m)
        <4>1. i = 2
          BY <3>2, <3>3
        <4>2. RankingTable(u, i)
          BY <3>1, <4>1 DEF RankingTable
        <4> QED
          BY <3>3, <4>2, RankingTableIs
      <3>4. ASSUME c = "badRequest" PROVE TableIs(c, u, i, m)
        <4>1. i = 2
          BY <3>2, <3>4
        <4>2. BadRequestTable(u, i)
          BY <3>1, <4>1 DEF BadRequestTable
        <4> QED
          BY <3>4, <4>2, BadRequestTableIs
      <3>5. ASSUME c = "invalidJWT" PROVE TableIs(c, u, i, m)
        <4>1. i = 5
          BY <3>2, <3>5
        <4>2. InvalidJwtTable(u, i)
          BY <3>1, <4>1 DEF InvalidJwtTable
        <4> QED
          BY <3>5, <4>2, InvalidJwtTableIs
      <3> QED
        BY <1>1, <3>3, <3>4, <3>5 DEF u, m, i
    <2>10. TableIs(c, tenants[g], at[c], memory[c])' <=> TableIs(c, tenants'[g], at'[c], memory'[c])
      BY DEF TableIs, AllApiTable, RankingTable, BadRequestTable, InvalidJwtTable
    <2>11. Grounds(c)'
      BY <2>1, <2>3, <2>7, <2>8, <2>9, <2>10 DEF Grounds
    <2> QED
      BY <2>2, <2>6, <2>11 DEF Fine, MovesOn
  <1> QED
    BY <1>4, <1>5

(* The table is there, and is the one of the next step too. *)
Stays(c) ==
    \/ at[c] + 1 <= AddStep(c)
    \/ at[c] > AddStep(c) /\ TableIs(c, tenants[Ground(c)], at[c] + 1, memory[c])

(* A step that changes nothing. *)
LEMMA SameKeeps ==
  ASSUME NEW c \in Tenanted, Meets(c), c \notin adding, Stays(c), GoOn(c),
         UNCHANGED <<settings, tenants, main, adding, memory, group, errors, expired>>
  PROVE  Fine(c)
  <1> DEFINE g == Ground(c)
  <1>1. c \in Check /\ AddStep(c) \in Int /\ at[c] \in Int /\ Typed
        /\ memory \in [Check -> {memory[d] : d \in Check}]
    BY TenantedIs DEF Meets, Typed
  <1>2. OnlyAt(c, at, at') /\ at'[c] = at[c] + 1
    BY <1>1, GoOnTouches
  <1>3. OnlyAt(c, memory, memory')
    BY <1>1, SameTouches
  <1>4. Touches(c)
    BY <1>2, <1>3 DEF Touches, TouchesOnly
  <1>5. TableIs(c, tenants[g], at[c], memory[c])' <=> TableIs(c, tenants'[g], at'[c], memory'[c])
    BY DEF TableIs, AllApiTable, RankingTable, BadRequestTable, InvalidJwtTable
  <1>6. CASE at[c] + 1 <= AddStep(c)
    <2>1. g \notin DOMAIN tenants
      BY <1>1, <1>6 DEF Meets, Grounds
    <2>2. c \notin adding' /\ ~(at'[c] > AddStep(c)) /\ g \notin DOMAIN tenants'
      BY <1>1, <1>2, <1>6, <2>1
    <2>3. Grounds(c)'
      BY <2>2 DEF Grounds
    <2> QED
      BY <1>4, <2>3 DEF Fine, MovesOn
  <1>7. CASE at[c] > AddStep(c) /\ TableIs(c, tenants[g], at[c] + 1, memory[c])
    <2>1. g \in DOMAIN tenants /\ tenants[g] \in TenantSet
      BY <1>7 DEF Meets, Grounds
    <2>2. c \notin adding' /\ at'[c] > AddStep(c) /\ ~(at'[c] <= AddStep(c))
      BY <1>1, <1>2, <1>7
    <2>3. TableIs(c, tenants'[g], at'[c], memory'[c])
      BY <1>2, <1>7
    <2>4. g \in DOMAIN tenants' /\ tenants'[g] \in TenantSet
      BY <2>1
    <2>5. Grounds(c)'
      BY <1>5, <2>2, <2>3, <2>4 DEF Grounds
    <2> QED
      BY <1>4, <2>5 DEF Fine, MovesOn
  <1> QED
    BY <1>6, <1>7 DEF Stays

LEMMA RefusedAddKeeps ==
  ASSUME NEW c \in Tenanted, Meets(c), c \notin adding, Stays(c), NEW q, Now(c).ask = {q},
         q.op = "tenants_add", AddStatus(tenants, q) = Now(c).status, Now(c).status # 200
  PROVE  Fine(c)
  <1>1. GoOn(c) /\ UNCHANGED <<settings, tenants, main, adding, memory, group, errors, expired>>
    BY AddRefused DEF Meets
  <1> QED
    BY <1>1, SameKeeps

(* Who asks for a tenant that is not there is not let in. *)
LEMMA StrangerKeeps ==
  ASSUME NEW c \in Tenanted, Meets(c), c \notin adding, Stays(c),
         NEW q, q = Request("competitions_add", OrganizerOf(tNone), Nothing),
         Now(c).ask = {q}, Now(c).status = 401
  PROVE  Fine(c)
  <1>1. q.op = "competitions_add" /\ q.as = OrganizerOf(tNone) /\ q.as.tenant = tNone
    BY RequestIs, AsIs
  <1>2. tNone \notin Known /\ tNone # Admin /\ tNone \notin InitialId /\ tNone \notin DOMAIN tenants
    BY ChecksAssumption DEF Meets, Typed, Known
  <1>3. TenantOf(initial.tenant, tenants, tNone) = EmptyTenant
    BY <1>2 DEF TenantOf
  <1>4. HasParameters(q, Lines, Nat) /\ q.op \in OrganizerApi \cup PlayerApi
    BY <1>1 DEF HasParameters, OrganizerApi
  <1>5. Contestant(q) = Answer(EmptyTenant, q, Known)
    <2>1. TenantOf(initial.tenant, tenants, q.as.tenant) \in TenantSet
      BY <1>1, <1>3, EmptyIs
    <2>2. q.op = "score" => [q EXCEPT !.rows = q.rows] = q
      BY <1>1
    <2>3. Contestant(q) = Answer(TenantOf(initial.tenant, tenants, q.as.tenant), q, InitialId \cup DOMAIN tenants)
      BY <1>4, <2>1, <2>2, AsWrittenServer DEF Meets
    <2> QED
      BY <1>1, <1>3, <2>3 DEF Known
  <1> DEFINE r == Refused(EmptyTenant, 401)
  <1>6. Contestant(q) = r
    BY <1>1, <1>2, <1>5, StrangerRefused
  <1>7. r.tenant = EmptyTenant /\ r.answer.status = 401
    BY AnswerIs
  <1> HIDE DEF r
  <1>8. /\ Receive(c, Now(c), q, r.answer)
        /\ tenants' = Updated(tNone, EmptyTenant)
        /\ Remembers(c, r.answer)
        /\ UNCHANGED <<settings, main, adding, group, expired>>
    BY <1>1, <1>4, <1>6, <1>7, OneRequest DEF Meets
  <1>9. Fits(c, Now(c), q, r.answer, memory[c], initial.billing)
    BY <1>7 DEF Fits
  <1>10. GoOn(c) /\ UNCHANGED errors
    BY <1>8, <1>9 DEF Receive
  <1>11. UNCHANGED tenants
    BY <1>2, <1>8 DEF Updated
  <1>12. UNCHANGED memory
    BY <1>7, <1>8 DEF Remembers
  <1> QED
    BY <1>8, <1>10, <1>11, <1>12, SameKeeps

-----------------------------------------------------------------------------
(* The checks that add a tenant *)

LEMMA NotAdding ==
  ASSUME NEW c \in Tenanted, Meets(c), at[c] # AddStep(c)
  PROVE  c \notin adding /\ (at[c] > AddStep(c) => Ground(c) \in Known)
  BY DEF Meets, Grounds, Known

LEMMA RankingKeeps ==
  ASSUME Meets("ranking"), at["ranking"] \in 1..Length("ranking")
  PROVE  Fine("ranking")
  <1> DEFINE c == "ranking"
             i == at["ranking"]
             s == Script("ranking", choice)
  <1>1. c \in Tenanted /\ c \in Adders /\ AddStep(c) = 1 /\ Ground(c) = tRanking
    BY GroundIs DEF Tenanted, PrepareCheck, Adders, AddStep
  <1>2. i \in 1..12 /\ Now(c) = s[i]
    BY RankingSteps, ZenonT(30) DEF Length, Now
  <1>3. CASE i = 1
    <2> DEFINE p == [name |-> tRanking]
               q == Request("tenants_add", AdminAs, p)
    <2>1. Now(c) = Must("tenants_add", "tenants_add", AdminAs, p)
      BY <1>2, <1>3, RankingSteps
    <2>2. Now(c).ask = {q} /\ Now(c).status = 200 /\ Now(c).name = "tenants_add"
      BY <2>1, MustIs
    <2>3. q.op = "tenants_add" /\ q.as = AdminAs /\ q.name = tRanking
      <3>1. "name" \in DOMAIN p /\ p.name = tRanking
        OBVIOUS
      <3> HIDE DEF p
      <3> QED
        BY <3>1, RequestIs
    <2> HIDE DEF q, p
    <2> QED
      BY <1>1, <1>3, <2>2, <2>3, AddKeeps
  <1>4. CASE i \in 2..12
    <2>1. c \notin adding /\ tRanking \in Known
      BY <1>1, <1>4, NotAdding
    <2>2. RankingTable(tenants[tRanking], i)
      BY <1>1, <1>4 DEF Meets, Grounds, TableIs
    <2>3. Passes("ranking", i, tenants[tRanking], Known, memory[c])
      BY <1>4, <2>1, <2>2, RankingPasses
    <2> QED
      BY <1>1, <1>4, <2>1, <2>3, PassKeeps
  <1> QED
    BY <1>2, <1>3, <1>4

LEMMA AddRequestIs ==
  ASSUME NEW as, NEW name
  PROVE  LET q == Request("tenants_add", as, [name |-> name])
         IN  q.op = "tenants_add" /\ q.as = as /\ q.name = name
  BY DEF Request

(* A name that is taken, and one that is no tenant's. *)
LEMMA RefusedNames ==
  LET s == Script("badRequest", choice)
      dup == Request("tenants_add", AdminAs, [name |-> tBad])
      no == Request("tenants_add", AdminAs, [name |-> Admin])
  IN  /\ s[3].ask = {dup} /\ s[3].status = 400
      /\ s[4].ask = {no} /\ s[4].status = 400
  <1> DEFINE s == Script("badRequest", choice)
             p == [name |-> tBad]
             r == [name |-> Admin]
             yes == TRUE
  <1>1. /\ s[3] = Step("duplicate_name", "tenants_add", AdminAs, {p}, 400, yes)
        /\ s[4] = Step("invalid_name", "tenants_add", AdminAs, {r}, 400, yes)
    BY BadRequestSteps, ZenonT(30)
  <1> HIDE DEF s, p, r, yes
  <1>2. s[3].ask = {Request("tenants_add", AdminAs, p)} /\ s[3].status = 400
    BY <1>1, StepIs
  <1>3. s[4].ask = {Request("tenants_add", AdminAs, r)} /\ s[4].status = 400
    BY <1>1, StepIs
  <1> QED
    BY <1>2, <1>3 DEF s, p, r

LEMMA BadRequestKeeps ==
  ASSUME Meets("badRequest"), at["badRequest"] \in 1..Length("badRequest")
  PROVE  Fine("badRequest")
  <1> DEFINE c == "badRequest"
             i == at["badRequest"]
             s == Script("badRequest", choice)
  <1>1. c \in Tenanted /\ c \in Adders /\ AddStep(c) = 1 /\ Ground(c) = tBad
    BY GroundIs DEF Tenanted, PrepareCheck, Adders, AddStep
  <1>2. i \in 1..17 /\ Now(c) = s[i]
    BY BadRequestSteps, ZenonT(30) DEF Length, Now
  <1>3. CASE i = 1
    <2> DEFINE p == [name |-> tBad]
               q == Request("tenants_add", AdminAs, p)
    <2>1. Now(c) = Must("tenants_add", "tenants_add", AdminAs, p)
      BY <1>2, <1>3, BadRequestSteps
    <2>2. Now(c).ask = {q} /\ Now(c).status = 200 /\ Now(c).name = "tenants_add"
      BY <2>1, MustIs
    <2>3. q.op = "tenants_add" /\ q.as = AdminAs /\ q.name = tBad
      BY AddRequestIs
    <2> HIDE DEF q, p
    <2> QED
      BY <1>1, <1>3, <2>2, <2>3, AddKeeps
  <1>4. CASE i \in 2..17
    <2>1. c \notin adding /\ tBad \in Known
      BY <1>1, <1>4, NotAdding
    <2>2. BadRequestTable(tenants[tBad], i) /\ tBad \in DOMAIN tenants
      BY <1>1, <1>4 DEF Meets, Grounds, TableIs
    <2>3. CASE i \in {2} \cup 5..17
      <3>1. Passes("badRequest", i, tenants[tBad], Known, memory[c])
        BY <2>1, <2>2, <2>3, BadRequestPasses
      <3> QED
        BY <1>1, <1>4, <2>1, <3>1, PassKeeps
    <2>4. CASE i \in {3, 4}
      <3> DEFINE name == IF i = 3 THEN tBad ELSE Admin
                 p == [name |-> name]
                 q == Request("tenants_add", AdminAs, p)
      <3>1. q.op = "tenants_add" /\ q.as = AdminAs /\ q.name = name
        BY AddRequestIs
      <3>2. Now(c).ask = {q} /\ Now(c).status = 400
        BY <1>2, <2>4, RefusedNames
      <3>3. name \in DOMAIN tenants \/ name \notin NewTenant
        BY <2>2, ServiceAssumption
      <3> HIDE DEF q, p, name
      <3>4. AddStatus(tenants, q) = 400
        BY <3>1, <3>3, AddStatusIs
      <3>5. BadRequestTable(tenants[tBad], i + 1)
        BY <2>2, <2>4, SMTT(30) DEF BadRequestTable
      <3>6. TableIs("badRequest", tenants[tBad], i + 1, memory[c])
        BY <3>5, BadRequestTableIs
      <3>7. Stays(c)
        BY <1>1, <1>4, <3>6 DEF Stays
      <3> QED
        BY <1>1, <2>1, <3>1, <3>2, <3>4, <3>7, RefusedAddKeeps
    <2> QED
      BY <1>4, <2>3, <2>4
  <1> QED
    BY <1>2, <1>3, <1>4

LEMMA InvalidJwtKeeps ==
  ASSUME Meets("invalidJWT"), at["invalidJWT"] \in 1..Length("invalidJWT")
  PROVE  Fine("invalidJWT")
  <1> DEFINE c == "invalidJWT"
             i == at["invalidJWT"]
             s == Script("invalidJWT", choice)
  <1>1. c \in Tenanted /\ c \in Adders /\ AddStep(c) = 4 /\ Ground(c) = tJwt
    BY GroundIs DEF Tenanted, PrepareCheck, Adders, AddStep
  <1>2. i \in 1..6 /\ Now(c) = s[i]
    BY InvalidJwtSteps DEF Length, Now
  <1>3. CASE i = 4
    <2> DEFINE p == [name |-> tJwt]
               q == Request("tenants_add", AdminAs, p)
    <2>1. Now(c) = Must("tenants_add", "tenants_add", AdminAs, p)
      BY <1>2, <1>3, InvalidJwtSteps
    <2>2. Now(c).ask = {q} /\ Now(c).status = 200 /\ Now(c).name = "tenants_add"
      BY <2>1, MustIs
    <2>3. q.op = "tenants_add" /\ q.as = AdminAs /\ q.name = tJwt
      BY AddRequestIs
    <2> HIDE DEF q, p
    <2> QED
      BY <1>1, <1>3, <2>2, <2>3, AddKeeps
  <1>4. CASE i \in 1..3
    <2> DEFINE token == IF i = 1 THEN "expired" ELSE IF i = 2 THEN "key" ELSE "algorithm"
               name == IF i = 1 THEN "expired" ELSE IF i = 2 THEN "wrong_key" ELSE "wrong_algorithm"
               as == [AdminAs EXCEPT !.token = token]
               p == [name |-> tJwt]
               q == Request("tenants_add", as, p)
    <2>1. Now(c) = Refuses(name, "tenants_add", as, p, 401)
      BY <1>2, <1>4, InvalidJwtSteps
    <2>2. as.token # "valid"
      <3>1. token # "valid"
        BY <1>4
      <3> HIDE DEF token
      <3>2. as.token = token
        BY DEF AdminAs, As
      <3> QED
        BY <3>1, <3>2
    <2> HIDE DEF as, name, p, token
    <2>3. Now(c).ask = {q} /\ Now(c).status = 401
      <3> DEFINE op == "tenants_add"
                 s1 == Refuses(name, op, as, p, 401)
      <3> HIDE DEF op
      <3>1. s1.ask = {Request(op, as, p)}
        BY DEF Refuses, Step
      <3>2. s1.status = 401
        BY DEF Refuses, Step
      <3> QED
        BY <2>1, <3>1, <3>2, ZenonT(30) DEF op
    <2>4. q.op = "tenants_add" /\ q.as = as
      BY AddRequestIs DEF p
    <2> HIDE DEF q
    <2>5. AddStatus(tenants, q) = 401
      BY <2>2, <2>4, AddUnauthorized
    <2>6. Stays(c) /\ c \notin adding
      BY <1>1, <1>4, NotAdding DEF Stays
    <2> QED
      BY <1>1, <2>3, <2>4, <2>5, <2>6, RefusedAddKeeps
  <1>5. CASE i \in {5, 6}
    <2>1. c \notin adding /\ tJwt \in Known
      BY <1>1, <1>5, NotAdding
    <2>2. InvalidJwtTable(tenants[tJwt], i)
      BY <1>1, <1>5 DEF Meets, Grounds, TableIs
    <2>3. CASE i = 6
      <3>1. InvalidJwtTable(tenants[tJwt], 6)
        BY <2>2, <2>3
      <3>2. Passes("invalidJWT", 6, tenants[tJwt], Known, memory[c])
        BY <2>1, <3>1, InvalidJwtPasses
      <3> QED
        BY <1>1, <2>1, <2>3, <3>2, PassKeeps
    <2>4. CASE i = 5
      <3> DEFINE q == Request("competitions_add", OrganizerOf(tNone), Nothing)
      <3>1. Now(c) = Refuses("no_tenant", "competitions_add", OrganizerOf(tNone), Nothing, 401)
        BY <1>2, <2>4, InvalidJwtSteps
      <3>2. Now(c).ask = {q} /\ Now(c).status = 401
        BY <3>1, RefusesIs
      <3>3. InvalidJwtTable(tenants[tJwt], i + 1)
        BY <2>2, <2>4 DEF InvalidJwtTable
      <3>4. TableIs("invalidJWT", tenants[tJwt], i + 1, memory[c])
        BY <3>3, InvalidJwtTableIs
      <3>5. Stays(c)
        BY <1>1, <2>4, <3>4 DEF Stays
      <3> HIDE DEF q
      <3>6. q = Request("competitions_add", OrganizerOf(tNone), Nothing)
        BY DEF q
      <3> QED
        BY <1>1, <2>1, <3>2, <3>5, <3>6, StrangerKeeps
    <2> QED
      BY <1>5, <2>3, <2>4
  <1> QED
    BY <1>2, <1>3, <1>4, <1>5

-----------------------------------------------------------------------------
(* The check of everything: its steps one after another *)

(* A step of a check, of which only the page of the bills may be answered in   *)
(* another way than the check wants it.                                        *)
Outcome(c) ==
    /\ Touches(c) /\ Grounds(c)' /\ (MovesOn(c) \/ Fail(c))
    /\ errors' \subseteq errors \cup {<<"allAPI", "dashboard">>}
    /\ UNCHANGED <<settings, main, group, expired>>

LEMMA FineIsOutcome ==
  ASSUME NEW c, Fine(c)
  PROVE  Outcome(c)
  BY DEF Fine, Outcome

LEMMA AllApiKeeps ==
  ASSUME Meets("allAPI"), at["allAPI"] \in 1..14, at["allAPI"] # 6
  PROVE  Fine("allAPI")
  <1> DEFINE c == "allAPI"
             i == at["allAPI"]
  <1>1. c \in Tenanted /\ AddStep(c) = 0 /\ Ground(c) = tAll
    BY GroundIs DEF Tenanted, PrepareCheck, AddStep
  <1>2. c \notin adding /\ tAll \in Known
    BY <1>1, NotAdding
  <1>3. AllApiTable(tenants[tAll], i) /\ (i >= 6 => memory[c] = PlayerNum - 1)
    BY <1>1 DEF Meets, Grounds, TableIs
  <1>4. i \in 1..14 /\ i # 6
    OBVIOUS
  <1>5. Passes("allAPI", i, tenants[tAll], Known, memory[c])
    BY <1>2, <1>3, <1>4, AllApiPasses
  <1> QED
    BY <1>1, <1>2, <1>5, PassKeeps

(* The page of the bills may be read while a tenant has no file yet. *)
LEMMA DashboardKeeps ==
  ASSUME Meets("allAPI"), at["allAPI"] = 15
  PROVE  Outcome("allAPI")
  <1> DEFINE c == "allAPI"
             s == Now(c)
  <1>1. c \in Tenanted /\ AddStep(c) = 0 /\ Ground(c) = tAll /\ c \in Check /\ tAll \in NewTenant
    BY GroundIs, TenantedIs DEF Tenanted, PrepareCheck, AddStep
  <1>2. c \notin adding
    BY <1>1, NotAdding
  <1>3. AllApiTable(tenants[tAll], 15) /\ memory[c] = PlayerNum - 1 /\ tenants[tAll] \in TenantSet /\ tAll \in DOMAIN tenants
    BY <1>1 DEF Meets, Grounds, TableIs
  <1>4. s = Should("dashboard", "tenants_billing", AdminAs, Nothing)
    BY AllApiSteps DEF Now
  <1>5. s.name = "dashboard" /\ s.ask = {Request("tenants_billing", AdminAs, Nothing)}
    BY <1>4, ShouldIs
  <1>6. Request("tenants_billing", AdminAs, Nothing).op = "tenants_billing"
    BY RequestIs
  <1> HIDE DEF s
  <1>7. AsksPage(c)
    <2>1. ~Asks(c) /\ ~AddsTenant(c)
      BY <1>5, <1>6 DEF Asks, AddsTenant, AdminApi, s
    <2>2. ~AddsFile(c) /\ ~Canceled(c)
      BY <1>2 DEF AddsFile, Canceled, Meets
    <2> QED
      BY <2>1, <2>2 DEF Meets, Works
  <1>8. PICK a, q : Receive(c, s, q, a) /\ Remembers(c, a)
    BY <1>7 DEF AsksPage, s
  <1>9. UNCHANGED <<settings, tenants, main, adding, group, expired>>
    BY <1>7 DEF AsksPage
  <1>10. UNCHANGED memory
    BY <1>5, <1>8 DEF Remembers, Remembered, s
  <1>11. (GoOn(c) \/ Fail(c)) /\ errors' \subseteq errors \cup {<<c, "dashboard">>}
    BY <1>5, <1>8 DEF Receive
  <1>12. OnlyAt(c, at, at') /\ at'[c] \in {15, 16}
    <2>1. CASE GoOn(c)
      BY <1>1, <2>1, GoOnTouches DEF Meets
    <2>2. CASE Fail(c)
      <3>1. at \in [Check -> Int] /\ UNCHANGED at
        BY <2>2 DEF Meets, Typed, Fail
      <3> QED
        BY <3>1, SameTouches
    <2> QED
      BY <1>11, <2>1, <2>2
  <1>13. OnlyAt(c, memory, memory')
    BY <1>10, SameTouches DEF Meets, Typed
  <1>14. Touches(c)
    BY <1>9, <1>12, <1>13 DEF Touches, TouchesOnly
  <1>15. Grounds(c)'
    <2>1. AllApiTable(tenants'[tAll], at'[c]) /\ memory'[c] = PlayerNum - 1
      <3>1. AllApiTable(tenants[tAll], 16)
        BY <1>3 DEF AllApiTable
      <3> QED
        BY <1>3, <1>9, <1>10, <1>12, <3>1
    <2>2. TableIs(c, tenants'[tAll], at'[c], memory'[c])
      BY <2>1 DEF TableIs
    <2>3. TableIs(c, tenants[tAll], at[c], memory[c])' <=> TableIs(c, tenants'[tAll], at'[c], memory'[c])
      BY DEF TableIs, AllApiTable, RankingTable, BadRequestTable, InvalidJwtTable
    <2>4. c \notin adding' /\ at'[c] > AddStep(c) /\ ~(at'[c] <= AddStep(c))
      BY <1>1, <1>2, <1>9, <1>12
    <2>5. tAll \in DOMAIN tenants' /\ tenants'[tAll] \in TenantSet
      BY <1>3, <1>9
    <2>6. TableIs(c, tenants[tAll], at[c], memory[c])'
      BY <2>2, <2>3
    <2> QED
      BY <1>1, <2>4, <2>5, <2>6 DEF Grounds
  <1> QED
    BY <1>9, <1>11, <1>14, <1>15 DEF Outcome, MovesOn

-----------------------------------------------------------------------------
(* What the tenants of the initial data owe *)

InitialRight ==
    /\ initial.tenant \in TenantSet /\ initial.tenant.file
    /\ [c \in DOMAIN initial.tenant.competitions |-> Report(initial.tenant.competitions[c]).yen] = initial.billing

LEMMA InitialIsThere ==
  ASSUME Typed, NEW id \in InitialId
  PROVE  id \notin DOMAIN tenants /\ TenantOf(initial.tenant, tenants, id) = initial.tenant /\ id \in Known /\ id # Admin
  BY ServiceAssumption DEF Typed, TenantOf, Known

(* Their bills are read, and nothing changes. *)
LEMMA InitialBill ==
  ASSUME server = "as_written", InitialRight, Typed, NEW id \in InitialId, NEW q,
         q = [op |-> "billing", as |-> OrganizerOf(id)]
  PROVE  Contestant(q) = Done(initial.tenant, BillOf(initial.tenant.competitions))
  <1>1. q.op = "billing" /\ q.as = OrganizerOf(id) /\ q.as.tenant = id
    BY AsIs
  <1>2. id # Admin /\ TenantOf(initial.tenant, tenants, id) = initial.tenant /\ id \in Known
    BY InitialIsThere
  <1>3. HasParameters(q, Lines, Nat) /\ q.op \in OrganizerApi
    BY <1>1 DEF HasParameters, OrganizerApi
  <1>4. Contestant(q) = Answer(initial.tenant, q, Known)
    <2>1. TenantOf(initial.tenant, tenants, q.as.tenant) \in TenantSet
      BY <1>1, <1>2 DEF InitialRight
    <2>2. q.op = "score" => [q EXCEPT !.rows = q.rows] = q
      BY <1>1
    <2>3. Contestant(q) = Answer(TenantOf(initial.tenant, tenants, q.as.tenant), q, InitialId \cup DOMAIN tenants)
      BY <1>3, <2>1, <2>2, AsWrittenServer
    <2> QED
      BY <1>1, <1>2, <2>3 DEF Known
  <1>5. Answer(initial.tenant, q, Known) = Handler(initial.tenant, q)
    <2>1. initial.tenant.file
      BY DEF InitialRight
    <2> DEFINE t == initial.tenant
    <2> HIDE DEF t
    <2>2. Answer(t, q, Known) = Handler(t, q)
      BY <1>1, <1>2, <1>3, <2>1, OrganizerAnswered DEF t
    <2> QED
      BY <2>2 DEF t
  <1>6. Handler(initial.tenant, q) = Billing(initial.tenant, q)
    BY <1>1 DEF Handler
  <1> QED
    BY <1>4, <1>5, <1>6 DEF Billing, BillOf

LEMMA BillFits ==
  ASSUME InitialRight, NEW m
  PROVE  AllApiFits("initial_billing", BillOf(initial.tenant.competitions), m, initial.billing)
  <1> DEFINE cs == initial.tenant.competitions
             d == BillOf(cs)
  <1>1. DOMAIN d = DOMAIN cs /\ \A c \in DOMAIN cs : d[c] = Report(cs[c])
    BY DEF BillOf
  <1>2. [c \in DOMAIN cs |-> Report(cs[c]).yen] = initial.billing
    BY DEF InitialRight
  <1> HIDE DEF cs, d
  <1>3. [c \in DOMAIN d |-> d[c].yen] = initial.billing
    BY <1>1, <1>2
  <1>4. AllApiFits("initial_billing", d, m, initial.billing)
    BY <1>3 DEF AllApiFits
  <1> QED
    BY <1>4 DEF d, cs

(* A step that is answered, and changes no table. *)
LEMMA InitialBillsKeep ==
  ASSUME Meets("allAPI"), at["allAPI"] = 16, InitialRight
  PROVE  Fine("allAPI")
  <1> DEFINE c == "allAPI"
             s == Now(c)
             ask == {[op |-> "billing", as |-> OrganizerOf(id)] : id \in 3..InitialTenants}
  <1>1. c \in Tenanted /\ AddStep(c) = 0 /\ Ground(c) = tAll
    BY GroundIs DEF Tenanted, PrepareCheck, AddStep
  <1>2. c \notin adding
    BY <1>1, NotAdding
  <1>3. s.ask = ask /\ s.status = 200 /\ s.name = "initial_billing"
    <2> DEFINE s0 == Should("initial_billing", "billing", OrganizerOf(tAll), Nothing)
    <2>1. s = [s0 EXCEPT !.ask = ask]
      BY AllApiSteps DEF Now
    <2>2. s0 = [name |-> s0.name, status |-> s0.status, fatal |-> s0.fatal, ask |-> s0.ask]
      BY DEF Should, Step
    <2>3. s0.name = "initial_billing" /\ s0.status = 200
      BY DEF Should, Step
    <2> HIDE DEF s0, ask, s
    <2> QED
      BY <2>1, <2>2, <2>3
  <1>4. \A q \in ask : q.op = "billing"
    OBVIOUS
  <1>5. Asks(c)
    <2>1. ~AsksPage(c) /\ ~AddsTenant(c)
      BY <1>3, <1>4 DEF AsksPage, AddsTenant
    <2>2. ~AddsFile(c) /\ ~Canceled(c)
      BY <1>2 DEF AddsFile, Canceled, Meets
    <2> QED
      BY <2>1, <2>2 DEF Meets, Works
  <1> DEFINE d == BillOf(initial.tenant.competitions)
             r == Done(initial.tenant, d)
  <1>6. PICK q \in ask : /\ Receive(c, s, q, Contestant(q).answer)
                         /\ tenants' = Updated(q.as.tenant, Contestant(q).tenant)
                         /\ Remembers(c, Contestant(q).answer)
    BY <1>3, <1>5 DEF Asks
  <1>7. UNCHANGED <<settings, main, adding, group, expired>>
    BY <1>5 DEF Asks
  <1>8. PICK id \in 3..InitialTenants : q = [op |-> "billing", as |-> OrganizerOf(id)]
    BY <1>6
  <1>9. id \in InitialId /\ q.as.tenant = id
    BY <1>8, AsIs, ServiceAssumption DEF InitialId
  <1>10. Contestant(q) = r
    BY <1>8, <1>9, InitialBill DEF Meets
  <1>11. UNCHANGED tenants
    <2>1. r.tenant = initial.tenant
      BY AnswerIs
    <2> HIDE DEF r
    <2>2. TenantOf(initial.tenant, tenants, id) = initial.tenant
      BY <1>9, InitialIsThere DEF Meets
    <2> QED
      BY <1>6, <1>9, <1>10, <2>1, <2>2 DEF Updated
  <1>12. r.answer.status = 200 /\ r.answer.data = d
    BY AnswerIs
  <1>13. AllApiFits(s.name, d, memory[c], initial.billing)
    BY <1>3, BillFits
  <1> HIDE DEF r, d, ask
  <1>14. Fits(c, s, q, r.answer, memory[c], initial.billing)
    BY <1>3, <1>12, <1>13 DEF Fits
  <1>15. GoOn(c) /\ UNCHANGED errors
    BY <1>6, <1>10, <1>14 DEF Receive
  <1>16. UNCHANGED memory
    BY <1>3, <1>6 DEF Remembers, Remembered
  <1>17. Stays(c)
    <2>1. AllApiTable(tenants[tAll], 16) /\ memory[c] = PlayerNum - 1
      BY <1>1 DEF Meets, Grounds, TableIs
    <2>2. AllApiTable(tenants[tAll], 17)
      BY DEF AllApiTable
    <2>3. TableIs(c, tenants[tAll], 17, memory[c])
      BY <2>1, <2>2 DEF TableIs
    <2> QED
      BY <1>1, <2>3 DEF Stays
  <1> QED
    BY <1>1, <1>2, <1>7, <1>11, <1>15, <1>16, <1>17, SameKeeps

-----------------------------------------------------------------------------
(* The check of the bills of the initial tenants *)

LEMMA YenIs ==
  ASSUME InitialRight
  PROVE  Yen(initial.tenant) = Total(initial.billing)
  <1>1. [c \in DOMAIN initial.tenant.competitions |-> Report(initial.tenant.competitions[c]).yen] = initial.billing
    BY DEF InitialRight
  <1> QED
    BY <1>1 DEF Yen, Total

LEMMA PageBefore ==
  ASSUME NEW id \in (BillingLimit + 2)..InitialTenants
  PROVE  /\ BillingPage(tenants, id) = (id - BillingLimit)..(id - 1)
         /\ (id - BillingLimit)..(id - 1) \subseteq InitialId
  <1>1. BillingLimit \in Nat /\ InitialTenants \in Nat /\ id \in Nat /\ id # 0
    BY ServiceAssumption
  <1>2. (id - BillingLimit)..(id - 1) \subseteq InitialId
    BY <1>1 DEF InitialId
  <1>3. {x \in InitialId : x < id /\ x >= id - BillingLimit} = (id - BillingLimit)..(id - 1)
    BY <1>1, <1>2 DEF InitialId
  <1> QED
    BY <1>1, <1>2, <1>3 DEF BillingPage

LEMMA PageIsAnswered ==
  ASSUME server = "as_written", InitialRight, Typed, NEW q, q.op = "tenants_billing", q.as = AdminAs,
         q.before \in (BillingLimit + 2)..InitialTenants
  PROVE  /\ ContestantPage(q).status = 200
         /\ ContestantPage(q).data
              = [id \in (q.before - BillingLimit)..(q.before - 1) |-> Total(initial.billing)]
  <1> DEFINE page == BillingPage(tenants, q.before)
             of(n) == TenantOf(initial.tenant, tenants, n)
             a == TenantsBilling(initial.tenant, tenants, q)
             d == [n \in page |-> Yen(of(n))]
  <1>1. page = (q.before - BillingLimit)..(q.before - 1) /\ page \subseteq InitialId
    BY PageBefore
  <1>2. \A n \in page : of(n) = initial.tenant
    BY <1>1, InitialIsThere
  <1>3. \A n \in page : of(n).file
    BY <1>2 DEF InitialRight
  <1>4. ~Unauthorized(q.as, DOMAIN tenants) /\ q.as.host = Admin /\ q.as.role = "admin"
    BY AdminIs DEF Unauthorized
  <1>5. a = [status |-> 200, data |-> d]
    BY <1>3, <1>4 DEF TenantsBilling
  <1>6. Asked(q, EmptyTenant) = q
    BY AskedIsWritten
  <1>7. \A n : Seen(of(n), [op |-> "billing"]) = of(n)
    BY DEF Seen
  <1>8. a.status = 200 /\ a.data = d
    BY <1>5
  <1>9. ContestantPage(q) = [a EXCEPT !.data = [n \in DOMAIN d |-> Yen(Seen(of(n), [op |-> "billing"]))]]
    <2> HIDE DEF d
    <2> QED
      BY <1>6, <1>8 DEF ContestantPage
  <1>10. [n \in DOMAIN d |-> Yen(Seen(of(n), [op |-> "billing"]))] = d
    <2> DEFINE seen(n) == Seen(of(n), [op |-> "billing"])
    <2>1. \A n : seen(n) = of(n)
      BY <1>7
    <2> HIDE DEF seen, of, page
    <2>2. [n \in DOMAIN d |-> Yen(seen(n))] = d
      BY <2>1
    <2> QED
      BY <2>2 DEF seen
  <1>11. ContestantPage(q) = a
    <2> HIDE DEF d, of
    <2>1. ContestantPage(q) = [a EXCEPT !.data = d]
      BY <1>9, <1>10
    <2> HIDE DEF a
    <2>2. a = [status |-> 200, data |-> d]
      BY <1>5
    <2> QED
      BY <2>1, <2>2
  <1>12. d = [n \in page |-> Total(initial.billing)]
    <2>1. \A n \in page : Yen(of(n)) = Total(initial.billing)
      BY <1>2, YenIs
    <2> HIDE DEF of, page
    <2> QED
      BY <2>1
  <1> QED
    BY <1>1, <1>8, <1>11, <1>12

LEMMA BillingKeeps ==
  ASSUME server = "as_written", ~expired, Typed, InitialRight, Works("billing"),
         at["billing"] \in 1..Length("billing"), "billing" \notin adding
  PROVE  /\ GoOn("billing") /\ Touches("billing") /\ UNCHANGED tenants
         /\ UNCHANGED <<settings, main, adding, group, errors, expired>>
  <1> DEFINE c == "billing"
             s == Now(c)
             P == {[before |-> id] : id \in (BillingLimit + 2)..InitialTenants}
  <1>1. s = Step("dashboard_before", "tenants_billing", AdminAs, P, 200, FALSE)
    <2> DEFINE no == FALSE
    <2>1. Script(c, choice)[1] = Step("dashboard_before", "tenants_billing", AdminAs, P, 200, no)
      BY BillingSteps, Zenon
    <2>2. Len(Script(c, choice)) = 1
      BY BillingSteps, Zenon
    <2>3. at[c] = 1
      <3>1. Length(c) = 1
        BY <2>2 DEF Length
      <3>2. at[c] \in 1..Length(c)
        OBVIOUS
      <3> HIDE DEF c
      <3> QED
        BY <3>1, <3>2
    <2> HIDE DEF P, no
    <2>4. s = Step("dashboard_before", "tenants_billing", AdminAs, P, 200, no)
      BY <2>1, <2>3 DEF Now
    <2> QED
      BY <2>4, Zenon DEF no
  <1>2. s.ask = {Request("tenants_billing", AdminAs, p) : p \in P} /\ s.status = 200 /\ s.name = "dashboard_before"
    BY <1>1 DEF Step
  <1>3. ASSUME NEW q \in s.ask
        PROVE  q.op = "tenants_billing" /\ q.as = AdminAs /\ q.before \in (BillingLimit + 2)..InitialTenants
    <2>1. PICK p \in P : q = Request("tenants_billing", AdminAs, p)
      BY <1>2
    <2>2. "before" \in DOMAIN p /\ p.before \in (BillingLimit + 2)..InitialTenants
      BY <2>1
    <2> QED
      BY <2>1, <2>2, RequestIs
  <1> HIDE DEF s, P
  <1>4. AsksPage(c)
    <2>1. ~Asks(c) /\ ~AddsTenant(c)
      BY <1>3 DEF Asks, AddsTenant, AdminApi, s
    <2>2. ~AddsFile(c) /\ ~Canceled(c)
      BY DEF AddsFile, Canceled
    <2> QED
      BY <2>1, <2>2 DEF Works
  <1>5. PICK q \in s.ask : Receive(c, s, q, ContestantPage(q)) /\ Remembers(c, ContestantPage(q))
    BY <1>4 DEF AsksPage, s
  <1>6. UNCHANGED <<settings, tenants, main, adding, group, expired>>
    BY <1>4 DEF AsksPage
  <1> DEFINE a == ContestantPage(q)
  <1>7. a.status = 200 /\ BillingFits(q, a.data, initial.billing)
    BY <1>3, PageIsAnswered DEF BillingFits
  <1> HIDE DEF a
  <1>8. Fits(c, s, q, a, memory[c], initial.billing)
    BY <1>2, <1>7 DEF Fits
  <1>9. GoOn(c) /\ UNCHANGED errors
    BY <1>5, <1>8 DEF Receive, a
  <1>10. UNCHANGED memory
    BY <1>2, <1>5 DEF Remembers, Remembered, s, a
  <1>11. OnlyAt(c, at, at') /\ OnlyAt(c, memory, memory')
    <2>1. c \in Check
      BY DEF Check, PrepareCheck
    <2> QED
      BY <1>9, <1>10, <2>1, GoOnTouches, SameTouches DEF Typed
  <1>12. Touches(c)
    BY <1>6, <1>11 DEF Touches, TouchesOnly
  <1> QED
    BY <1>6, <1>9, <1>12

-----------------------------------------------------------------------------
(* The readers and the upload at once *)

(* What they find and leave: the rows of the first upload. *)
Racing ==
    /\ server = "as_written" /\ ~expired /\ ~failed /\ Typed /\ Grounds("allAPI") /\ InGroup
RacedTable(V) == With(PlayerNum, {DisqualifiedPlayer}, Open(AllApiRows, V))

LEMMA RaceBegins ==
  ASSUME Racing
  PROVE  /\ at["allAPI"] = 6 /\ memory["allAPI"] = PlayerNum - 1 /\ "allAPI" \notin adding
         /\ tAll \in DOMAIN tenants /\ tAll \in Known
         /\ TenantOf(initial.tenant, tenants, tAll) = tenants[tAll] /\ tenants[tAll] \in TenantSet
         /\ \E V : V \in {{}, {1}} /\ tenants[tAll] = RacedTable(V)
  <1>1. at["allAPI"] = 6
    BY AllApiSteps DEF Racing, InGroup
  <1>2. AddStep("allAPI") = 0 /\ Ground("allAPI") = tAll /\ "allAPI" \notin Adders
    BY GroundIs DEF AddStep, Adders
  <1>3. /\ tAll \in DOMAIN tenants /\ tenants[tAll] \in TenantSet /\ "allAPI" \notin adding
        /\ TableIs("allAPI", tenants[tAll], 6, memory["allAPI"])
    BY <1>1, <1>2 DEF Racing, Grounds
  <1>4. AllApiTable(tenants[tAll], 6) /\ memory["allAPI"] = PlayerNum - 1
    BY <1>3 DEF TableIs
  <1>5. tenants[tAll] \in {RacedTable({}), RacedTable({1})}
    BY <1>4 DEF AllApiTable, RacedTable, AllApiRows
  <1>6. TenantOf(initial.tenant, tenants, tAll) = tenants[tAll] /\ tAll \in Known
    BY <1>3 DEF TenantOf, Known
  <1> QED
    BY <1>1, <1>3, <1>4, <1>5, <1>6

(* A request of theirs is answered from the table. *)
LEMMA RaceAnswer ==
  ASSUME Racing, NEW q, Proper(q, tAll)
  PROVE  Contestant(q) = Answer(tenants[tAll], q, Known)
  <1>1. TenantOf(initial.tenant, tenants, tAll) = tenants[tAll] /\ tenants[tAll] \in TenantSet
    BY RaceBegins
  <1>2. q.as.tenant = tAll /\ HasParameters(q, Lines, Nat) /\ (q.op = "score" => [q EXCEPT !.rows = q.rows] = q)
    BY DEF Proper
  <1>3. server = "as_written"
    BY DEF Racing
  <1>4. Contestant(q) = Answer(TenantOf(initial.tenant, tenants, q.as.tenant), q, InitialId \cup DOMAIN tenants)
    BY <1>1, <1>2, <1>3, AsWrittenServer
  <1> QED
    BY <1>1, <1>2, <1>4 DEF Known

LEMMA ReaderAtOnce ==
  ASSUME Racing, NEW V, V \in {{}, {1}}, tenants[tAll] = RacedTable(V), NEW q \in AtOnce.ask
  PROVE  Contestant(q) = Done(RacedTable({1}), PageOf(AllApiRows, 0))
  <1> DEFINE p == Of(1)
             r == 1
             D == {DisqualifiedPlayer}
             rows == AllApiRows
             q0 == Request("ranking", As("player", tAll, r), p)
  <1>1. Kept(rows, V) /\ tAll # Admin /\ Reader(r, PlayerNum, D) /\ r \in Nat
    BY AllApiFile, AllApiPlayers
  <1>2. IsReading(p) /\ p.after = 0
    BY DEF IsReading, Of
  <1>3. q = q0
    <2>1. AtOnce.ask = {q0}
      BY ShouldIs DEF AtOnce
    <2> QED
      BY <2>1
  <1>4. tAll \in Known
    BY RaceBegins
  <1>5. V \cup {r} = {1}
    OBVIOUS
  <1> HIDE DEF p, r, D, rows
  <1>6. Proper(q0, tAll)
    BY <1>1, <1>2, <1>4, AskRankingWith
  <1>7. Answer(With(PlayerNum, D, Open(rows, V)), q0, Known)
          = Done(With(PlayerNum, D, Open(rows, V \cup {r})), PageOf(rows, p.after))
    BY <1>1, <1>2, <1>4, AskRankingWith
  <1>8. Contestant(q0) = Answer(tenants[tAll], q0, Known)
    BY <1>6, RaceAnswer
  <1>9. tenants[tAll] = With(PlayerNum, D, Open(rows, V)) /\ RacedTable({1}) = With(PlayerNum, D, Open(rows, V \cup {r}))
    BY <1>5 DEF RacedTable, D, rows
  <1> HIDE DEF q0
  <1> QED
    BY <1>2, <1>3, <1>7, <1>8, <1>9 DEF rows

LEMMA UploadAtOnce ==
  ASSUME Racing, NEW V, V \in {{}, {1}}, tenants[tAll] = RacedTable(V), NEW q \in AllApiUpload.ask
  PROVE  Contestant(q) = Done(RacedTable(V), PlayerNum - 1)
  <1> DEFINE D == {DisqualifiedPlayer}
             rows == AllApiRows
             m == PlayerNum - 1
             q0 == Request("score", OrganizerOf(tAll), File(rows))
  <1>1. Kept(rows, V) /\ tAll # Admin /\ Sent(rows, PlayerNum, m)
    BY AllApiFile, AllApiPlayers
  <1>2. q = q0
    <2>1. AllApiUpload.ask = {q0}
      BY AllApiFile, MustIs
    <2> QED
      BY <2>1
  <1>3. tAll \in Known
    BY RaceBegins
  <1> HIDE DEF D, rows, m
  <1>4. Proper(q0, tAll) /\ Answer(With(PlayerNum, D, Open(rows, V)), q0, Known) = Done(With(PlayerNum, D, Open(rows, V)), m)
    BY <1>1, <1>3, AskScoreWith
  <1>5. Contestant(q0) = Answer(tenants[tAll], q0, Known)
    BY <1>4, RaceAnswer
  <1>6. tenants[tAll] = With(PlayerNum, D, Open(rows, V)) /\ RacedTable(V) = With(PlayerNum, D, Open(rows, V))
    BY DEF RacedTable, D, rows
  <1> HIDE DEF q0
  <1> QED
    BY <1>2, <1>4, <1>5, <1>6 DEF m

LEMMA RacedTableIs ==
  ASSUME NEW V, V \in {{}, {1}}
  PROVE  RacedTable(V) \in TenantSet /\ AllApiTable(RacedTable(V), 6) /\ AllApiTable(RacedTable(V), 7)
  <1>1. RacedTable(V) \in TenantSet
    <2> DEFINE c0 == <<>>
               D == {DisqualifiedPlayer}
               k == Open(AllApiRows, V)
    <2>1. c0 \in Seq(CompetitionSet) /\ D \in SUBSET Nat
      BY Ground1
    <2>2. k \in CompetitionSet
      <3>1. Kept(AllApiRows, V)
        BY AllApiFile
      <3> QED
        BY <3>1, OpenFields DEF Kept
    <2>3. PlayerNum \in Nat /\ RacedTable(V) = Holding(PlayerNum, D, Append(c0, k))
      BY Ground1 DEF RacedTable, With
    <2> HIDE DEF c0, D, k
    <2>4. Append(c0, k) \in Seq(CompetitionSet)
      BY <2>1, <2>2, LastIs
    <2> QED
      BY <2>1, <2>3, <2>4, HoldingIs
  <1>2. AllApiTable(RacedTable(V), 6) /\ AllApiTable(RacedTable(V), 7)
    BY DEF AllApiTable, RacedTable, AllApiRows
  <1> QED
    BY <1>1, <1>2

LEMMA RaceLeaves ==
  ASSUME Racing, NEW V, V \in {{}, {1}}, tenants' = [tenants EXCEPT ![tAll] = RacedTable(V)],
         UNCHANGED <<at, memory, adding>>
  PROVE  Touches("allAPI") /\ Grounds("allAPI")'
  <1> DEFINE c == "allAPI"
             u == RacedTable(V)
  <1>1. /\ at[c] = 6 /\ memory[c] = PlayerNum - 1 /\ c \notin adding /\ tAll \in DOMAIN tenants
        /\ AddStep(c) = 0 /\ Ground(c) = tAll /\ Typed
    BY RaceBegins, GroundIs DEF AddStep, Racing
  <1>2. u \in TenantSet /\ AllApiTable(u, 6)
    BY RacedTableIs
  <1> HIDE DEF u
  <1>3. DOMAIN tenants' = DOMAIN tenants /\ tenants'[tAll] = u
        /\ \A n \in DOMAIN tenants : n # tAll => tenants'[n] = tenants[n]
    BY <1>1 DEF u
  <1>4. OnlyAt(c, at, at') /\ OnlyAt(c, memory, memory')
    BY <1>1, SameTouches DEF Typed
  <1>5. Touches(c)
    BY <1>1, <1>3, <1>4 DEF Touches, TouchesOnly
  <1>6. TableIs(c, tenants'[tAll], at'[c], memory'[c])
    BY <1>1, <1>2, <1>3 DEF TableIs
  <1>7. TableIs(c, tenants[tAll], at[c], memory[c])' <=> TableIs(c, tenants'[tAll], at'[c], memory'[c])
    BY DEF TableIs, AllApiTable, RankingTable, BadRequestTable, InvalidJwtTable
  <1>8. TableIs(c, tenants[tAll], at[c], memory[c])'
    BY <1>6, <1>7
  <1>9. c \notin adding' /\ at'[c] > AddStep(c) /\ ~(at'[c] <= AddStep(c))
        /\ tAll \in DOMAIN tenants' /\ tenants'[tAll] \in TenantSet
    BY <1>1, <1>2, <1>3
  <1>10. Grounds(c)'
    BY <1>1, <1>8, <1>9 DEF Grounds
  <1> QED
    BY <1>5, <1>10

LEMMA SameTable ==
  ASSUME Racing, UNCHANGED <<tenants, at, memory, adding>>
  PROVE  Touches("allAPI") /\ Grounds("allAPI")'
  <1>1. PICK V : V \in {{}, {1}} /\ tenants[tAll] = RacedTable(V)
    BY RaceBegins
  <1>2. tAll \in DOMAIN tenants
    BY RaceBegins
  <1>3. Touches("allAPI")
    BY SameTouches DEF Racing, Typed, Touches, TouchesOnly
  <1>4. TableIs("allAPI", tenants[tAll], at["allAPI"], memory["allAPI"])'
          <=> TableIs("allAPI", tenants[tAll], at["allAPI"], memory["allAPI"])
    BY DEF TableIs, AllApiTable, RankingTable, BadRequestTable, InvalidJwtTable
  <1>5. Ground("allAPI") = tAll
    BY GroundIs
  <1>6. Grounds("allAPI")'
    BY <1>4, <1>5 DEF Racing, Grounds
  <1> QED
    BY <1>3, <1>6

(* What is left of the race after one of its steps. *)
Raced ==
    /\ Touches("allAPI") /\ Grounds("allAPI")'
    /\ ~failed' /\ UNCHANGED <<settings, main, at, result, errors, expired>>

LEMMA RankerRaces ==
  ASSUME Racing, NEW r \in Ranker, Reads(r)
  PROVE  Raced
  <1>1. CASE RankerPolls(r)
    <2>1. UNCHANGED <<tenants, at, memory, adding, settings, main, result, errors, expired, failed>>
      BY <1>1 DEF RankerPolls, groupless
    <2>2. Touches("allAPI") /\ Grounds("allAPI")'
      BY <2>1, SameTable
    <2> QED
      BY <2>1, <2>2 DEF Raced, Racing
  <1>2. CASE RankerAsks(r)
    <2>1. PICK V : V \in {{}, {1}} /\ tenants[tAll] = RacedTable(V)
      BY RaceBegins
    <2> DEFINE d == PageOf(AllApiRows, 0)
               u == RacedTable({1})
               a == Done(u, d).answer
    <2>2. \A q \in AtOnce.ask : Contestant(q).tenant = u /\ Contestant(q).answer = a
      BY <2>1, ReaderAtOnce, AnswerIs
    <2>3. a.status = 200 /\ a.data = d
      BY AnswerIs
    <2>4. AtOnce.status = 200 /\ AtOnce.name = "at_once"
      BY ShouldIs DEF AtOnce
    <2>5. AllApiFits("at_once", d, memory["allAPI"], initial.billing)
      BY RaceBegins, AllApiFitsRead
    <2> HIDE DEF a, d, u
    <2>6. \A q : Fits("allAPI", AtOnce, q, a, memory["allAPI"], initial.billing)
      BY <2>3, <2>4, <2>5 DEF Fits
    <2>7. ~expired /\ ~failed
      BY DEF Racing
    <2>8. /\ tenants' = [tenants EXCEPT ![tAll] = u] /\ errors' = errors /\ ~failed'
          /\ UNCHANGED <<at, memory, adding, settings, main, result, expired>>
      <3>1. PICK q \in AtOnce.ask :
              LET c == Contestant(q)
                  canceled == expired \/ failed
                  ok == ~canceled /\ Fits("allAPI", AtOnce, q, c.answer, memory["allAPI"], initial.billing)
              IN  /\ tenants' = IF canceled THEN tenants ELSE [tenants EXCEPT ![tAll] = c.tenant]
                  /\ errors' \in IF ok THEN {errors} ELSE IF canceled THEN CutOff("allAPI")
                             ELSE {errors \cup {<<"allAPI", "at_once">>}}
                  /\ failed' = (failed \/ (~ok /\ strict))
        BY <1>2 DEF RankerAsks
      <3>2. Contestant(q).tenant = u /\ Contestant(q).answer = a
        BY <2>2
      <3>3. Fits("allAPI", AtOnce, q, Contestant(q).answer, memory["allAPI"], initial.billing)
        BY <2>6, <3>2
      <3>4. UNCHANGED <<at, memory, adding, settings, main, result, expired>>
        BY <1>2 DEF RankerAsks, groupless
      <3> QED
        BY <2>7, <3>1, <3>2, <3>3, <3>4
    <2>9. Touches("allAPI") /\ Grounds("allAPI")'
      <3> DEFINE W == {1}
      <3>1. W \in {{}, {1}} /\ u = RacedTable(W)
        BY DEF u
      <3> HIDE DEF W
      <3> QED
        BY <2>8, <3>1, RaceLeaves
    <2> QED
      BY <2>8, <2>9 DEF Raced
  <1> QED
    BY <1>1, <1>2 DEF Reads

LEMMA UploaderRaces ==
  ASSUME Racing, Uploads
  PROVE  Raced
  <1>1. UploaderAsks
    BY DEF Uploads, UploaderHalf, Racing
  <1>2. PICK V : V \in {{}, {1}} /\ tenants[tAll] = RacedTable(V)
    BY RaceBegins
  <1> DEFINE m == PlayerNum - 1
             u == RacedTable(V)
             a == Done(u, m).answer
  <1>3. \A q \in AllApiUpload.ask : Contestant(q).tenant = u /\ Contestant(q).answer = a
    BY <1>2, UploadAtOnce, AnswerIs
  <1>4. a.status = 200
    BY AnswerIs
  <1> HIDE DEF a, m, u
  <1>5. ~expired /\ ~failed
    BY DEF Racing
  <1>6. /\ tenants' = [tenants EXCEPT ![tAll] = u] /\ errors' = errors /\ ~failed'
        /\ UNCHANGED <<at, memory, adding, settings, main, result, expired>>
    <2>1. PICK q \in AllApiUpload.ask :
              LET c == Contestant(q)
                  canceled == expired \/ failed
                  ok == ~canceled /\ c.answer.status = 200
              IN  /\ tenants' = IF canceled THEN tenants ELSE [tenants EXCEPT ![tAll] = c.tenant]
                  /\ errors' \in IF ok THEN {errors} ELSE IF canceled THEN CutOff("allAPI")
                             ELSE {errors \cup {<<"allAPI", "at_once">>}}
                  /\ closed' = ok /\ failed' = (failed \/ ~ok)
      BY <1>1 DEF UploaderAsks
    <2>2. Contestant(q).tenant = u /\ Contestant(q).answer = a
      BY <1>3
    <2>3. UNCHANGED <<at, memory, adding, settings, main, result, expired>>
      BY <1>1 DEF UploaderAsks, groupless
    <2> QED
      BY <1>4, <1>5, <2>1, <2>2, <2>3
  <1>7. Touches("allAPI") /\ Grounds("allAPI")'
    BY <1>2, <1>6, RaceLeaves DEF u
  <1> QED
    BY <1>6, <1>7 DEF Raced

(* The race is over: the check goes on with the table it was about. *)
LEMMA RaceEnds ==
  ASSUME Racing, GroupEnds
  PROVE  Fine("allAPI")
  <1> DEFINE c == "allAPI"
  <1>1. GoOn(c) /\ UNCHANGED <<settings, tenants, main, adding, memory, group, errors, expired>>
    BY DEF GroupEnds, Racing
  <1>2. PICK V : V \in {{}, {1}} /\ tenants[tAll] = RacedTable(V)
    BY RaceBegins
  <1>3. /\ at[c] = 6 /\ memory[c] = PlayerNum - 1 /\ c \notin adding /\ tAll \in DOMAIN tenants
        /\ AddStep(c) = 0 /\ Ground(c) = tAll /\ Typed /\ tenants[tAll] \in TenantSet /\ c \in Check
    BY RaceBegins, GroundIs DEF AddStep, Racing, Check, PrepareCheck
  <1>4. OnlyAt(c, at, at') /\ at'[c] = 7
    BY <1>1, <1>3, GoOnTouches
  <1>5. OnlyAt(c, memory, memory')
    BY <1>1, <1>3, SameTouches DEF Typed
  <1>6. Touches(c)
    BY <1>1, <1>4, <1>5 DEF Touches, TouchesOnly
  <1>7. TableIs(c, tenants'[tAll], at'[c], memory'[c])
    <2>1. AllApiTable(tenants[tAll], 7)
      BY <1>2, RacedTableIs
    <2> QED
      BY <1>1, <1>3, <1>4, <2>1 DEF TableIs
  <1>8. TableIs(c, tenants[tAll], at[c], memory[c])' <=> TableIs(c, tenants'[tAll], at'[c], memory'[c])
    BY DEF TableIs, AllApiTable, RankingTable, BadRequestTable, InvalidJwtTable
  <1>9. TableIs(c, tenants[tAll], at[c], memory[c])'
    BY <1>7, <1>8
  <1>10. c \notin adding' /\ at'[c] > AddStep(c) /\ ~(at'[c] <= AddStep(c))
        /\ tAll \in DOMAIN tenants' /\ tenants'[tAll] \in TenantSet
    BY <1>1, <1>3, <1>4
  <1>11. Grounds(c)'
    BY <1>3, <1>9, <1>10 DEF Grounds
  <1> QED
    BY <1>1, <1>6, <1>11 DEF Fine, MovesOn

-----------------------------------------------------------------------------
(* The inductive invariant of the checks of a server that is as written *)

Sober == server = "as_written" /\ started \subseteq PrepareCheck /\ ~expired

InScripts == \A c \in PrepareCheck : result[c] = "running" => at[c] \in 1..Length(c)
OnlyStarted == \A c \in Check : c \notin started => result[c] # "running"
Standing ==
    /\ errors \subseteq {<<"allAPI", "dashboard">>} /\ ~failed
    /\ Typed /\ InitialRight /\ adding \subseteq Adders /\ InScripts /\ OnlyStarted
    /\ main = "start" => DOMAIN tenants = {} /\ at = [c \in Check |-> 1] /\ adding = {}
    /\ main # "start" => \A c \in Tenanted \cap started : Grounds(c)
CorrectInv == Sober => Standing

(* A step of one check, of whatever kind. *)
Passing(c) ==
    /\ Touches(c) /\ UNCHANGED <<settings, main, expired>>
    /\ MovesOn(c) \/ Fail(c)
    /\ errors' \subseteq errors \cup {<<"allAPI", "dashboard">>} /\ ~failed'
    /\ c \in adding' => c \in Adders

LEMMA OutcomePasses ==
  ASSUME NEW c, Outcome(c), ~failed
  PROVE  Passing(c) /\ Grounds(c)'
  BY DEF Outcome, Passing, Grounds, group

LEMMA RacedPasses ==
  ASSUME Raced
  PROVE  Passing("allAPI") /\ Grounds("allAPI")'
  BY DEF Raced, Passing, Grounds, MovesOn

LEMMA LengthsAre ==
  ASSUME NEW c \in PrepareCheck
  PROVE  Length(c) \in Nat \ {0}
  <1>1. c \in {"allAPI", "ranking", "badRequest", "invalidJWT", "billing"}
    BY DEF PrepareCheck
  <1>2. Length("allAPI") = 16
    BY AllApiSteps DEF Length
  <1>3. Length("ranking") = 12
    BY RankingSteps DEF Length
  <1>4. Length("badRequest") = 17
    BY BadRequestSteps DEF Length
  <1>5. Length("invalidJWT") = 6
    BY InvalidJwtSteps DEF Length
  <1>6. Length("billing") = 1
    BY BillingSteps, Zenon DEF Length
  <1> QED
    BY <1>1, <1>2, <1>3, <1>4, <1>5, <1>6

LEMMA StepMoves ==
  ASSUME IInv, NEW c \in Check, MovesOn(c) \/ Fail(c), UNCHANGED choice
  PROVE  /\ at' \in [Check -> Int] /\ \A d \in Check : d # c => at'[d] = at[d] /\ result'[d] = result[d]
         /\ \/ at'[c] = at[c] /\ result'[c] \in {result[c], "error"}
            \/ at'[c] = at[c] + 1 /\ result'[c] = IF at[c] = Length(c) THEN "nil" ELSE result[c]
  <1>1. CASE GoOn(c)
    BY <1>1 DEF GoOn, IInv, Length
  <1>2. CASE UNCHANGED <<at, result>>
    BY <1>2 DEF IInv
  <1>3. CASE Fail(c)
    BY <1>3 DEF Fail, IInv
  <1> QED
    BY <1>1, <1>2, <1>3 DEF MovesOn

LEMMA PassingStands ==
  ASSUME IInv, Sober, Standing, main = "checks", NEW c \in PrepareCheck, Passing(c),
         result[c] = "running", c \in Tenanted => Grounds(c)',
         c \notin Tenanted => UNCHANGED tenants
  PROVE  Standing'
  <1>1. UNCHANGED <<server, initial, choice, started, main>> /\ Touches(c) /\ c \in Check
    BY DEF Passing, settings, Check
  <1>2. /\ at' \in [Check -> Int] /\ \A d \in Check : d # c => at'[d] = at[d] /\ result'[d] = result[d]
        /\ \/ at'[c] = at[c] /\ result'[c] \in {result[c], "error"}
           \/ at'[c] = at[c] + 1 /\ result'[c] = IF at[c] = Length(c) THEN "nil" ELSE result[c]
    BY <1>1, StepMoves DEF Passing
  <1>3. errors' \subseteq {<<"allAPI", "dashboard">>} /\ ~failed'
    BY DEF Standing, Passing
  <1>4. Typed'
    <2>1. memory' \in [Check -> {memory'[d] : d \in Check}]
      <3>1. PICK m : memory' = [memory EXCEPT ![c] = m]
        BY <1>1 DEF Touches, OnlyAt
      <3>2. DOMAIN memory' = Check /\ memory' = [d \in Check |-> memory'[d]]
        BY <3>1 DEF Standing, Typed
      <3> QED
        BY <3>2
    <2>2. DOMAIN tenants' \subseteq NewTenant
      <3>1. CASE c \in Tenanted
        BY <1>1, <3>1, TenantedIs DEF Touches, TouchesOnly, Standing, Typed
      <3>2. CASE c \notin Tenanted
        BY <3>2 DEF Standing, Typed
      <3> QED
        BY <3>1, <3>2
    <2> QED
      BY <1>2, <2>1, <2>2 DEF Typed
  <1>5. InitialRight'
    BY <1>1 DEF Standing, InitialRight
  <1>6. adding' \subseteq Adders
    BY <1>1 DEF Standing, Passing, Touches
  <1>7. InScripts'
    <2> SUFFICES ASSUME NEW d \in PrepareCheck, result'[d] = "running" PROVE at'[d] \in 1..Length(d)'
      BY DEF InScripts
    <2>1. Length(d)' = Length(d) /\ Length(d) \in Nat \ {0} /\ d \in Check
      BY <1>1, LengthsAre DEF Length, Check
    <2>2. CASE d # c
      BY <1>2, <2>1, <2>2 DEF Standing, InScripts
    <2>3. CASE d = c
      <3>1. at[c] \in 1..Length(c)
        BY DEF Standing, InScripts
      <3> QED
        BY <1>2, <2>1, <2>3, <3>1
    <2> QED
      BY <2>2, <2>3
  <1>8. OnlyStarted'
    BY <1>1, <1>2 DEF Standing, OnlyStarted
  <1>9. \A d \in (Tenanted \cap started)' : Grounds(d)'
    <2> SUFFICES ASSUME NEW d \in Tenanted, d \in started PROVE Grounds(d)'
      BY <1>1
    <2>1. CASE d = c
      BY <2>1
    <2>2. CASE d # c
      BY <1>1, <2>2, OthersKeep DEF Standing
    <2> QED
      BY <2>1, <2>2
  <1> QED
    BY <1>1, <1>3, <1>4, <1>5, <1>6, <1>7, <1>8, <1>9 DEF Standing

LEMMA WorksPasses ==
  ASSUME IInv, Sober, Standing, NEW c \in Check, Works(c)
  PROVE  Standing'
  <1>1. Running(c) /\ c \in started /\ c \in PrepareCheck /\ main = "checks"
    <2>1. Running(c)
      BY DEF Works, Asks, AsksPage, AddsTenant, AddsFile, Canceled, Sober
    <2>2. result[c] = "running" /\ main = "checks"
      BY <2>1 DEF Running
    <2>3. c \in started
      BY <2>2 DEF Standing, OnlyStarted
    <2> QED
      BY <2>1, <2>2, <2>3 DEF Sober
  <1>2. result[c] = "running" /\ at[c] \in 1..Length(c)
    BY <1>1 DEF Running, Standing, InScripts
  <1>3. c \in Tenanted => Grounds(c)
    BY <1>1 DEF Standing
  <1>4. c \in Tenanted => Meets(c)
    BY <1>3 DEF Meets, Sober, Standing
  <1>5. ~failed /\ InitialRight /\ Typed /\ server = "as_written" /\ ~expired /\ adding \subseteq Adders
    BY DEF Standing, Sober
  <1>6. CASE c = "billing"
    <2>1. c \notin adding /\ c \notin Tenanted
      BY <1>5, <1>6 DEF Adders, Tenanted
    <2>2. /\ GoOn(c) /\ Touches(c) /\ UNCHANGED tenants
          /\ UNCHANGED <<settings, main, adding, group, errors, expired>>
      BY <1>2, <1>5, <1>6, <2>1, BillingKeeps
    <2>3. Passing(c)
      BY <1>5, <2>1, <2>2 DEF Passing, MovesOn, group
    <2> QED
      BY <1>1, <1>2, <2>1, <2>2, <2>3, PassingStands
  <1>7. CASE c \in Tenanted
    <2>1. Outcome(c)
      <3>1. CASE c = "ranking"
        BY <1>2, <1>4, <1>7, <3>1, RankingKeeps, FineIsOutcome
      <3>2. CASE c = "badRequest"
        BY <1>2, <1>4, <1>7, <3>2, BadRequestKeeps, FineIsOutcome
      <3>3. CASE c = "invalidJWT"
        BY <1>2, <1>4, <1>7, <3>3, InvalidJwtKeeps, FineIsOutcome
      <3>4. CASE c = "allAPI"
        <4>1. at[c] \in 1..16
          <5>1. Length("allAPI") = 16
            BY AllApiSteps DEF Length
          <5> QED
            BY <1>2, <3>4, <5>1
        <4>2. at[c] # 6
          <5> SUFFICES ASSUME at["allAPI"] = 6 PROVE FALSE
            BY <3>4
          <5>1. InTheGroup(c)
            BY <3>4, AllApiSteps DEF InTheGroup
          <5>2. AsksPage(c) \/ AddsTenant(c) \/ AddsFile(c)
            BY <1>5, <5>1 DEF Works, Asks, Canceled
          <5>3. \A q \in Now(c).ask : q.op = "ranking"
            <6>1. Now(c) = AtOnce
              BY <3>4, AllApiSteps DEF Now
            <6>2. AtOnce.ask = {Request("ranking", As("player", tAll, 1), Of(1))}
              BY ShouldIs DEF AtOnce
            <6>3. Request("ranking", As("player", tAll, 1), Of(1)).op = "ranking"
              BY RequestIs
            <6> QED
              BY <6>1, <6>2, <6>3
          <5>4. c \notin adding
            BY <1>5, <3>4 DEF Adders
          <5> QED
            BY <5>2, <5>3, <5>4 DEF AsksPage, AddsTenant, AddsFile
        <4>3. CASE at[c] \in 1..14
          BY <1>4, <1>7, <3>4, <4>2, <4>3, AllApiKeeps, FineIsOutcome
        <4>4. CASE at[c] = 15
          BY <1>4, <1>7, <3>4, <4>4, DashboardKeeps
        <4>5. CASE at[c] = 16
          BY <1>4, <1>5, <1>7, <3>4, <4>5, InitialBillsKeep, FineIsOutcome
        <4> QED
          BY <4>1, <4>3, <4>4, <4>5
      <3> QED
        BY <1>7, <3>1, <3>2, <3>3, <3>4 DEF Tenanted, PrepareCheck
    <2>2. Passing(c) /\ Grounds(c)'
      BY <1>5, <2>1, OutcomePasses
    <2> QED
      BY <1>1, <1>2, <1>7, <2>2, PassingStands
  <1> QED
    BY <1>1, <1>6, <1>7 DEF Tenanted

LEMMA GroupPasses ==
  ASSUME IInv, Sober, Standing, Uploads \/ (\E r \in Ranker : Reads(r)) \/ GroupEnds
  PROVE  Standing'
  <1> DEFINE c == "allAPI"
  <1>1. InGroup
    BY DEF Uploads, UploaderHalf, UploaderAsks, Reads, RankerPolls, RankerAsks, GroupEnds
  <1>2. main = "checks" /\ result[c] = "running" /\ c \in PrepareCheck /\ c \in Check
    BY <1>1 DEF InGroup, Running, Check, PrepareCheck
  <1>3. c \in started /\ c \in Tenanted
    BY <1>2 DEF Standing, OnlyStarted, Tenanted
  <1>4. Grounds(c)
    BY <1>2, <1>3 DEF Standing
  <1>5. Racing
    BY <1>1, <1>4 DEF Racing, Sober, Standing
  <1>6. Passing(c) /\ Grounds(c)'
    <2>1. CASE Uploads
      BY <1>5, <2>1, UploaderRaces, RacedPasses
    <2>2. CASE \E r \in Ranker : Reads(r)
      BY <1>5, <2>2, RankerRaces, RacedPasses
    <2>3. CASE GroupEnds
      <3>1. Fine(c) /\ ~failed
        BY <1>5, <2>3, RaceEnds DEF Racing
      <3> QED
        BY <3>1, FineIsOutcome, OutcomePasses
    <2> QED
      BY <2>1, <2>2, <2>3
  <1> QED
    BY <1>2, <1>3, <1>6, PassingStands

LEMMA SameStands ==
  ASSUME Standing, UNCHANGED <<server, initial, choice, started, at, result, adding, memory, tenants, errors, failed>>,
         main # "start", main' # "start"
  PROVE  Standing'
  <1>1. Typed' /\ InitialRight' /\ OnlyStarted'
    BY DEF Standing, Typed, InitialRight, OnlyStarted
  <1>2. InScripts'
    BY DEF Standing, InScripts, Length
  <1>3. ASSUME NEW c \in Tenanted, c \in started PROVE Grounds(c)'
    <2>1. TableIs(c, tenants[Ground(c)], at[c], memory[c])' <=> TableIs(c, tenants[Ground(c)], at[c], memory[c])
      BY DEF TableIs, AllApiTable, RankingTable, BadRequestTable, InvalidJwtTable
    <2>2. Grounds(c)
      BY <1>3 DEF Standing
    <2> QED
      BY <2>1, <2>2 DEF Grounds
  <1>4. errors' \subseteq {<<"allAPI", "dashboard">>} /\ ~failed' /\ adding' \subseteq Adders
    BY DEF Standing
  <1>5. \A c \in (Tenanted \cap started)' : Grounds(c)'
    BY <1>3
  <1> QED
    BY <1>1, <1>2, <1>4, <1>5 DEF Standing

LEMMA AllApiTableIs ==
  ASSUME NEW t, t = Holding(0, {}, <<>>), NEW m
  PROVE  TableIs("allAPI", t, 1, m)
  <1>1. AllApiTable(t, 1)
    BY DEF AllApiTable
  <1> QED
    BY <1>1 DEF TableIs

(* The tenant of the first check is created before any of them. *)
LEMMA CreateStands ==
  ASSUME Sober, Standing, CreateTenant
  PROVE  Standing'
  <1>1. /\ main = "start" /\ main' = "checks" /\ tenants' = Put(tenants, tAll, EmptyTenant)
        /\ UNCHANGED <<server, initial, choice, started, at, result, adding, memory, errors, failed>>
    BY DEF CreateTenant, Sober, settings, group
  <1>2. DOMAIN tenants = {} /\ at = [c \in Check |-> 1] /\ adding = {}
    BY <1>1 DEF Standing
  <1>3. DOMAIN tenants' = {tAll} /\ tenants'[tAll] = EmptyTenant
    BY <1>1, <1>2 DEF Put
  <1>4. Typed'
    <2>1. DOMAIN tenants' \subseteq NewTenant
      BY <1>3, TenantsDiffer
    <2> QED
      BY <1>1, <2>1 DEF Standing, Typed
  <1>5. InitialRight' /\ OnlyStarted'
    BY <1>1 DEF Standing, InitialRight, OnlyStarted
  <1>6. InScripts'
    BY <1>1 DEF Standing, InScripts, Length
  <1>7. ASSUME NEW c \in Tenanted PROVE Grounds(c)'
    <2>1. c \in {"allAPI", "ranking", "badRequest", "invalidJWT"} /\ c \in Check
      BY TenantedIs DEF Tenanted, PrepareCheck
    <2>2. at'[c] = 1 /\ c \notin adding'
      BY <1>1, <1>2, <2>1
    <2>3. CASE c = "allAPI"
      <3>1. Ground(c) = tAll /\ AddStep(c) = 0
        BY <2>3, GroundIs DEF AddStep
      <3>2. tenants'[tAll] = Holding(0, {}, <<>>) /\ tenants'[tAll] \in TenantSet
        BY <1>3, EmptyIs
      <3>3. TableIs(c, tenants'[tAll], at'[c], memory'[c])
        BY <2>2, <2>3, <3>2, AllApiTableIs
      <3>4. TableIs(c, tenants[tAll], at[c], memory[c])' <=> TableIs(c, tenants'[tAll], at'[c], memory'[c])
        BY DEF TableIs, AllApiTable, RankingTable, BadRequestTable, InvalidJwtTable
      <3>5. TableIs(c, tenants[tAll], at[c], memory[c])'
        BY <3>3, <3>4
      <3> QED
        BY <1>3, <2>2, <3>1, <3>2, <3>5 DEF Grounds
    <2>4. CASE c # "allAPI"
      <3>1. Ground(c) # tAll /\ AddStep(c) \in {1, 4}
        BY <2>1, <2>4, GroundIs, TenantsDiffer DEF AddStep
      <3>2. Ground(c) \notin DOMAIN tenants'
        BY <1>3, <3>1
      <3>3. ~(at'[c] > AddStep(c))
        BY <2>2, <3>1
      <3> QED
        BY <2>2, <3>2, <3>3 DEF Grounds
    <2> QED
      BY <2>3, <2>4
  <1>8. errors' \subseteq {<<"allAPI", "dashboard">>} /\ ~failed' /\ adding' \subseteq Adders
    BY <1>1 DEF Standing
  <1>9. \A c \in (Tenanted \cap started)' : Grounds(c)'
    BY <1>7
  <1> QED
    BY <1>1, <1>4, <1>5, <1>6, <1>8, <1>9 DEF Standing

LEMMA CorrectInductive ==
  IInv /\ CorrectInv /\ [Next]_vars => CorrectInv'
  <1> SUFFICES ASSUME IInv, CorrectInv, [Next]_vars, Sober' PROVE Standing'
    BY DEF CorrectInv
  <1>1. CASE UNCHANGED vars
    <2>1. Sober /\ Standing
      BY <1>1 DEF vars, settings, Sober, CorrectInv
    <2>2. CASE main # "start"
      BY <1>1, <2>1, <2>2, SameStands DEF vars, settings, group
    <2>3. CASE main = "start"
      <3>1. UNCHANGED <<server, initial, choice, started, at, result, adding, memory, tenants, errors, failed, main>>
        BY <1>1 DEF vars, settings, group
      <3>2. Typed' /\ InitialRight' /\ OnlyStarted'
        BY <2>1, <3>1 DEF Standing, Typed, InitialRight, OnlyStarted
      <3>3. InScripts'
        BY <2>1, <3>1 DEF Standing, InScripts, Length
      <3> QED
        BY <2>1, <2>3, <3>1, <3>2, <3>3 DEF Standing
    <2> QED
      BY <2>2, <2>3
  <1>2. CASE CreateTenant
    <2>1. Sober
      BY <1>2 DEF CreateTenant, Sober, settings
    <2> QED
      BY <1>2, <2>1, CreateStands DEF CorrectInv
  <1>3. CASE Conclude
    <2>1. Sober
      BY <1>3 DEF Conclude, Sober, settings
    <2>2. main # "start" /\ main' # "start"
      BY <1>3 DEF Conclude
    <2>3. UNCHANGED <<server, initial, choice, started, at, result, adding, memory, tenants, errors, failed>>
      BY <1>3 DEF Conclude, settings, group
    <2> QED
      BY <2>1, <2>2, <2>3, SameStands DEF CorrectInv
  <1>4. CASE Deadline
    BY <1>4 DEF Deadline, Sober
  <1>5. CASE \E c \in Check : Works(c)
    <2>1. PICK c \in Check : Works(c)
      BY <1>5
    <2>2. Sober
      BY <2>1 DEF Works, Asks, AsksPage, AddsTenant, AddsFile, Canceled, Sober, settings
    <2> QED
      BY <2>1, <2>2, WorksPasses DEF CorrectInv
  <1>6. CASE Uploads \/ (\E r \in Ranker : Reads(r)) \/ GroupEnds
    <2>1. Sober
      BY <1>6 DEF Uploads, UploaderHalf, UploaderAsks, Reads, RankerPolls, RankerAsks, GroupEnds, groupless, Sober, settings
    <2> QED
      BY <1>6, <2>1, GroupPasses DEF CorrectInv
  <1> QED
    BY <1>1, <1>2, <1>3, <1>4, <1>5, <1>6 DEF Next

(* Whatever the initial data, if the bills of its tenants are right. *)
LEMMA CorrectInitially ==
  ASSUME Init, InitialRight
  PROVE  CorrectInv
  <1> SUFFICES ASSUME Sober PROVE Standing
    BY DEF CorrectInv
  <1>1. /\ errors = {} /\ failed = FALSE /\ adding = {} /\ at = [c \in Check |-> 1]
        /\ memory = [c \in Check |-> 0] /\ tenants = [n \in {} |-> EmptyTenant]
        /\ result = [c \in Check |-> IF c \in started THEN "running" ELSE "nil"]
        /\ main = IF started \subseteq LoadCheck THEN "checks" ELSE "start"
    BY DEF Init
  <1>2. Typed
    <2>1. at \in [Check -> Int] /\ DOMAIN tenants = {}
      BY <1>1
    <2>2. memory \in [Check -> {memory[d] : d \in Check}]
      BY <1>1
    <2> QED
      BY <2>1, <2>2 DEF Typed
  <1>3. InScripts
    <2> SUFFICES ASSUME NEW c \in PrepareCheck PROVE at[c] \in 1..Length(c)
      BY DEF InScripts
    <2>1. Length(c) \in Nat \ {0} /\ at[c] = 1
      BY <1>1, LengthsAre DEF Check
    <2> QED
      BY <2>1
  <1>4. OnlyStarted
    BY <1>1 DEF OnlyStarted
  <1>5. main # "start" => started = {}
    <2>1. started \subseteq PrepareCheck
      BY DEF Sober
    <2>2. PrepareCheck \cap LoadCheck = {}
      BY DEF PrepareCheck, LoadCheck
    <2> QED
      BY <1>1, <2>1, <2>2
  <1>6. \A c \in Tenanted \cap started : main # "start" => Grounds(c)
    BY <1>5
  <1>7. DOMAIN tenants = {}
    BY <1>1
  <1> QED
    BY <1>1, <1>2, <1>3, <1>4, <1>6, <1>7 DEF Standing

-----------------------------------------------------------------------------
(* The initial data: what storeTenant and storeAdmin leave out                 *)

LEMMA AscendingIs ==
  ASSUME NEW S \in SUBSET Nat, IsFiniteSet(S)
  PROVE  /\ Cardinality(S) \in Nat /\ Ascending(S) \in [1..Cardinality(S) -> S]
         /\ \A i, j \in 1..Cardinality(S) : i < j => Ascending(S)[i] < Ascending(S)[j]
         /\ \A x \in S : \E k \in 1..Cardinality(S) : Ascending(S)[k] = x
  <1> DEFINE below == {p \in S \X S : p[1] < p[2]}
             n == Cardinality(S)
             f == Ascending(S)
  <1>1. \A x, y \in S : <<x, y>> \in below <=> x < y
    OBVIOUS
  <1>2. f = Ordered(S, below)
    BY DEF Ascending
  <1> HIDE DEF below, f
  <1>3. StrictTotal(S, below)
    BY <1>1 DEF StrictTotal
  <1>4. Enumerates(f, n, S, below)
    BY <1>2, <1>3, OrderedProperties
  <1> HIDE DEF n
  <1>5. /\ n \in Nat /\ f \in [1..n -> S]
        /\ \A i, j \in 1..n : i < j => <<f[i], f[j]>> \in below
        /\ \A x \in S : \E k \in 1..n : f[k] = x
    BY <1>4 DEF Enumerates
  <1>6. \A i, j \in 1..n : i < j => f[i] < f[j]
    BY <1>1, <1>5
  <1> QED
    BY <1>5, <1>6 DEF n, f

LEMMA CutsAre ==
  ASSUME NEW n \in Nat
  PROVE  \E m \in Nat :
            /\ Cuts(n) \in [1..m -> 0..(n - 1)]
            /\ \A i, j \in 1..m : i < j => Cuts(n)[i] < Cuts(n)[j]
            /\ \A j \in 1..(n - 1) : \E k \in 1..m : Cuts(n)[k] >= j
  <1> DEFINE C == {i \in 0..(n - 1) : (i > 0 /\ i % BatchSize = 0) \/ i = n - 1}
             m == Cardinality(C)
  <1>1. C \in SUBSET Nat /\ C \subseteq 0..(n - 1) /\ (n # 0 => n - 1 \in C)
    OBVIOUS
  <1>2. IsFiniteSet(0..(n - 1))
    BY FS_Interval
  <1>3. IsFiniteSet(C)
    BY <1>1, <1>2, FS_Subset
  <1>4. Cuts(n) = Ascending(C)
    BY DEF Cuts
  <1> HIDE DEF C
  <1>5. /\ m \in Nat /\ Ascending(C) \in [1..m -> C]
        /\ \A i, j \in 1..m : i < j => Ascending(C)[i] < Ascending(C)[j]
        /\ \A x \in C : \E k \in 1..m : Ascending(C)[k] = x
    BY <1>1, <1>3, AscendingIs
  <1> HIDE DEF m
  <1>6. \A j \in 1..(n - 1) : \E k \in 1..m : Ascending(C)[k] >= j
    <2> SUFFICES ASSUME NEW j \in 1..(n - 1) PROVE \E k \in 1..m : Ascending(C)[k] >= j
      OBVIOUS
    <2>1. PICK k \in 1..m : Ascending(C)[k] = n - 1
      BY <1>1, <1>5
    <2> QED
      BY <2>1
  <1>7. Ascending(C) \in [1..m -> 0..(n - 1)]
    BY <1>1, <1>5
  <1> QED
    BY <1>4, <1>5, <1>6, <1>7

(* Every row but the last is in a batch, and nothing else is. *)
LEMMA StoredIs ==
  ASSUME NEW S, NEW rows \in Seq(S)
  PROVE  /\ Stored(rows) \in Seq(S)
         /\ \A j \in 1..(Len(rows) - 1) : \E i \in 1..Len(Stored(rows)) : Stored(rows)[i] = rows[j]
  <1> DEFINE n == Len(rows)
             cuts == Cuts(n)
             from(k) == IF k = 1 THEN 0 ELSE cuts[k - 1]
             ss == Batches(rows)
             f == Stored(rows)
  <1>1. n \in Nat /\ \A i \in 1..n : rows[i] \in S
    BY LenProperties, ElementOfSeq
  <1>2. PICK m \in Nat : /\ cuts \in [1..m -> 0..(n - 1)]
                         /\ \A i, j \in 1..m : i < j => cuts[i] < cuts[j]
                         /\ \A j \in 1..(n - 1) : \E k \in 1..m : cuts[k] >= j
    <2> HIDE DEF n
    <2> QED
      BY <1>1, CutsAre
  <1>3. ss = [k \in 1..m |-> SubSeq(rows, from(k) + 1, cuts[k])]
    BY <1>2 DEF Batches
  <1> HIDE DEF cuts, ss, n
  <1>4. ASSUME NEW k \in 1..m
        PROVE  /\ from(k) \in 0..(n - 1) /\ cuts[k] \in 0..(n - 1) /\ from(k) <= cuts[k]
               /\ ss[k] \in Seq(S) /\ Len(ss[k]) = cuts[k] - from(k)
               /\ \A i \in 1..(cuts[k] - from(k)) : ss[k][i] = rows[from(k) + i]
    <2>1. from(k) \in 0..(n - 1) /\ cuts[k] \in 0..(n - 1) /\ from(k) <= cuts[k]
      <3>1. cuts[k] \in 0..(n - 1)
        BY <1>2
      <3>2. CASE k = 1
        BY <1>1, <3>1, <3>2
      <3>3. CASE k # 1
        <4>1. k - 1 \in 1..m /\ k - 1 < k
          BY <3>3
        <4>2. cuts[k - 1] \in 0..(n - 1) /\ cuts[k - 1] < cuts[k]
          BY <1>2, <4>1
        <4> QED
          BY <1>1, <3>1, <3>3, <4>2
      <3> QED
        BY <3>2, <3>3
    <2> DEFINE a == from(k) + 1
               b == cuts[k]
    <2>2. ss[k] = SubSeq(rows, a, b)
      BY <1>3
    <2> HIDE DEF from
    <2>3. a \in Nat /\ b \in Nat /\ 1 <= a /\ a <= n + 1 /\ b <= n /\ a <= b + 1
      BY <1>1, <2>1
    <2>4. \A i \in a..b : rows[i] \in S
      BY <1>1, <2>3
    <2> HIDE DEF a, b
    <2>5. ss[k] \in Seq(S) /\ Len(ss[k]) = (b - a) + 1 /\ \A i \in 1..((b - a) + 1) : ss[k][i] = rows[a + i - 1]
      BY <1>1, <2>2, <2>3, <2>4, SubSeqProperties DEF n
    <2>6. (b - a) + 1 = cuts[k] - from(k) /\ \A i \in 1..(cuts[k] - from(k)) : a + i - 1 = from(k) + i
      BY <2>1 DEF a, b
    <2> QED
      BY <2>1, <2>5, <2>6
  <1> HIDE DEF from
  <1>5. ss \in Seq(Seq(S)) /\ Len(ss) = m /\ f = FlattenSeq(ss)
    <2>1. \A k \in 1..m : ss[k] \in Seq(S)
      BY <1>4
    <2>2. DOMAIN ss = 1..m /\ ss = [k \in 1..m |-> ss[k]]
      BY <1>3
    <2>3. ss \in [1..m -> Seq(S)]
      BY <2>1, <2>2
    <2>4. ss \in Seq(Seq(S))
      BY <2>3, SeqDef
    <2>5. Len(ss) = m
      BY <2>2, <2>4, LenProperties
    <2> QED
      BY <2>4, <2>5 DEF Stored, ss
  <1> HIDE DEF f
  <1>6. f \in Seq(S) /\ \E o : Blocks(o, m, ss) /\ InPlace(f, o, m, ss)
    BY <1>5, FlattenProperties
  <1>7. ASSUME NEW j \in 1..(n - 1) PROVE \E i \in 1..Len(f) : f[i] = rows[j]
    <2> DEFINE T == {k \in 1..m : cuts[k] >= j}
    <2>0. \E k \in 1..m : cuts[k] >= j
      BY <1>2
    <2>1. T \in SUBSET Nat /\ T # {}
      BY <2>0
    <2>2. PICK k \in T : \A l \in T : k <= l
      BY <2>1, LeastOf
    <2>3. k \in 1..m /\ cuts[k] >= j
      BY <2>2
    <2>4. from(k) < j
      <3>1. CASE k = 1
        BY <3>1 DEF from
      <3>2. CASE k # 1
        <4>1. k - 1 \in 1..m /\ ~(k <= k - 1)
          BY <2>3, <3>2
        <4>2. k - 1 \notin T
          BY <2>2, <4>1
        <4>3. cuts[k - 1] \in 0..(n - 1) /\ ~(cuts[k - 1] >= j)
          BY <1>2, <4>1, <4>2
        <4> QED
          BY <1>1, <3>2, <4>3 DEF from
      <3> QED
        BY <3>1, <3>2
    <2> DEFINE i == j - from(k)
    <2>5. i \in 1..(cuts[k] - from(k)) /\ from(k) + i = j
      <3>1. from(k) \in 0..(n - 1) /\ cuts[k] \in 0..(n - 1)
        BY <1>4, <2>3
      <3> HIDE DEF T
      <3> QED
        BY <1>1, <2>3, <2>4, <3>1
    <2> HIDE DEF i, T
    <2>6. i \in 1..Len(ss[k]) /\ ss[k][i] = rows[j]
      BY <1>4, <2>3, <2>5
    <2>7. PICK o : Blocks(o, m, ss) /\ InPlace(f, o, m, ss)
      BY <1>6
    <2>8. o[k] + i \in 1..Len(f) /\ f[o[k] + i] = ss[k][i]
      BY <2>3, <2>6, <2>7 DEF InPlace
    <2> QED
      BY <2>6, <2>8
  <1> QED
    BY <1>6, <1>7 DEF n, f

(* What there are two rows of is stored. *)
InTwice(rows, x) == \E i, j \in 1..Len(rows) : i # j /\ rows[i] = x /\ rows[j] = x

LEMMA TwiceIsStored ==
  ASSUME NEW S, NEW rows \in Seq(S), NEW x, InTwice(rows, x)
  PROVE  \E i \in 1..Len(Stored(rows)) : Stored(rows)[i] = x
  <1>1. PICK i, j \in 1..Len(rows) : i # j /\ rows[i] = x /\ rows[j] = x
    BY DEF InTwice
  <1>2. Len(rows) \in Nat
    BY LenProperties
  <1>3. i \in 1..(Len(rows) - 1) \/ j \in 1..(Len(rows) - 1)
    BY <1>1, <1>2
  <1> QED
    BY <1>1, <1>3, StoredIs

RowOf(c, p) == [competition |-> c, player |-> p]

RowsOf(m, players) ==
    {RowOf(x[1], players[x[1]][x[2]]) :
        x \in {y \in (1..m) \X Nat : y[2] \in 1..Len(players[y[1]])}}

(* The rows of a tenant are those of its competitions. *)
LEMMA TenantRowsAre ==
  ASSUME NEW m \in Nat, NEW P, NEW players \in [1..m -> Seq(P)]
  PROVE  /\ TenantRows(players) \in Seq(RowsOf(m, players))
         /\ \A c \in 1..m : \A p : InTwice(players[c], p) => InTwice(TenantRows(players), RowOf(c, p))
  <1> DEFINE D == {x \in (1..m) \X Nat : x[2] \in 1..Len(players[x[1]])}
             S == RowsOf(m, players)
             row(c) == [i \in DOMAIN players[c] |-> RowOf(c, players[c][i])]
             ss == [c \in 1..m |-> row(c)]
             f == TenantRows(players)
  <1>1. \A c \in 1..m : /\ players[c] \in Seq(P) /\ Len(players[c]) \in Nat
                        /\ DOMAIN players[c] = 1..Len(players[c])
    BY LenProperties
  <1>2. ASSUME NEW c \in 1..m, NEW i \in 1..Len(players[c])
        PROVE  RowOf(c, players[c][i]) \in S
    <2>1. <<c, i>> \in D /\ S = {RowOf(x[1], players[x[1]][x[2]]) : x \in D}
      BY <1>1 DEF RowsOf
    <2> HIDE DEF D, S
    <2> QED
      BY <2>1
  <1> HIDE DEF S, f
  <1>3. \A c \in 1..m : /\ row(c) \in Seq(S) /\ Len(row(c)) = Len(players[c])
                        /\ \A i \in 1..Len(players[c]) : row(c)[i] = RowOf(c, players[c][i])
    <2> SUFFICES ASSUME NEW c \in 1..m
                 PROVE  /\ row(c) \in Seq(S) /\ Len(row(c)) = Len(players[c])
                        /\ \A i \in 1..Len(players[c]) : row(c)[i] = RowOf(c, players[c][i])
      OBVIOUS
    <2> DEFINE r == row(c)
               n == Len(players[c])
    <2>1. n \in Nat /\ r = [i \in 1..n |-> RowOf(c, players[c][i])]
      BY <1>1
    <2>2. \A i \in 1..n : RowOf(c, players[c][i]) \in S
      BY <1>2
    <2> HIDE DEF r, n, row
    <2>3. DOMAIN r = 1..n /\ r \in [1..n -> S] /\ \A i \in 1..n : r[i] = RowOf(c, players[c][i])
      BY <2>1, <2>2
    <2>4. r \in Seq(S)
      BY <2>1, <2>3, SeqDef
    <2>5. Len(r) = n
      BY <2>1, <2>3, <2>4, LenProperties
    <2> QED
      BY <2>3, <2>4, <2>5 DEF r, n
  <1>4. f = FlattenSeq(ss)
    BY DEF f, TenantRows, RowOf
  <1> HIDE DEF row
  <1>5. ss \in Seq(Seq(S)) /\ Len(ss) = m /\ \A c \in 1..m : ss[c] = row(c)
    <2>1. DOMAIN ss = 1..m /\ \A c \in 1..m : ss[c] = row(c)
      OBVIOUS
    <2>2. ss \in [1..m -> Seq(S)]
      BY <1>3
    <2> HIDE DEF ss
    <2>3. ss \in Seq(Seq(S))
      BY <2>2, SeqDef
    <2> QED
      BY <2>1, <2>3, LenProperties
  <1> HIDE DEF ss
  <1>6. f \in Seq(S) /\ \E o : Blocks(o, m, ss) /\ InPlace(f, o, m, ss)
    BY <1>4, <1>5, FlattenProperties
  <1>7. ASSUME NEW c \in 1..m, NEW p, InTwice(players[c], p) PROVE InTwice(f, RowOf(c, p))
    <2>1. PICK i, j \in 1..Len(players[c]) : i # j /\ players[c][i] = p /\ players[c][j] = p
      BY <1>7 DEF InTwice
    <2>2. PICK o : Blocks(o, m, ss) /\ InPlace(f, o, m, ss)
      BY <1>6
    <2>3. ss[c] = row(c) /\ Len(ss[c]) = Len(players[c]) /\ ss[c][i] = RowOf(c, p) /\ ss[c][j] = RowOf(c, p)
      BY <1>3, <1>5, <2>1
    <2>4. /\ o[c] + i \in 1..Len(f) /\ f[o[c] + i] = RowOf(c, p)
          /\ o[c] + j \in 1..Len(f) /\ f[o[c] + j] = RowOf(c, p)
      BY <2>1, <2>2, <2>3 DEF InPlace
    <2>5. o[c] + i # o[c] + j
      <3>1. o[c] \in Nat
        BY <2>2 DEF Blocks
      <3>2. i \in Int /\ j \in Int
        BY <1>1, <2>1
      <3> QED
        BY <2>1, <3>1, <3>2
    <2> QED
      BY <2>4, <2>5 DEF InTwice
  <1> QED
    BY <1>6, <1>7 DEF f, S

(* Of the list of a competition, all and nothing else is in the tenant's rows. *)
InRows(rows, c, list) ==
    /\ \A i \in 1..Len(rows) : rows[i].competition = c =>
          \E k \in 1..Len(list) : rows[i].player = list[k]
    /\ \A k \in 1..Len(list) : \E i \in 1..Len(rows) : rows[i] = RowOf(c, list[k])

(* The stored rows of a competition are by who has two rows of it. *)
LEMMA StoredRows ==
  ASSUME NEW m \in Nat, NEW P, NEW players \in [1..m -> Seq(P)], NEW c \in 1..m,
         \A i \in 1..Len(players[c]) : InTwice(players[c], players[c][i])
  PROVE  InRows(Stored(TenantRows(players)), c, players[c])
  <1> DEFINE D == {x \in (1..m) \X Nat : x[2] \in 1..Len(players[x[1]])}
             S == RowsOf(m, players)
             all == TenantRows(players)
             rows == Stored(all)
  <1>1. all \in Seq(S) /\ \A p : InTwice(players[c], p) => InTwice(all, RowOf(c, p))
    BY TenantRowsAre
  <1>2. \A x \in S : x.competition = c => \E k \in 1..Len(players[c]) : x.player = players[c][k]
    <2> SUFFICES ASSUME NEW x \in S, x.competition = c
                 PROVE  \E k \in 1..Len(players[c]) : x.player = players[c][k]
      OBVIOUS
    <2>1. PICK y \in D : x = RowOf(y[1], players[y[1]][y[2]])
      BY DEF RowsOf
    <2>2. y[2] \in 1..Len(players[y[1]])
      BY <2>1
    <2>3. y[1] = c /\ x.player = players[y[1]][y[2]]
      BY <2>1 DEF RowOf
    <2> QED
      BY <2>2, <2>3
  <1> HIDE DEF S, all
  <1>3. rows \in Seq(S) /\ \A x : InTwice(all, x) => \E i \in 1..Len(rows) : rows[i] = x
    BY <1>1, StoredIs, TwiceIsStored
  <1> HIDE DEF rows
  <1>4. \A i \in 1..Len(rows) : rows[i] \in S
    BY <1>3, ElementOfSeq
  <1>5. \A k \in 1..Len(players[c]) : \E i \in 1..Len(rows) : rows[i] = RowOf(c, players[c][k])
    BY <1>1, <1>3
  <1>6. \A i \in 1..Len(rows) : rows[i].competition = c =>
           \E k \in 1..Len(players[c]) : rows[i].player = players[c][k]
    BY <1>2, <1>4
  <1> QED
    BY <1>5, <1>6 DEF InRows, rows, all

(* Everybody in the list is there twice. *)
Paired(S) == {list \in Seq(S) : \A i \in 1..Len(list) : InTwice(list, list[i])}

LEMMA DrawnPlayers == DrawnPlayer \in SUBSET Nat /\ IsFiniteSet(DrawnPlayer) /\ 1 \in DrawnPlayer
  BY InitialDataAssumption, FS_Interval DEF DrawnPlayer

LEMMA TwoOf ==
  ASSUME NEW S, Cardinality(S) \in Nat, Cardinality(S) >= 2
  PROVE  \E i, j \in S : i # j
  <1> SUFFICES ASSUME \A i, j \in S : i = j PROVE FALSE
    OBVIOUS
  <1>1. CASE S = {}
    BY <1>1, FS_EmptySet
  <1>2. CASE S # {}
    <2>1. PICK i \in S : TRUE
      BY <1>2
    <2>2. S = {i}
      BY <2>1
    <2>3. Cardinality({i}) = 1
      BY FS_Singleton
    <2> QED
      BY <2>2, <2>3
  <1> QED
    BY <1>1, <1>2

LEMMA OrdersArePaired ==
  ASSUME NEW scored \in SUBSET DrawnPlayer, NEW order \in Orders(scored)
  PROVE  order \in Paired(DrawnPlayer)
  <1> DEFINE n == Cardinality(scored) * LeastScores
  <1>1. n \in Nat
    <2>1. IsFiniteSet(scored)
      BY DrawnPlayers, FS_Subset
    <2>2. Cardinality(scored) \in Nat
      BY <2>1, FS_CardinalityType
    <2> QED
      BY <2>2, InitialDataAssumption
  <1>2. order \in [1..n -> scored] /\ \A p \in scored : Cardinality({i \in DOMAIN order : order[i] = p}) = LeastScores
    BY DEF Orders
  <1> HIDE DEF n
  <1>3. order \in [1..n -> DrawnPlayer]
    BY <1>2
  <1>4. order \in Seq(DrawnPlayer)
    BY <1>1, <1>3, SeqDef
  <1>5. DOMAIN order = 1..Len(order)
    BY <1>4, LenProperties
  <1>6. ASSUME NEW k \in 1..Len(order) PROVE InTwice(order, order[k])
    <2> DEFINE T == {i \in DOMAIN order : order[i] = order[k]}
    <2>1. order[k] \in scored
      BY <1>2, <1>5
    <2>2. Cardinality(T) = LeastScores
      BY <1>2, <2>1
    <2> HIDE DEF T
    <2>3. PICK i, j \in T : i # j
      BY <2>2, TwoOf, InitialDataAssumption
    <2> QED
      BY <1>5, <2>3 DEF T, InTwice
  <1> QED
    BY <1>4, <1>6 DEF Paired

LEMMA TypicalIsPaired == [i \in 1..LeastScores |-> 1] \in Paired(DrawnPlayer)
  <1> DEFINE n == LeastScores
             one == 1
             order == [i \in 1..n |-> one]
  <1>1. n \in Nat /\ n >= 2
    BY InitialDataAssumption
  <1>2. one \in DrawnPlayer
    BY DrawnPlayers
  <1> HIDE DEF n, one
  <1>3. order \in [1..n -> DrawnPlayer] /\ DOMAIN order = 1..n /\ \A i \in 1..n : order[i] = one
    BY <1>2
  <1> HIDE DEF order
  <1>4. order \in Seq(DrawnPlayer)
    BY <1>1, <1>3, SeqDef
  <1>5. Len(order) = n
    BY <1>1, <1>3, <1>4, LenProperties
  <1>6. \A i \in 1..Len(order) : InTwice(order, order[i])
    <2>1. 1 \in 1..n /\ 2 \in 1..n
      BY <1>1
    <2> QED
      BY <1>3, <1>5, <2>1 DEF InTwice
  <1>7. order \in Paired(DrawnPlayer)
    BY <1>4, <1>6 DEF Paired
  <1> QED
    BY <1>7 DEF order, n, one

(* i is the r-th of the k-th group of b. *)
LEMMA GroupOf ==
  ASSUME NEW b \in Nat, b >= 1, NEW k \in Nat, NEW r \in Nat, r < b
  PROVE  (k * b + r) \div b = k
  OBVIOUS

LEMMA GroupsAre ==
  ASSUME NEW b \in Nat, b >= 1, NEW n \in Nat, NEW i \in 1..(b * n)
  PROVE  1 + (i - 1) \div b \in 1..n
  OBVIOUS

LEMMA VisitsAre ==
  ASSUME NEW draw, draw.late \in SUBSET DrawnPlayer
  PROVE  /\ Visits(draw) \in Paired(DrawnPlayer)
         /\ \A i \in 1..Len(Visits(draw)) : Visits(draw)[i] \in DrawnPlayer \ draw.late
         /\ \A p \in DrawnPlayer \ draw.late : \E i \in 1..Len(Visits(draw)) : Visits(draw)[i] = p
  <1> DEFINE S == DrawnPlayer \ draw.late
             n == Cardinality(S)
             b == LeastVisits
             there == There(draw)
             m == b * n
             visits == [i \in 1..m |-> there[1 + (i - 1) \div b]]
             v == Visits(draw)
  <1>1. S \in SUBSET Nat /\ IsFiniteSet(S) /\ S \subseteq DrawnPlayer
    BY DrawnPlayers, FS_Subset
  <1>2. there = Ascending(S)
    BY DEF There
  <1>3. b \in Nat /\ b >= 2
    BY InitialDataAssumption
  <1> HIDE DEF S, there, b
  <1>4. n \in Nat /\ there \in [1..n -> S] /\ \A x \in S : \E k \in 1..n : there[k] = x
    BY <1>1, <1>2, AscendingIs
  <1> HIDE DEF n
  <1>5. there \in Seq(S) /\ Len(there) = n
    <2>1. there \in Seq(S)
      BY <1>4, SeqDef
    <2>2. DOMAIN there = 1..n
      BY <1>4
    <2> QED
      BY <1>4, <2>1, <2>2, LenProperties
  <1>6. v = visits
    BY <1>5 DEF Visits, there, b
  <1>7. m \in Nat
    BY <1>3, <1>4
  <1> HIDE DEF v
  <1>8. \A i \in 1..m : visits[i] = there[1 + (i - 1) \div b] /\ 1 + (i - 1) \div b \in 1..n
    BY <1>3, <1>4, GroupsAre
  <1>9. visits \in [1..m -> S] /\ DOMAIN visits = 1..m
    BY <1>4, <1>8
  <1>10. \A k \in 1..n : \E i, j \in 1..m : i # j /\ visits[i] = there[k] /\ visits[j] = there[k]
    <2> SUFFICES ASSUME NEW k \in 1..n
                 PROVE  \E i, j \in 1..m : i # j /\ visits[i] = there[k] /\ visits[j] = there[k]
      OBVIOUS
    <2> DEFINE i == (k - 1) * b + 1
               j == (k - 1) * b + 2
    <2>1. k - 1 \in Nat /\ k - 1 < n /\ (k - 1) * b \in Nat
      BY <1>3, <1>4
    <2>2. ((k - 1) * b + 0) \div b = k - 1 /\ ((k - 1) * b + 1) \div b = k - 1
      BY <1>3, <2>1, GroupOf
    <2>3. i \in Nat /\ j \in Nat /\ i # j /\ 1 <= i /\ 1 <= j /\ i - 1 = (k - 1) * b + 0 /\ j - 1 = (k - 1) * b + 1
      BY <2>1
    <2>4. (k - 1) * b + b <= m
      <3>1. (k - 1) * b + b = k * b /\ k * b <= n * b /\ n * b = m
        BY <1>3, <1>4, <2>1
      <3> QED
        BY <3>1
    <2>5. i \in 1..m /\ j \in 1..m
      BY <1>3, <1>7, <2>1, <2>3, <2>4
    <2>6. 1 + (i - 1) \div b = k /\ 1 + (j - 1) \div b = k
      BY <2>2, <2>3
    <2> HIDE DEF i, j, visits, m
    <2>7. visits[i] = there[k] /\ visits[j] = there[k]
      BY <1>8, <2>5, <2>6
    <2> QED
      BY <2>3, <2>5, <2>7
  <1> HIDE DEF visits, m
  <1>11. v \in Seq(S) /\ Len(v) = m
    <2>1. v \in Seq(S)
      BY <1>6, <1>7, <1>9, SeqDef
    <2> QED
      BY <1>6, <1>7, <1>9, <2>1, LenProperties
  <1>12. \A i \in 1..Len(v) : v[i] \in S
    BY <1>11, ElementOfSeq
  <1>13. \A p \in S : InTwice(v, p)
    <2> SUFFICES ASSUME NEW p \in S PROVE InTwice(v, p)
      OBVIOUS
    <2>1. PICK k \in 1..n : there[k] = p
      BY <1>4
    <2> QED
      BY <1>6, <1>10, <1>11, <2>1 DEF InTwice
  <1>14. \A p \in S : \E i \in 1..Len(v) : v[i] = p
    BY <1>13 DEF InTwice
  <1>15. v \in Seq(DrawnPlayer)
    <2>1. v \in [1..m -> DrawnPlayer]
      BY <1>1, <1>6, <1>9
    <2> QED
      BY <1>7, <2>1, SeqDef
  <1>16. v \in Paired(DrawnPlayer)
    BY <1>12, <1>13, <1>15 DEF Paired
  <1> QED
    BY <1>12, <1>14, <1>16 DEF v, S

(* The rows of a competition, in the order of their indexes. *)
RowsOfOne(rows, c) ==
    LET of == Ascending({i \in DOMAIN rows : rows[i].competition = c})
    IN  [n \in DOMAIN of |-> rows[of[n]]]

ArePart(part, n, rows, m, c) ==
    /\ n \in Nat /\ DOMAIN part = 1..n
    /\ \A k \in 1..n : \E i \in 1..m : rows[i].competition = c /\ part[k] = rows[i]
    /\ \A i \in 1..m : rows[i].competition = c => \E k \in 1..n : part[k] = rows[i]

LEMMA RowsOfOneAre ==
  ASSUME NEW rows, NEW m \in Nat, DOMAIN rows = 1..m, NEW c
  PROVE  \E n : ArePart(RowsOfOne(rows, c), n, rows, m, c)
  <1> DEFINE T == {i \in DOMAIN rows : rows[i].competition = c}
             n == Cardinality(T)
             of == Ascending(T)
             these == [k \in DOMAIN of |-> rows[of[k]]]
  <1>1. T \in SUBSET Nat /\ T \subseteq 1..m /\ IsFiniteSet(1..m)
    BY FS_Interval
  <1>2. IsFiniteSet(T)
    BY <1>1, FS_Subset
  <1>3. RowsOfOne(rows, c) = these
    BY DEF RowsOfOne
  <1>4. \A i \in 1..m : i \in T <=> rows[i].competition = c
    OBVIOUS
  <1> HIDE DEF T
  <1>5. n \in Nat /\ of \in [1..n -> T] /\ \A x \in T : \E k \in 1..n : of[k] = x
    BY <1>1, <1>2, AscendingIs
  <1> HIDE DEF n, of
  <1>6. DOMAIN these = 1..n /\ \A k \in 1..n : these[k] = rows[of[k]] /\ of[k] \in T
    BY <1>5
  <1> HIDE DEF these
  <1>7. \A k \in 1..n : \E i \in 1..m : rows[i].competition = c /\ these[k] = rows[i]
    BY <1>1, <1>4, <1>6
  <1>8. \A i \in 1..m : rows[i].competition = c => \E k \in 1..n : these[k] = rows[i]
    BY <1>4, <1>5, <1>6
  <1> QED
    <2>1. ArePart(these, n, rows, m, c)
      BY <1>5, <1>6, <1>7, <1>8 DEF ArePart
    <2> QED
      BY <1>3, <2>1

WhoOf(part, n) == {part[i].player : i \in 1..n}
AllOf(list) == {list[k] : k \in 1..Len(list)}

LEMMA PartPlayers ==
  ASSUME NEW all, NEW c, NEW list, InRows(all, c, list), NEW part, NEW n, ArePart(part, n, all, Len(all), c)
  PROVE  WhoOf(part, n) = AllOf(list)
  <1> DEFINE A == {part[i].player : i \in 1..n}
             B == {list[k] : k \in 1..Len(list)}
  <1>1. ASSUME NEW i \in 1..n PROVE \E k \in 1..Len(list) : part[i].player = list[k]
    <2>1. PICK j \in 1..Len(all) : all[j].competition = c /\ part[i] = all[j]
      BY DEF ArePart
    <2>2. PICK k \in 1..Len(list) : all[j].player = list[k]
      BY <2>1 DEF InRows
    <2> QED
      BY <2>1, <2>2
  <1>2. \A k \in 1..Len(list) : \E i \in 1..n : part[i].player = list[k]
    <2> SUFFICES ASSUME NEW k \in 1..Len(list) PROVE \E i \in 1..n : part[i].player = list[k]
      OBVIOUS
    <2>1. PICK i \in 1..Len(all) : all[i] = RowOf(c, list[k])
      BY DEF InRows
    <2>2. all[i].competition = c /\ all[i].player = list[k]
      BY <2>1 DEF RowOf
    <2>3. PICK j \in 1..n : part[j] = all[i]
      BY <2>2 DEF ArePart
    <2> QED
      BY <2>2, <2>3
  <1>3. A \subseteq B
    BY <1>1
  <1>4. B \subseteq A
    BY <1>2
  <1> QED
    BY <1>3, <1>4 DEF WhoOf, AllOf

ScoresOfOne(rows) == [i \in DOMAIN rows |-> [player |-> rows[i].player, score |-> 7]]

LEMMA ScoresOfOneAre ==
  ASSUME NEW rows, NEW n \in Nat, DOMAIN rows = 1..n, \A i \in 1..n : rows[i].player \in DrawnPlayer
  PROVE  ScoresOfOne(rows) \in Seq(Lines) /\ {ScoresOfOne(rows)[i].player : i \in DOMAIN ScoresOfOne(rows)} = WhoOf(rows, n)
  <1> DEFINE line(i) == [player |-> rows[i].player, score |-> 7]
             f == [i \in 1..n |-> line(i)]
  <1>1. ScoresOfOne(rows) = f
    BY DEF ScoresOfOne
  <1>2. \A i \in 1..n : line(i) \in Lines /\ line(i).player = rows[i].player
    <2> SUFFICES ASSUME NEW i \in 1..n PROVE line(i) \in Lines /\ line(i).player = rows[i].player
      OBVIOUS
    <2>1. rows[i].player \in Nat
      BY DrawnPlayers
    <2> QED
      BY <2>1 DEF Lines
  <1> HIDE DEF line
  <1>3. f \in [1..n -> Lines] /\ DOMAIN f = 1..n /\ \A i \in 1..n : f[i].player = rows[i].player
    BY <1>2
  <1>4. f \in Seq(Lines)
    BY <1>3, SeqDef
  <1> HIDE DEF f
  <1>5. {f[i].player : i \in DOMAIN f} = WhoOf(rows, n)
    <2> DEFINE A == {f[i].player : i \in DOMAIN f}
               B == {rows[i].player : i \in 1..n}
    <2>1. A \subseteq B
      BY <1>3
    <2>2. B \subseteq A
      BY <1>3
    <2> QED
      BY <2>1, <2>2 DEF WhoOf
  <1> QED
    BY <1>1, <1>4, <1>5 DEF WhoOf

(* What CreatePlayerData draws. *)
Drawn(draws, m) ==
    /\ m \in Nat /\ DOMAIN draws = 1..m
    /\ \A c \in 1..m : /\ draws[c].finished \in BOOLEAN /\ draws[c].late \in SUBSET DrawnPlayer
                       /\ draws[c].order \in Paired(DrawnPlayer)

(* Of who has rows in a list of each competition, none is lost. *)
LEMMA StoredOfOne ==
  ASSUME NEW m \in Nat, NEW lists \in [1..m -> Paired(DrawnPlayer)], NEW c \in 1..m
  PROVE  LET rows == RowsOfOne(Stored(TenantRows(lists)), c)
         IN  \E n \in Nat : /\ DOMAIN rows = 1..n
                            /\ WhoOf(rows, n) = AllOf(lists[c])
                            /\ \A i \in 1..n : rows[i].player \in DrawnPlayer
  <1> DEFINE all == Stored(TenantRows(lists))
             rows == RowsOfOne(all, c)
             list == lists[c]
  <1>1. lists \in [1..m -> Seq(DrawnPlayer)]
    BY DEF Paired
  <1>2. \A i \in 1..Len(lists[c]) : InTwice(lists[c], lists[c][i])
    BY DEF Paired
  <1>3. list \in Seq(DrawnPlayer) /\ \A k \in 1..Len(list) : list[k] \in DrawnPlayer
    BY <1>1, ElementOfSeq
  <1>4. InRows(all, c, list)
    BY <1>1, <1>2, StoredRows
  <1>5. Len(all) \in Nat /\ DOMAIN all = 1..Len(all)
    <2>1. TenantRows(lists) \in Seq(RowsOf(m, lists))
      BY <1>1, TenantRowsAre
    <2>2. all \in Seq(RowsOf(m, lists))
      BY <2>1, StoredIs
    <2> HIDE DEF all
    <2> QED
      BY <2>2, LenProperties
  <1> HIDE DEF all, list
  <1>6. PICK n : ArePart(rows, n, all, Len(all), c)
    BY <1>5, RowsOfOneAre
  <1> HIDE DEF rows
  <1>7. WhoOf(rows, n) = AllOf(list)
    BY <1>4, <1>6, PartPlayers
  <1>8. \A i \in 1..n : rows[i].player \in DrawnPlayer
    BY <1>3, <1>7 DEF WhoOf, AllOf
  <1>9. n \in Nat /\ DOMAIN rows = 1..n
    BY <1>6 DEF ArePart
  <1> QED
    BY <1>7, <1>8, <1>9 DEF rows, all, list

(* What is stored of a competition, and what it owes. *)
StoredCompetition(scores, visits, c, draw) ==
    [NewCompetition EXCEPT !.finished = draw.finished,
                           !.rows = ScoresOfOne(RowsOfOne(scores, c)),
                           !.visitors = {v.player : v \in ToSet(RowsOfOne(visits, c))}]

LEMMA TablesAre ==
  ASSUME NEW draws
  PROVE  Tables(draws) = [EmptyTenant EXCEPT
            !.players = PlayersDrawn,
            !.competitions = [c \in DOMAIN draws |->
                StoredCompetition(Stored(ScoreRows(draws)), Stored(VisitRows(draws)), c, draws[c])]]
  BY Zenon DEF Tables, StoredCompetition, ScoresOfOne, RowsOfOne

LEMMA CompetitionStored ==
  ASSUME NEW draws, NEW m, Drawn(draws, m), NEW c \in 1..m, NEW k,
         k = StoredCompetition(Stored(ScoreRows(draws)), Stored(VisitRows(draws)), c, draws[c])
  PROVE  /\ k \in CompetitionSet /\ k.finished = draws[c].finished
         /\ Scored(k) = ToSet(draws[c].order) /\ k.visitors = DrawnPlayer \ draws[c].late
  <1> DEFINE scoreLists == [d \in DOMAIN draws |-> draws[d].order]
             visitLists == [d \in DOMAIN draws |-> Visits(draws[d])]
             scores == Stored(ScoreRows(draws))
             visits == Stored(VisitRows(draws))
             rows == ScoresOfOne(RowsOfOne(scores, c))
             part == RowsOfOne(visits, c)
             V == {v.player : v \in ToSet(part)}
             finished == draws[c].finished
  <1>1. /\ m \in Nat /\ DOMAIN draws = 1..m
        /\ \A d \in 1..m : /\ draws[d].finished \in BOOLEAN /\ draws[d].late \in SUBSET DrawnPlayer
                           /\ draws[d].order \in Paired(DrawnPlayer)
    BY DEF Drawn
  <1>2. scoreLists \in [1..m -> Paired(DrawnPlayer)] /\ scoreLists[c] = draws[c].order
    BY <1>1
  <1>3. visitLists \in [1..m -> Paired(DrawnPlayer)] /\ visitLists[c] = Visits(draws[c])
    BY <1>1, VisitsAre
  <1>4. scores = Stored(TenantRows(scoreLists)) /\ visits = Stored(TenantRows(visitLists))
    BY DEF ScoreRows, VisitRows
  <1> HIDE DEF scoreLists, visitLists, scores, visits
  <1>5. rows \in Seq(Lines) /\ {rows[i].player : i \in DOMAIN rows} = AllOf(draws[c].order)
    <2>1. PICK n \in Nat : /\ DOMAIN RowsOfOne(scores, c) = 1..n
                           /\ WhoOf(RowsOfOne(scores, c), n) = AllOf(scoreLists[c])
                           /\ \A i \in 1..n : RowsOfOne(scores, c)[i].player \in DrawnPlayer
      BY <1>1, <1>2, <1>4, StoredOfOne
    <2> DEFINE mine == RowsOfOne(scores, c)
    <2> HIDE DEF mine
    <2>2. ScoresOfOne(mine) \in Seq(Lines)
      BY <2>1, ScoresOfOneAre DEF mine
    <2>3. {ScoresOfOne(mine)[i].player : i \in DOMAIN ScoresOfOne(mine)} = WhoOf(mine, n)
      BY <2>1, ScoresOfOneAre DEF mine
    <2>4. WhoOf(mine, n) = AllOf(scoreLists[c])
      BY <2>1 DEF mine
    <2> QED
      BY <1>2, <2>2, <2>3, <2>4 DEF mine
  <1>6. V = DrawnPlayer \ draws[c].late
    <2>1. PICK n \in Nat : /\ DOMAIN part = 1..n
                           /\ WhoOf(part, n) = AllOf(visitLists[c])
                           /\ \A i \in 1..n : part[i].player \in DrawnPlayer
      BY <1>1, <1>3, <1>4, StoredOfOne
    <2> HIDE DEF part
    <2>2. ToSet(part) = {part[i] : i \in 1..n}
      BY <2>1 DEF ToSet
    <2>3. V = WhoOf(part, n)
      BY <2>2 DEF WhoOf
    <2>4. AllOf(Visits(draws[c])) = DrawnPlayer \ draws[c].late
      <3>1. draws[c].late \in SUBSET DrawnPlayer
        BY <1>1
      <3>2. /\ \A i \in 1..Len(Visits(draws[c])) : Visits(draws[c])[i] \in DrawnPlayer \ draws[c].late
            /\ \A p \in DrawnPlayer \ draws[c].late : \E i \in 1..Len(Visits(draws[c])) : Visits(draws[c])[i] = p
        BY <3>1, VisitsAre
      <3> QED
        BY <3>2 DEF AllOf
    <2> QED
      BY <1>3, <2>1, <2>3, <2>4
  <1> HIDE DEF rows, V, finished
  <1>7. k = Comp(finished, rows, V, {})
    <2>1. k = [NewCompetition EXCEPT !.finished = finished, !.rows = rows, !.visitors = V]
      BY DEF StoredCompetition, scores, visits, rows, V, finished, part
    <2>2. NewCompetition = Comp(FALSE, <<>>, {}, {})
      BY NewCompetitionIs
    <2> QED
      BY <2>1, <2>2 DEF Comp
  <1>8. finished \in BOOLEAN /\ V \in SUBSET Nat
    <2>1. finished \in BOOLEAN
      BY <1>1 DEF finished
    <2>2. V \in SUBSET Nat
      BY <1>6, DrawnPlayers
    <2> QED
      BY <2>1, <2>2
  <1>9. k \in CompetitionSet /\ k.finished = finished /\ k.rows = rows /\ k.visitors = V
    <2>1. Comp(finished, rows, V, {}) \in CompetitionSet
      BY <1>5, <1>8, CompIs
    <2> QED
      BY <1>7, <2>1 DEF Comp
  <1>10. Scored(k) = ToSet(draws[c].order)
    <2>1. Scored(k) = AllOf(draws[c].order)
      BY <1>5, <1>9 DEF Scored
    <2>2. draws[c].order \in Seq(DrawnPlayer)
      BY <1>1 DEF Paired
    <2>3. DOMAIN draws[c].order = 1..Len(draws[c].order)
      BY <2>2, LenProperties
    <2>4. ToSet(draws[c].order) = AllOf(draws[c].order)
      BY <2>3 DEF ToSet, AllOf
    <2> QED
      BY <2>1, <2>4
  <1> QED
    BY <1>6, <1>9, <1>10 DEF finished

LEMMA BillingIs ==
  ASSUME NEW draw, draw.finished \in BOOLEAN, NEW k, k.finished = draw.finished,
         Scored(k) = ToSet(draw.order), k.visitors = DrawnPlayer \ draw.late
  PROVE  Report(k).yen = CompetitionBilling(draw)
  <1> DEFINE a == ToSet(draw.order)
             b == (DrawnPlayer \ draw.late) \ a
             x == Cardinality(a)
             y == Cardinality(b)
             owes(i, j) == [players |-> i, visitors |-> j, yen |-> 100 * i + 10 * j]
  <1>1. Report(k) = owes(IF k.finished THEN Cardinality(Scored(k)) ELSE 0,
                         IF k.finished THEN Cardinality(k.visitors \ Scored(k)) ELSE 0)
    BY DEF Report
  <1>2. Scored(k) = a /\ k.visitors \ Scored(k) = b /\ k.finished = draw.finished
    OBVIOUS
  <1>3. CompetitionBilling(draw) = IF draw.finished THEN 100 * x + 10 * y ELSE 0
    BY DEF CompetitionBilling
  <1> HIDE DEF a, b, x, y
  <1>4. CASE draw.finished
    <2>1. Report(k) = owes(x, y)
      BY <1>1, <1>2, <1>4 DEF x, y
    <2>2. Report(k).yen = 100 * x + 10 * y
      BY <2>1
    <2> QED
      BY <1>3, <1>4, <2>2
  <1>5. CASE ~draw.finished
    <2>1. Report(k) = owes(0, 0)
      BY <1>1, <1>2, <1>5
    <2>2. Report(k).yen = 0
      BY <2>1
    <2> QED
      BY <1>3, <1>5, <2>2
  <1> QED
    BY <1>4, <1>5

LEMMA BillingIsAmount ==
  ASSUME NEW draws, NEW m, Drawn(draws, m), NEW c \in 1..m
  PROVE  CompetitionBilling(draws[c]) \in Int
  <1> DEFINE there == DrawnPlayer \ draws[c].late
             scored == ToSet(draws[c].order)
  <1>1. draws[c].finished \in BOOLEAN /\ draws[c].order \in Seq(DrawnPlayer)
    BY DEF Drawn, Paired
  <1>2. scored \subseteq DrawnPlayer
    BY <1>1, LenProperties, ElementOfSeq DEF ToSet
  <1> HIDE DEF scored
  <1>3. IsFiniteSet(scored) /\ IsFiniteSet(there \ scored)
    BY <1>2, DrawnPlayers, FS_Subset
  <1>4. Cardinality(scored) \in Nat /\ Cardinality(there \ scored) \in Nat
    BY <1>3, FS_CardinalityType
  <1>5. CompetitionBilling(draws[c])
           = IF draws[c].finished THEN 100 * Cardinality(scored) + 10 * Cardinality(there \ scored) ELSE 0
    BY DEF CompetitionBilling, scored
  <1> HIDE DEF there
  <1> QED
    BY <1>1, <1>4, <1>5

(* A tenant of the initial data, and what it owes for each competition. *)
Base == initial.tenant.competitions
InitialHeld(m) ==
    /\ initial.tenant = Holding(PlayersDrawn, {}, Base)
    /\ Base \in Seq(CompetitionSet) /\ Len(Base) = m
    /\ \A c \in DOMAIN Base : Report(Base[c]).yen \in Int

LEMMA DrawnIsRight ==
  ASSUME NEW draws, NEW m, Drawn(draws, m), initial = Initial(draws)
  PROVE  InitialRight /\ InitialHeld(m)
  <1> DEFINE comp(c) == StoredCompetition(Stored(ScoreRows(draws)), Stored(VisitRows(draws)), c, draws[c])
             cs == [c \in DOMAIN draws |-> comp(c)]
             owes(c) == CompetitionBilling(draws[c])
  <1>1. /\ m \in Nat /\ DOMAIN draws = 1..m
        /\ \A c \in 1..m : draws[c].finished \in BOOLEAN
    BY DEF Drawn
  <1>2. ASSUME NEW c \in 1..m PROVE comp(c) \in CompetitionSet /\ Report(comp(c)).yen = owes(c)
    <2> DEFINE k == comp(c)
               draw == draws[c]
    <2>1. /\ k \in CompetitionSet /\ k.finished = draw.finished
          /\ Scored(k) = ToSet(draw.order) /\ k.visitors = DrawnPlayer \ draw.late
      BY CompetitionStored
    <2>2. draw.finished \in BOOLEAN
      BY <1>1
    <2> HIDE DEF k, draw
    <2>3. Report(k).yen = CompetitionBilling(draw)
      BY <2>1, <2>2, BillingIs
    <2> QED
      BY <2>1, <2>3 DEF k, draw
  <1>3. Tables(draws) = Holding(PlayersDrawn, {}, cs)
    <2>1. Tables(draws) = [EmptyTenant EXCEPT !.players = PlayersDrawn, !.competitions = cs]
      BY TablesAre
    <2> DEFINE none == {}
               c0 == <<>>
    <2> HIDE DEF cs
    <2>2. EmptyTenant = Holding(0, none, c0)
      BY Zenon DEF EmptyTenant, Holding
    <2> HIDE DEF none, c0
    <2>3. Tables(draws) = [[Holding(0, none, c0) EXCEPT !.players = PlayersDrawn] EXCEPT !.competitions = cs]
      BY <2>1, <2>2
    <2>4. [Holding(0, none, c0) EXCEPT !.players = PlayersDrawn] = Holding(PlayersDrawn, none, c0)
      BY HoldingExcept
    <2>5. [Holding(PlayersDrawn, none, c0) EXCEPT !.competitions = cs] = Holding(PlayersDrawn, none, cs)
      BY HoldingExcept
    <2> QED
      BY <2>3, <2>4, <2>5 DEF none
  <1> HIDE DEF comp, owes
  <1>4. cs \in Seq(CompetitionSet)
    <2>1. cs \in [1..m -> CompetitionSet]
      BY <1>1, <1>2
    <2> QED
      BY <1>1, <2>1, SeqDef
  <1>5. DOMAIN cs = 1..m /\ \A c \in 1..m : cs[c] = comp(c)
    BY <1>1
  <1> HIDE DEF cs
  <1>6. initial.tenant = Tables(draws) /\ initial.billing = [c \in DOMAIN draws |-> owes(c)]
    BY DEF Initial, owes
  <1>7. Tables(draws) \in TenantSet /\ Tables(draws).competitions = cs /\ Tables(draws).file
    <2>1. PlayersDrawn \in Nat /\ {} \in SUBSET Nat
      BY InitialDataAssumption
    <2>2. Holding(PlayersDrawn, {}, cs) \in TenantSet
      BY <1>4, <2>1, HoldingIs
    <2>3. Holding(PlayersDrawn, {}, cs).competitions = cs
      BY HoldingFields
    <2>4. Holding(PlayersDrawn, {}, cs).file
      BY Zenon DEF Holding
    <2> QED
      BY <1>3, <2>2, <2>3, <2>4
  <1>8. [c \in DOMAIN cs |-> Report(cs[c]).yen] = [c \in DOMAIN draws |-> owes(c)]
    <2>1. \A c \in 1..m : Report(cs[c]).yen = owes(c)
      BY <1>2, <1>5
    <2> QED
      BY <1>1, <1>5, <2>1
  <1>9. [c \in DOMAIN initial.tenant.competitions |-> Report(initial.tenant.competitions[c]).yen] = initial.billing
    <2>1. initial.tenant.competitions = cs
      BY <1>6, <1>7
    <2> QED
      BY <1>6, <1>8, <2>1
  <1>10. InitialHeld(m)
    <2>1. Base = cs /\ initial.tenant = Holding(PlayersDrawn, {}, cs)
      BY <1>3, <1>6, <1>7 DEF Base
    <2>2. Len(cs) = m
      BY <1>1, <1>4, <1>5, LenProperties
    <2>3. ASSUME NEW c \in 1..m PROVE Report(cs[c]).yen \in Int
      BY <1>2, <1>5, BillingIsAmount DEF owes
    <2> QED
      BY <1>4, <1>5, <2>1, <2>2, <2>3 DEF InitialHeld
  <1> QED
    BY <1>6, <1>7, <1>9, <1>10 DEF InitialRight

LEMMA DrawsAre ==
  ASSUME NEW draw \in Draws
  PROVE  draw.finished \in BOOLEAN /\ draw.late \in SUBSET DrawnPlayer /\ draw.order \in Paired(DrawnPlayer)
  <1>0. PICK finished \in BOOLEAN :
           draw \in UNION {{Competition(finished, late, order) : order \in OrdersWithout(late)} :
                             late \in LateSets(finished)}
    BY DEF Draws
  <1>00. PICK late \in LateSets(finished) :
           draw \in {Competition(finished, late, order) : order \in OrdersWithout(late)}
    BY <1>0
  <1>1. PICK order \in OrdersWithout(late) : draw = Competition(finished, late, order)
    BY <1>00
  <1>2. late \in SUBSET DrawnPlayer
    BY DEF LateSets
  <1>3. PICK scored \in SUBSET (DrawnPlayer \ late) : order \in Orders(scored)
    BY DEF OrdersWithout
  <1>4. order \in Paired(DrawnPlayer)
    BY <1>3, OrdersArePaired
  <1> QED
    BY <1>1, <1>2, <1>4 DEF Competition

LEMMA TypicalIsRight ==
  ASSUME initial = TypicalInitial
  PROVE  InitialRight /\ InitialHeld(CompetitionsDrawn)
  <1> DEFINE order == [i \in 1..LeastScores |-> 1]
             none == <<>>
             over == Competition(TRUE, {1}, none)
             runs == Competition(FALSE, {}, order)
             draws == [c \in 1..CompetitionsDrawn |-> IF c % 2 = 1 THEN over ELSE runs]
  <1>1. initial = Initial(draws)
    BY DEF TypicalInitial
  <1>2. order \in Paired(DrawnPlayer) /\ none \in Paired(DrawnPlayer)
    <2>1. none \in Seq(DrawnPlayer) /\ Len(none) = 0
      BY EmptySeq
    <2> HIDE DEF none
    <2>2. none \in Paired(DrawnPlayer)
      BY <2>1 DEF Paired
    <2> QED
      BY <2>2, TypicalIsPaired
  <1>3. CompetitionsDrawn \in Nat /\ {1} \in SUBSET DrawnPlayer
    BY InitialDataAssumption, DrawnPlayers
  <1> HIDE DEF order, none
  <1>30. /\ over.finished \in BOOLEAN /\ over.late = {1} /\ over.order = none
         /\ runs.finished \in BOOLEAN /\ runs.late = {} /\ runs.order = order
    BY DEF Competition
  <1> HIDE DEF over, runs
  <1>4. Drawn(draws, CompetitionsDrawn)
    <2>1. ASSUME NEW c \in 1..CompetitionsDrawn PROVE draws[c] = over \/ draws[c] = runs
      OBVIOUS
    <2>2. DOMAIN draws = 1..CompetitionsDrawn
      OBVIOUS
    <2> HIDE DEF draws
    <2> QED
      BY <1>2, <1>3, <1>30, <2>1, <2>2 DEF Drawn
  <1> HIDE DEF draws
  <1> QED
    BY <1>1, <1>4, DrawnIsRight

(* Whatever the initial data draws for a tenant, what the web application       *)
(* charges for the rows that were stored of it is what the benchmarker is told, *)
(* though the last score and the last visit of the tenant are in no batch: the *)
(* participant they are of has others in that competition.                     *)
THEOREM InitialIsRight ==
  ASSUME Init
  PROVE  InitialRight
  <1>1. initial \in StoredInitials \/ initial = TypicalInitial
    BY DEF Init
  <1>2. CompetitionsDrawn \in Nat
    BY InitialDataAssumption
  <1>3. CASE initial \in StoredInitials
    <2>1. PICK draws \in [1..CompetitionsDrawn -> Draws] : initial = Initial(draws)
      BY <1>3 DEF StoredInitials
    <2>2. Drawn(draws, CompetitionsDrawn)
      BY <1>2, DrawsAre DEF Drawn
    <2> QED
      BY <2>1, <2>2, DrawnIsRight
  <1>4. CASE initial = TypicalInitial
    BY <1>4, TypicalIsRight
  <1> QED
    BY <1>1, <1>3, <1>4

-----------------------------------------------------------------------------
(* The tenants that the workers of the load have drawn *)

LoadGround(c) ==
    CASE c = "players" -> choice.player [] c = "popular" -> choice.popular
      [] c = "adminBilling" -> choice.target [] OTHER -> tBill

(* The page of bills that is looked at. *)
CursorPage == (choice.cursor - BillingLimit)..(choice.cursor - 1)

LEMMA DrawnIdsAre ==
  /\ \A range \in {PopularRange, AdminRange, PlayerRange} :
        /\ range[1] \in Nat /\ range[2] \in Nat /\ range[1] <= range[2] /\ range[2] < InitialTenants
        /\ DrawnIds(range) = (range[1] + 1)..(range[2] + 1)
  /\ PopularIds \subseteq InitialId /\ DrawnIds(PlayerRange) \subseteq InitialId
  /\ DrawnIds(<<AdminRange[1] + BillingLimit, AdminRange[2] + 1>>)
        = (AdminRange[1] + BillingLimit + 1)..(AdminRange[2] + 2)
  <1>1. \A range \in {PopularRange, AdminRange, PlayerRange} :
           range[1] \in Nat /\ range[2] \in Nat /\ range[1] <= range[2] /\ range[2] < InitialTenants
    BY RangesAssumption
  <1>2. ASSUME NEW a \in Nat, NEW b \in Nat
        PROVE  DrawnIds(<<a, b>>) = (a + 1)..(b + 1)
    <2>1. ASSUME NEW x \in (a + 1)..(b + 1) PROVE x \in DrawnIds(<<a, b>>)
      <3>1. x - 1 \in a..b /\ x = (x - 1) + 1
        OBVIOUS
      <3> QED
        BY <3>1 DEF DrawnIds
    <2> QED
      BY <2>1 DEF DrawnIds
  <1>3. ASSUME NEW range \in {PopularRange, AdminRange, PlayerRange}
        PROVE  DrawnIds(range) = (range[1] + 1)..(range[2] + 1)
    <2>1. DrawnIds(range) = DrawnIds(<<range[1], range[2]>>)
      BY DEF DrawnIds
    <2> QED
      BY <1>1, <1>2, <2>1
  <1>4. InitialTenants \in Nat /\ BillingLimit \in Nat
    BY ServiceAssumption
  <1>5. DrawnIds(PopularRange) \subseteq InitialId /\ DrawnIds(PlayerRange) \subseteq InitialId
    <2>1. ASSUME NEW range \in {PopularRange, AdminRange, PlayerRange} PROVE DrawnIds(range) \subseteq InitialId
      <3>1. range[1] \in Nat /\ range[2] \in Nat /\ range[2] < InitialTenants
        BY <1>1
      <3>2. DrawnIds(range) = (range[1] + 1)..(range[2] + 1)
        BY <1>3
      <3> QED
        BY <1>4, <3>1, <3>2 DEF InitialId
    <2> QED
      BY <2>1
  <1>6. 1 \in InitialId
    BY <1>1, <1>4 DEF InitialId
  <1>7. DrawnIds(<<AdminRange[1] + BillingLimit, AdminRange[2] + 1>>)
           = (AdminRange[1] + BillingLimit + 1)..(AdminRange[2] + 2)
    <2>1. AdminRange[1] + BillingLimit \in Nat /\ AdminRange[2] + 1 \in Nat /\ AdminRange[2] + 1 + 1 = AdminRange[2] + 2
      BY <1>1, <1>4
    <2> QED
      BY <1>2, <2>1
  <1> QED
    BY <1>1, <1>3, <1>5, <1>6, <1>7 DEF PopularIds

LEMMA ChoiceIs ==
  ASSUME choice \in LoadChoices
  PROVE  /\ choice.player \in InitialId /\ choice.popular \in InitialId /\ choice.target \in InitialId
         /\ choice.target \in CursorPage /\ CursorPage \subseteq InitialId /\ IsFiniteSet(CursorPage)
         /\ choice.player \notin CursorPage /\ choice.popular \notin CursorPage
         /\ choice.player # choice.popular
         /\ \A new : BillingPage(new, choice.cursor) = CursorPage
         /\ choice.cursor \in Nat
  <1>1. PICK id \in DrawnIds(<<AdminRange[1] + BillingLimit, AdminRange[2] + 1>>) :
             \E p \in DrawnIds(PlayerRange), n \in PopularIds, k \in {1, BillingLimit} :
                choice = [player |-> p, popular |-> n, cursor |-> id, target |-> id - k]
    BY DEF LoadChoices
  <1>2. PICK p \in DrawnIds(PlayerRange), n \in PopularIds, k \in {1, BillingLimit} :
             choice = [player |-> p, popular |-> n, cursor |-> id, target |-> id - k]
    BY <1>1
  <1>3. choice.player = p /\ choice.popular = n /\ choice.cursor = id /\ choice.target = id - k
    BY <1>2
  <1>4. /\ BillingLimit \in Nat \ {0} /\ InitialTenants \in Nat /\ AdminRange[1] \in Nat /\ AdminRange[2] \in Nat
        /\ id \in (AdminRange[1] + BillingLimit + 1)..(AdminRange[2] + 2)
        /\ DrawnIds(AdminRange) = (AdminRange[1] + 1)..(AdminRange[2] + 1)
        /\ AdminRange[2] + 1 < InitialTenants
    BY DrawnIdsAre, ServiceAssumption, RangesAssumption
  <1>5. CursorPage \subseteq DrawnIds(AdminRange) /\ CursorPage \subseteq InitialId /\ IsFiniteSet(CursorPage)
        /\ id - k \in CursorPage
    <2>1. CursorPage = (id - BillingLimit)..(id - 1)
      BY <1>3 DEF CursorPage
    <2>2. id \in Int /\ id - BillingLimit \in Int /\ id - 1 \in Int /\ id - BillingLimit <= id - 1
      BY <1>4
    <2>3. IsFiniteSet(CursorPage)
      BY <2>1, <2>2, FS_Interval
    <2>4. id - k \in CursorPage
      <3>1. k = 1 \/ k = BillingLimit
        OBVIOUS
      <3> QED
        BY <2>1, <2>2, <3>1
    <2>5. CursorPage \subseteq DrawnIds(AdminRange) /\ CursorPage \subseteq InitialId
      <3>1. SUFFICES ASSUME NEW x \in CursorPage PROVE x \in DrawnIds(AdminRange) /\ x \in InitialId
        OBVIOUS
      <3>2. x \in Int /\ x >= id - BillingLimit /\ x <= id - 1
        BY <2>1, <2>2
      <3>3. x \in (AdminRange[1] + 1)..(AdminRange[2] + 1) /\ x \in 1..InitialTenants
        BY <1>4, <3>2, SMTT(30)
      <3> QED
        BY <1>4, <3>3 DEF InitialId
    <2> QED
      BY <2>3, <2>4, <2>5
  <1>6. p \notin DrawnIds(AdminRange) /\ n \notin DrawnIds(AdminRange) /\ p # n /\ p \in InitialId /\ n \in InitialId
    BY DrawnIdsAre, RangesAssumption
  <1>7. ASSUME NEW new PROVE BillingPage(new, id) = CursorPage
    <2>1. id # 0 /\ id \in Nat /\ id - 1 <= InitialTenants /\ id - BillingLimit >= 1
      BY <1>4
    <2>2. BillingPage(new, id) = {x \in InitialId : x < id /\ x >= id - BillingLimit}
      BY <2>1 DEF BillingPage
    <2> QED
      BY <1>3, <1>4, <2>1, <2>2, SMTT(30) DEF CursorPage, InitialId
  <1>8. id \in Nat
    BY <1>4
  <1> QED
    BY <1>3, <1>5, <1>6, <1>7, <1>8

(* The tenant that is added for its bills. *)
LEMMA BillTenantIs ==
  /\ tBill \in NewTenant /\ tBill \notin InitialId /\ tBill # Admin /\ Admin \notin InitialId
  BY ChecksAssumption, ServiceAssumption

(* The workers' tenants are different ones. *)
LEMMA LoadGroundsDiffer ==
  ASSUME choice \in LoadChoices, NEW c \in LoadCheck, NEW d \in LoadCheck, c # d
  PROVE  LoadGround(c) # LoadGround(d) /\ LoadGround(c) # Admin
  <1>1. /\ LoadGround("players") = choice.player /\ LoadGround("popular") = choice.popular
        /\ LoadGround("adminBilling") = choice.target /\ LoadGround("tenantBilling") = tBill
    BY DEF LoadGround
  <1>2. /\ choice.player # choice.popular /\ choice.target \notin {choice.player, choice.popular}
        /\ {choice.player, choice.popular, choice.target} \subseteq InitialId
    BY ChoiceIs
  <1>3. c \in {"players", "popular", "adminBilling", "tenantBilling"} /\ d \in {"players", "popular", "adminBilling", "tenantBilling"}
    BY DEF LoadCheck
  <1> QED
    BY <1>1, <1>2, <1>3, BillTenantIs

-----------------------------------------------------------------------------
(* Sums: the recursive function they are made with exists, and takes the       *)
(* elements in any order.                                                      *)

Sums(g, f, D) ==
    g = [s \in SUBSET D |-> IF s = {} THEN 0
                            ELSE f[CHOOSE x \in s : TRUE] + g[s \ {CHOOSE x \in s : TRUE}]]
Upto(D, n) == {s \in SUBSET D : IsFiniteSet(s) /\ Cardinality(s) <= n}

LEMMA UptoIs ==
  ASSUME NEW D, NEW n \in Nat
  PROVE  /\ \A s \in Upto(D, n + 1) : \A x \in s : s \ {x} \in Upto(D, n)
         /\ \A s \in Upto(D, 0) : s = {}
         /\ Upto(D, n) \subseteq Upto(D, n + 1)
         /\ IsFiniteSet(D) /\ Cardinality(D) <= n => Upto(D, n) = SUBSET D
  <1>1. ASSUME NEW s \in Upto(D, n + 1), NEW x \in s PROVE s \ {x} \in Upto(D, n)
    <2>1. IsFiniteSet(s \ {x}) /\ Cardinality(s \ {x}) = Cardinality(s) - 1 /\ Cardinality(s) \in Nat
      BY FS_RemoveElement, FS_CardinalityType DEF Upto
    <2> QED
      BY <2>1 DEF Upto
  <1>2. ASSUME NEW s \in Upto(D, 0) PROVE s = {}
    BY FS_EmptySet, FS_CardinalityType DEF Upto
  <1>3. Upto(D, n) \subseteq Upto(D, n + 1)
    BY FS_CardinalityType DEF Upto
  <1>4. ASSUME IsFiniteSet(D), Cardinality(D) <= n PROVE Upto(D, n) = SUBSET D
    <2>1. ASSUME NEW s \in SUBSET D PROVE s \in Upto(D, n)
      BY <1>4, FS_Subset, FS_CardinalityType DEF Upto
    <2> QED
      BY <2>1 DEF Upto
  <1> QED
    BY <1>1, <1>2, <1>3, <1>4

LEMMA SumsExist ==
  ASSUME NEW f, NEW D, IsFiniteSet(D)
  PROVE  \E g : Sums(g, f, D)
  <1> DEFINE first(s) == CHOOSE x \in s : TRUE
             Unfolds(n, g) == g = [s \in Upto(D, n) |-> IF s = {} THEN 0 ELSE f[first(s)] + g[s \ {first(s)}]]
             S == {n \in Nat : \E g : Unfolds(n, g)}
  <1>1. 0 \in S
    <2> DEFINE g == [s \in Upto(D, 0) |-> 0]
    <2>1. \A s \in Upto(D, 0) : s = {}
      BY UptoIs
    <2>2. Unfolds(0, g)
      BY <2>1
    <2> QED
      BY <2>2
  <1>2. ASSUME NEW n \in Nat, n \in S PROVE n + 1 \in S
    <2>1. PICK g : Unfolds(n, g)
      BY <1>2
    <2> DEFINE h == [s \in Upto(D, n + 1) |-> IF s \in Upto(D, n) THEN g[s]
                                              ELSE IF s = {} THEN 0 ELSE f[first(s)] + g[s \ {first(s)}]]
    <2>2. \A s \in Upto(D, n) : g[s] = IF s = {} THEN 0 ELSE f[first(s)] + g[s \ {first(s)}]
      BY <2>1, Zenon
    <2>3. ASSUME NEW s \in Upto(D, n + 1), s # {}
          PROVE  s \ {first(s)} \in Upto(D, n) /\ s \ {first(s)} \in Upto(D, n + 1)
      <3>1. first(s) \in s
        BY <2>3
      <3> HIDE DEF first
      <3> QED
        BY <3>1, UptoIs
    <2>4. \A s \in Upto(D, n + 1) : s # {} => h[s \ {first(s)}] = g[s \ {first(s)}]
      BY <2>3
    <2>5. ASSUME NEW s \in Upto(D, n + 1)
          PROVE  h[s] = IF s = {} THEN 0 ELSE f[first(s)] + h[s \ {first(s)}]
      <3>1. h[s] = IF s \in Upto(D, n) THEN g[s] ELSE IF s = {} THEN 0 ELSE f[first(s)] + g[s \ {first(s)}]
        BY Zenon
      <3> HIDE DEF first, h, Unfolds
      <3> QED
        BY <2>2, <2>4, <3>1
    <2>6. h = [s \in Upto(D, n + 1) |-> h[s]]
      OBVIOUS
    <2>7. Unfolds(n + 1, h)
      <3> HIDE DEF first, h
      <3> QED
        BY <2>5, <2>6
    <2> HIDE DEF Unfolds, h
    <2> QED
      BY <2>7
  <1> HIDE DEF Unfolds, first
  <1>3. Cardinality(D) \in S
    BY <1>1, <1>2, FS_CardinalityType, Induction
  <1>4. Upto(D, Cardinality(D)) = SUBSET D
    BY FS_CardinalityType, UptoIs
  <1> QED
    BY <1>3, <1>4 DEF Unfolds, Sums, first

LEMMA SumIs ==
  ASSUME NEW f, IsFiniteSet(DOMAIN f)
  PROVE  \E g : Sums(g, f, DOMAIN f) /\ SumFunction(f) = g[DOMAIN f]
  <1> DEFINE g == CHOOSE g : Sums(g, f, DOMAIN f)
  <1>1. Sums(g, f, DOMAIN f)
    BY SumsExist, Zenon
  <1>2. SumFunction(f) = g[DOMAIN f]
    BY DEF SumFunction, SumFunctionOnSet, FoldFunctionOnSet, MapThenFoldSet, Sums
  <1> QED
    BY <1>1, <1>2

LEMMA SumsTake ==
  ASSUME NEW D, IsFiniteSet(D), NEW f \in [D -> Int], NEW g, Sums(g, f, D)
  PROVE  /\ g[{}] = 0
         /\ \A s \in SUBSET D : g[s] \in Int /\ \A y \in s : g[s] = f[y] + g[s \ {y}]
  <1> DEFINE first(s) == CHOOSE x \in s : TRUE
             Right(s) == g[s] \in Int /\ \A y \in s : g[s] = f[y] + g[s \ {y}]
             S == {n \in Nat : \A s \in Upto(D, n) : Right(s)}
  <1>1. \A s \in SUBSET D : g[s] = IF s = {} THEN 0 ELSE f[first(s)] + g[s \ {first(s)}]
    BY Zenon DEF Sums
  <1>2. \A s \in SUBSET D : s # {} => first(s) \in s
    OBVIOUS
  <1> HIDE DEF first
  <1>0. g[{}] = 0 /\ Right({})
    <2>1. {} \in SUBSET D
      OBVIOUS
    <2>2. g[{}] = 0
      BY <1>1, <2>1
    <2> QED
      BY <2>2
  <1> HIDE DEF Right
  <1>3. 0 \in S
    BY <1>0, UptoIs
  <1>4. ASSUME NEW n \in Nat, n \in S PROVE n + 1 \in S
    <2> SUFFICES ASSUME NEW s \in Upto(D, n + 1), s # {} PROVE Right(s)
      BY <1>0
    <2> DEFINE x == first(s)
    <2>1. x \in s /\ s \in SUBSET D /\ s \ {x} \in Upto(D, n) /\ g[s] = f[x] + g[s \ {x}] /\ f[x] \in Int
      BY <1>1, <1>2, UptoIs DEF Upto
    <2>2. g[s \ {x}] \in Int
      BY <1>4, <2>1 DEF Right
    <2>3. ASSUME NEW y \in s, y # x PROVE g[s] = f[y] + g[s \ {y}]
      <3>1. s \ {y} \in Upto(D, n) /\ s \ {x} \in Upto(D, n) /\ y \in s \ {x} /\ x \in s \ {y}
        BY <2>1, <2>3, UptoIs
      <3>2. g[s \ {x}] = f[y] + g[(s \ {x}) \ {y}] /\ g[s \ {y}] = f[x] + g[(s \ {y}) \ {x}]
        BY <1>4, <3>1 DEF Right
      <3>3. (s \ {x}) \ {y} = (s \ {y}) \ {x}
        OBVIOUS
      <3>4. g[(s \ {x}) \ {y}] \in Int /\ f[y] \in Int
        <4>1. (s \ {x}) \ {y} \in SUBSET D
          BY <2>1
        <4>2. (s \ {x}) \ {y} \in Upto(D, n)
          BY <3>1, <4>1, FS_Subset, FS_CardinalityType DEF Upto
        <4> QED
          BY <1>4, <2>1, <4>2 DEF Right
      <3>5. f[x] \in Int /\ g[s] = f[x] + g[s \ {x}]
        BY <2>1
      <3> DEFINE w == g[(s \ {x}) \ {y}]
                 a == f[x]
                 b == f[y]
                 u == g[s \ {x}]
                 v == g[s \ {y}]
      <3>6. u = b + w /\ v = a + w /\ g[s] = a + u /\ w \in Int /\ a \in Int /\ b \in Int
        BY <3>2, <3>3, <3>4, <3>5
      <3> HIDE DEF w, a, b, u, v
      <3>7. g[s] = b + v
        BY <3>6
      <3> QED
        BY <3>7 DEF b, v
    <2>4. g[s] \in Int /\ g[s] = f[x] + g[s \ {x}]
      BY <2>1, <2>2
    <2> HIDE DEF x
    <2> QED
      BY <2>3, <2>4 DEF Right
  <1>5. Cardinality(D) \in S
    BY <1>3, <1>4, FS_CardinalityType, Induction
  <1>6. Upto(D, Cardinality(D)) = SUBSET D
    BY FS_CardinalityType, UptoIs
  <1> QED
    BY <1>0, <1>5, <1>6 DEF Right

(* Two functions have the same sum over the elements where they agree. *)
LEMMA SumsAgree ==
  ASSUME NEW D, IsFiniteSet(D), NEW f, NEW g, Sums(g, f, D),
         NEW E, NEW h, NEW k, Sums(k, h, E), NEW s, s \subseteq D, s \subseteq E, \A x \in s : f[x] = h[x]
  PROVE  g[s] = k[s]
  <1> DEFINE first(r) == CHOOSE x \in r : TRUE
             S == {n \in Nat : \A r \in Upto(s, n) : g[r] = k[r]}
  <1>1. /\ \A r \in SUBSET s : g[r] = IF r = {} THEN 0 ELSE f[first(r)] + g[r \ {first(r)}]
        /\ \A r \in SUBSET s : k[r] = IF r = {} THEN 0 ELSE h[first(r)] + k[r \ {first(r)}]
    <2>1. \A r \in SUBSET D : g[r] = IF r = {} THEN 0 ELSE f[first(r)] + g[r \ {first(r)}]
      BY Zenon DEF Sums
    <2>2. \A r \in SUBSET E : k[r] = IF r = {} THEN 0 ELSE h[first(r)] + k[r \ {first(r)}]
      BY Zenon DEF Sums
    <2> HIDE DEF first
    <2> QED
      BY <2>1, <2>2
  <1>2. \A r \in SUBSET s : r # {} => first(r) \in r
    OBVIOUS
  <1> HIDE DEF first
  <1>3. 0 \in S
    BY <1>1, UptoIs DEF Upto
  <1>4. ASSUME NEW n \in Nat, n \in S PROVE n + 1 \in S
    <2> SUFFICES ASSUME NEW r \in Upto(s, n + 1), r # {} PROVE g[r] = k[r]
      <3>1. g[{}] = 0 /\ k[{}] = 0
        <4>1. {} \in SUBSET s
          OBVIOUS
        <4> QED
          BY <1>1, <4>1
      <3> QED
        BY <3>1
    <2>1. r \in SUBSET s /\ first(r) \in r /\ r \ {first(r)} \in Upto(s, n)
      BY <1>2, UptoIs DEF Upto
    <2>2. g[r \ {first(r)}] = k[r \ {first(r)}] /\ f[first(r)] = h[first(r)]
      BY <1>4, <2>1
    <2> QED
      BY <1>1, <2>1, <2>2
  <1>5. IsFiniteSet(s) /\ Cardinality(s) \in Nat
    BY FS_Subset, FS_CardinalityType
  <1>6. Cardinality(s) \in S
    BY <1>3, <1>4, <1>5, Induction
  <1>7. s \in Upto(s, Cardinality(s))
    BY <1>5 DEF Upto
  <1> QED
    BY <1>6, <1>7

(* One element makes the difference of two sums; one is what another adds. *)
LEMMA SumChanges ==
  ASSUME NEW D, IsFiniteSet(D), NEW y \in D, NEW f \in [D -> Int], NEW h \in [D -> Int],
         \A x \in D : x # y => f[x] = h[x]
  PROVE  SumFunction(f) \in Int /\ SumFunction(h) = SumFunction(f) + (h[y] - f[y])
  <1>1. PICK g : Sums(g, f, D) /\ SumFunction(f) = g[D]
    BY SumIs
  <1>2. PICK k : Sums(k, h, D) /\ SumFunction(h) = k[D]
    BY SumIs
  <1>3. g[D] = f[y] + g[D \ {y}] /\ k[D] = h[y] + k[D \ {y}] /\ g[D] \in Int /\ k[D] \in Int
        /\ g[D \ {y}] \in Int
    <2>1. D \in SUBSET D /\ D \ {y} \in SUBSET D
      OBVIOUS
    <2>2. \A s \in SUBSET D : g[s] \in Int /\ \A x \in s : g[s] = f[x] + g[s \ {x}]
      BY <1>1, SumsTake
    <2>3. \A s \in SUBSET D : k[s] \in Int /\ \A x \in s : k[s] = h[x] + k[s \ {x}]
      BY <1>2, SumsTake
    <2> QED
      BY <2>1, <2>2, <2>3
  <1>4. g[D \ {y}] = k[D \ {y}]
    <2>1. D \ {y} \subseteq D /\ \A x \in D \ {y} : f[x] = h[x]
      OBVIOUS
    <2> QED
      BY <1>1, <1>2, <2>1, SumsAgree
  <1>5. f[y] \in Int /\ h[y] \in Int
    OBVIOUS
  <1> QED
    BY <1>1, <1>2, <1>3, <1>4, <1>5

IsOneMore(E, D, y) == E = D \cup {y}

LEMMA SumGrows ==
  ASSUME NEW D, IsFiniteSet(D), NEW y, y \notin D, NEW E, IsOneMore(E, D, y),
         NEW f \in [D -> Int], NEW h \in [E -> Int], \A x \in D : f[x] = h[x]
  PROVE  SumFunction(f) \in Int /\ SumFunction(h) = SumFunction(f) + h[y]
  <1>1. IsFiniteSet(E)
    BY FS_AddElement DEF IsOneMore
  <1>2. PICK g : Sums(g, f, D) /\ SumFunction(f) = g[D]
    BY SumIs
  <1>3. PICK k : Sums(k, h, E) /\ SumFunction(h) = k[E]
    BY <1>1, SumIs
  <1>4. g[D] \in Int
    <2>1. D \in SUBSET D
      OBVIOUS
    <2> QED
      BY <1>2, <2>1, SumsTake
  <1>5. k[E] = h[y] + k[D] /\ h[y] \in Int
    <2>1. E \in SUBSET E /\ y \in E /\ E \ {y} = D
      BY DEF IsOneMore
    <2>2. \A s \in SUBSET E : k[s] \in Int /\ \A x \in s : k[s] = h[x] + k[s \ {x}]
      BY <1>1, <1>3, SumsTake
    <2> QED
      BY <2>1, <2>2
  <1>6. g[D] = k[D]
    <2>1. D \subseteq D /\ D \subseteq E
      BY DEF IsOneMore
    <2> QED
      BY <1>2, <1>3, <2>1, SumsAgree
  <1> QED
    BY <1>2, <1>3, <1>4, <1>5, <1>6

-----------------------------------------------------------------------------
(* The scripts of the workers of the load *)

Ups == Rising(PlayersDrawn, 1000)
Downs == Falling(PlayersDrawn, 1000)
JobRows(again) == Rising(PlayersDrawn, 500) \o again

LEMMA LoadScriptIs ==
  ASSUME choice \in LoadChoices
  PROVE  /\ IsJoined(Script("players", choice), PlayersBefore(choice.player), PlayersAfter(choice.player))
         /\ Script("tenantBilling", choice) = TenantBillingScript
         /\ Script("adminBilling", choice) = AdminBillingScript(choice.target, choice.cursor)
         /\ Script("popular", choice) = PopularScript(choice.popular)
  BY SMTT(30) DEF Script, PrepareCheck, LoadScripts, IsJoined

LEMMA PlayersSteps ==
  ASSUME choice \in LoadChoices
  PROVE  LET s == Script("players", choice)
             g == choice.player
             org == OrganizerOf(g)
             checker == As("player", g, 1)
             loser == As("player", g, 2)
         IN  /\ Len(s) = 19
             /\ s[1] = Must("list", "players", org, Nothing)
             /\ s[2] = Must("competitions_add", "competitions_add", org, Nothing)
             /\ s[3] = Must("upload", "score", org, FileOf(NewOne, Ups))
             /\ s[4] = Must("page", "player", checker, [player |-> 1])
             /\ s[5] = Must("page", "player", checker, [player |-> 2])
             /\ s[6] = Must("ranking_before", "ranking", checker, Of(NewOne))
             /\ s[7] = Must("competitions", "player_competitions", checker, Nothing)
             /\ s[8] = Must("enters", "player", loser, [player |-> 2])
             /\ s[9] = Must("enters", "ranking", loser, Of(NewOne))
             /\ s[10] = Must("enters", "player_competitions", loser, Nothing)
             /\ s[11] = Must("disqualified", "disqualified", org, [player |-> 2])
             /\ s[12] = Must("upload", "score", org, FileOf(NewOne, Downs))
             /\ s[13] = Must("ranking_after", "ranking", checker, Of(NewOne))
             /\ s[14] = Must("finish", "finish", org, Of(NewOne))
             /\ s[15] = Must("competitions", "player_competitions", checker, Nothing)
             /\ s[16] = Must("page_disqualified", "player", checker, [player |-> 2])
             /\ s[17] = Refused403("refused", "player", loser, [player |-> 2])
             /\ s[18] = Refused403("refused", "ranking", loser, Of(NewOne))
             /\ s[19] = Refused403("refused", "player_competitions", loser, Nothing)
  <1> DEFINE a == PlayersBefore(choice.player)
             b == PlayersAfter(choice.player)
             s == Script("players", choice)
  <1>1. IsJoined(s, a, b)
    BY LoadScriptIs
  <1>2. Lasts(a, 10) /\ Lasts(b, 9)
    BY DEF PlayersBefore, PlayersAfter, Lasts
  <1>3. /\ Lasts(s, 19)
        /\ \A i \in 1..19 : s[i] = IF i <= 10 THEN a[i] ELSE b[i - 10]
    <2> HIDE DEF a, b, s
    <2> QED
      BY <1>1, <1>2, Joined, SMTT(30)
  <1> HIDE DEF s
  <1>4. /\ s[1] = a[1] /\ s[2] = a[2] /\ s[3] = a[3] /\ s[4] = a[4] /\ s[5] = a[5] /\ s[6] = a[6]
        /\ s[7] = a[7] /\ s[8] = a[8] /\ s[9] = a[9] /\ s[10] = a[10]
    <2> HIDE DEF a, b
    <2> QED
      BY <1>3
  <1>5. /\ s[11] = b[1] /\ s[12] = b[2] /\ s[13] = b[3] /\ s[14] = b[4] /\ s[15] = b[5] /\ s[16] = b[6]
        /\ s[17] = b[7] /\ s[18] = b[8] /\ s[19] = b[9]
    <2> HIDE DEF a, b
    <2> QED
      BY <1>3
  <1>6. Len(s) = 19
    BY <1>3, LastsIs
  <1> QED
    BY <1>4, <1>5, <1>6 DEF PlayersBefore, PlayersAfter, PlayersUpload, Rising, Falling, DrawnPlayer, s, Ups, Downs

(* What the players look at when the job is over. *)
LastLooks(g) == {Request("ranking", As("player", g, p), Of(c)) : p \in DrawnPlayer, c \in 1..NewOne}
WorkerStep(g) == [Must("worker_ranking", "ranking", OrganizerOf(g), Nothing) EXCEPT !.ask = LastLooks(g)]

(* The steps of a job from step n on. *)
JobSteps(s, n, g, again) ==
    /\ s[n] = Must("job_list", "players", OrganizerOf(g), Nothing)
    /\ s[n + 1] = Must("competitions_add", "competitions_add", OrganizerOf(g), Nothing)
    /\ s[n + 2] = Must("job_ranking", "ranking", As("player", g, 1), Of(NewOne))
    /\ s[n + 3] = Must("job_upload", "score", OrganizerOf(g), FileOf(NewOne, JobRows(again)))
    /\ s[n + 4] = Must("finish", "finish", OrganizerOf(g), Of(NewOne))
    /\ s[n + 5] = WorkerStep(g)

LEMMA JobIs ==
  ASSUME NEW g, NEW again
  PROVE  Lasts(JobScript(g, again), 6) /\ JobSteps(JobScript(g, again), 1, g, again)
  <1> DEFINE last == WorkerStep(g)
             s == JobScript(g, again)
             rows == Rows([p \in DrawnPlayer |-> 500 + p]) \o again
  <1>1. s = << Must("job_list", "players", OrganizerOf(g), Nothing),
               Must("competitions_add", "competitions_add", OrganizerOf(g), Nothing),
               Must("job_ranking", "ranking", As("player", g, 1), Of(NewOne)),
               Must("job_upload", "score", OrganizerOf(g), FileOf(NewOne, rows)),
               Must("finish", "finish", OrganizerOf(g), Of(NewOne)),
               last >>
    BY DEF JobScript, WorkerStep, LastLooks
  <1>2. rows = JobRows(again)
    BY DEF JobRows, Rising, DrawnPlayer
  <1>3. last = WorkerStep(g)
    OBVIOUS
  <1> HIDE DEF last, s, rows
  <1>4. Lasts(s, 6)
    BY <1>1 DEF Lasts
  <1>5. JobSteps(s, 1, g, again)
    BY <1>1, <1>2, <1>3 DEF JobSteps
  <1> QED
    BY <1>4, <1>5 DEF s

BillsPage(name) == Must(name, "tenants_billing", AdminAs, [before |-> choice.cursor])

LEMMA AdminBillingSteps ==
  ASSUME choice \in LoadChoices
  PROVE  LET s == Script("adminBilling", choice)
         IN  /\ Len(s) = 8 /\ s[1] = BillsPage("page") /\ s[8] = BillsPage("page_again")
             /\ JobSteps(s, 2, choice.target, <<>>)
  <1> DEFINE page(name) == <<Must(name, "tenants_billing", AdminAs, [before |-> choice.cursor])>>
             job == JobScript(choice.target, <<>>)
             a == page("page") \o job
             b == page("page_again")
             p == page("page")
             s == Script("adminBilling", choice)
  <1>1. IsJoined(a, p, job) /\ IsJoined(s, a, b)
    BY LoadScriptIs DEF AdminBillingScript, IsJoined
  <1>2. Lasts(p, 1) /\ Lasts(b, 1) /\ p[1] = BillsPage("page") /\ b[1] = BillsPage("page_again")
    BY DEF Lasts, BillsPage
  <1>3. Lasts(job, 6) /\ JobSteps(job, 1, choice.target, <<>>)
    BY JobIs
  <1> HIDE DEF a, b, p, s, job
  <1>4. Lasts(a, 7) /\ \A i \in 1..7 : a[i] = IF i <= 1 THEN p[i] ELSE job[i - 1]
    <2>1. Lasts(a, 1 + 6) /\ \A i \in 1..(1 + 6) : a[i] = IF i <= 1 THEN p[i] ELSE job[i - 1]
      BY <1>1, <1>2, <1>3, Joined
    <2> QED
      BY <2>1
  <1>5. Lasts(s, 8) /\ \A i \in 1..8 : s[i] = IF i <= 7 THEN a[i] ELSE b[i - 7]
    <2>1. Lasts(s, 7 + 1) /\ \A i \in 1..(7 + 1) : s[i] = IF i <= 7 THEN a[i] ELSE b[i - 7]
      BY <1>1, <1>2, <1>4, Joined
    <2> QED
      BY <2>1
  <1>6. /\ s[1] = p[1] /\ s[8] = b[1]
        /\ s[2] = job[1] /\ s[3] = job[2] /\ s[4] = job[3] /\ s[5] = job[4] /\ s[6] = job[5] /\ s[7] = job[6]
    BY <1>4, <1>5
  <1>7. JobSteps(s, 2, choice.target, <<>>)
    BY <1>3, <1>6 DEF JobSteps
  <1> QED
    BY <1>2, <1>5, <1>6, <1>7, LastsIs DEF s

LEMMA PopularSteps ==
  ASSUME choice \in LoadChoices
  PROVE  LET s == Script("popular", choice)
             org == OrganizerOf(choice.popular)
         IN  /\ Len(s) = 8 /\ JobSteps(s, 1, choice.popular, <<Line(1, 400)>>)
             /\ s[7] = Must("popular_billing", "billing", org, Nothing)
             /\ s[8] = Must("popular_players", "players_add", org, [n |-> 2])
  <1> DEFINE org == OrganizerOf(choice.popular)
             job == JobScript(choice.popular, <<Line(1, 400)>>)
             b == << Must("popular_billing", "billing", org, Nothing),
                     Must("popular_players", "players_add", org, [n |-> 2]) >>
             s == Script("popular", choice)
  <1>1. IsJoined(s, job, b)
    BY LoadScriptIs DEF PopularScript, IsJoined
  <1>2. Lasts(b, 2) /\ b[1] = Must("popular_billing", "billing", org, Nothing)
        /\ b[2] = Must("popular_players", "players_add", org, [n |-> 2])
    BY DEF Lasts
  <1>3. Lasts(job, 6) /\ JobSteps(job, 1, choice.popular, <<Line(1, 400)>>)
    BY JobIs
  <1> HIDE DEF b, s, job
  <1>4. Lasts(s, 8) /\ \A i \in 1..8 : s[i] = IF i <= 6 THEN job[i] ELSE b[i - 6]
    <2>1. Lasts(s, 6 + 2) /\ \A i \in 1..(6 + 2) : s[i] = IF i <= 6 THEN job[i] ELSE b[i - 6]
      BY <1>1, <1>2, <1>3, Joined
    <2> QED
      BY <2>1
  <1>5. /\ s[1] = job[1] /\ s[2] = job[2] /\ s[3] = job[3] /\ s[4] = job[4] /\ s[5] = job[5] /\ s[6] = job[6]
        /\ s[7] = b[1] /\ s[8] = b[2]
    BY <1>4
  <1>6. JobSteps(s, 1, choice.popular, <<Line(1, 400)>>)
    BY <1>3, <1>5 DEF JobSteps
  <1> QED
    BY <1>2, <1>4, <1>5, <1>6, LastsIs DEF s

-----------------------------------------------------------------------------
(* What a worker of the load has made of its tenant before each of its steps *)

(* One more competition beside those of the initial data. *)
Entered(D, k) == Holding(PlayersDrawn, D, Append(Base, k))

PlayersTable(t, i) ==
    /\ i \in {1, 2} => t = initial.tenant
    /\ i = 3 => t = Entered({}, Open(<<>>, {}))
    /\ i \in {4, 5, 6} => t = Entered({}, Open(Ups, {}))
    /\ i \in {7, 8, 9} => t = Entered({}, Open(Ups, {1}))
    /\ i \in {10, 11} => t = Entered({}, Open(Ups, {1, 2}))
    /\ i = 12 => t = Entered({2}, Open(Ups, {1, 2}))
    /\ i \in {13, 14} => t = Entered({2}, Open(Downs, {1, 2}))
    /\ i \in 15..19 => t = Entered({2}, Closed(Downs, {1, 2}))

(* Its competitions owe what these do: what they were looked at since is of no  *)
(* account.                                                                    *)
LookedAt(t, cs) ==
    \E ds : /\ t = Holding(PlayersDrawn, {}, ds) /\ DOMAIN ds = DOMAIN cs
            /\ \A c \in DOMAIN cs : Report(ds[c]) = Report(cs[c])

JobTable(t, j, rows) ==
    /\ j \in {0, 1, 2} => t = initial.tenant
    /\ j = 3 => t = Entered({}, Open(<<>>, {}))
    /\ j = 4 => t = Entered({}, Open(<<>>, {1}))
    /\ j = 5 => t = Entered({}, Open(rows, {1}))
    /\ j = 6 => t = Entered({}, Closed(rows, {1}))
    /\ j \in {7, 8} => LookedAt(t, Append(Base, Closed(rows, {1})))

(* The rounds of the worker for the bills of one tenant. *)
RoundRows(k) == Rising(Rounds[k].scored, 100)
RoundVisits(k) == Rounds[k].visitors - Rounds[k].scored
Came(k, n) == {Rounds[k].scored + i : i \in 1..n}
RoundClosed(k) == Closed(RoundRows(k), Came(k, RoundVisits(k)))
Past(n) == [k \in 1..n |-> RoundClosed(k)]
Billed(cs) == Holding(2 * PlayerNum, {}, cs)

RoundLength(k) == RoundVisits(k) + 4
RoundTable(t, k, j) ==
    /\ j = 1 => t = Billed(Past(k - 1))
    /\ j = 2 => t = Billed(Append(Past(k - 1), Open(<<>>, {})))
    /\ j \in 3..(RoundVisits(k) + 3) => t = Billed(Append(Past(k - 1), Open(RoundRows(k), Came(k, j - 3))))
    /\ j = RoundVisits(k) + 4 => t = Billed(Append(Past(k - 1), RoundClosed(k)))

RoundSteps(k) ==
    LET org == OrganizerOf(tBill)
    IN  << Must("competitions_add", "competitions_add", org, Nothing),
           Must("upload", "score", org, FileOf(k, RoundRows(k))) >>
        \o [i \in 1..RoundVisits(k) |->
               Must("visit", "ranking", As("player", tBill, Rounds[k].scored + i), Of(k))]
        \o << Must("finish", "finish", org, Of(k)), Must("billing", "billing", org, Of(k)) >>
AllRounds == [k \in DOMAIN Rounds |-> RoundSteps(k)]

(* Where each round begins in the script. *)
Offsets ==
    CHOOSE o : Blocks(o, Len(AllRounds), AllRounds) /\ InPlace(FlattenSeq(AllRounds), o, Len(AllRounds), AllRounds)

BillTable(t, i) ==
    /\ i = 2 => t = Holding(0, {}, <<>>)
    /\ i > 2 => \/ i = Length("tenantBilling") + 1
                \/ \E k \in DOMAIN Rounds : \E j \in 1..RoundLength(k) :
                      i = 2 + Offsets[k] + j /\ RoundTable(t, k, j)

OldPage == [n \in CursorPage |-> Yen(initial.tenant)]

LoadTable(c, t, i, m) ==
    /\ c = "players" => PlayersTable(t, i) /\ (i >= 7 => m = PageOf(Ups, 0))
    /\ c = "adminBilling" => JobTable(t, i - 1, JobRows(<<>>)) /\ (i >= 2 => m = OldPage)
    /\ c = "popular" => JobTable(t, i, JobRows(<<Line(1, 400)>>))
    /\ c = "tenantBilling" => BillTable(t, i)

(* Each request of its step i is answered as it must be, and leaves the table   *)
(* of the next.                                                                *)
LoadPasses(c, i, t, known, m) ==
    LET s == Script(c, choice)[i]
    IN  \A q \in s.ask :
           LET r == Answer(t, q, known)
           IN  /\ Proper(q, LoadGround(c))
               /\ Fits(c, s, q, r.answer, m, initial.billing)
               /\ LoadTable(c, r.tenant, i + 1,
                            IF Remembered(c, s) /\ r.answer.status = 200 THEN r.answer.data ELSE m)

(* A request that is answered with d, and makes u of the table. *)
Answers(op, as, p, g, t, known, u, d) ==
    LET q == Request(op, as, p) IN Proper(q, g) /\ Answer(t, q, known) = Done(u, d)

LoadFits(c, name, q, d, m) ==
    CASE c = "players" -> PlayersFits(name, q, d, m)
      [] c = "tenantBilling" -> TenantBillingFits(name, q, d)
      [] c = "adminBilling" -> AdminBillingFits(name, q, d, m)
      [] OTHER -> JobFits(name, q, d)

LEMMA LoadFitsIs ==
  ASSUME NEW c \in LoadCheck, NEW s, NEW q, NEW a, NEW m, NEW b, a.status = s.status,
         a.status = 200 => LoadFits(c, s.name, q, a.data, m)
  PROVE  Fits(c, s, q, a, m, b)
  <1>1. c \in {"players", "tenantBilling", "adminBilling", "popular"}
    BY DEF LoadCheck
  <1>2. CASE c = "players"
    BY <1>2 DEF LoadFits, Fits
  <1>3. CASE c = "tenantBilling"
    BY <1>3 DEF LoadFits, Fits
  <1>4. CASE c = "adminBilling"
    BY <1>4 DEF LoadFits, Fits
  <1>5. CASE c = "popular"
    BY <1>5 DEF LoadFits, Fits
  <1> QED
    BY <1>1, <1>2, <1>3, <1>4, <1>5

LEMMA MustPasses ==
  ASSUME NEW c \in LoadCheck, NEW i, NEW name, NEW op, NEW as, NEW p, NEW t, NEW known, NEW m, NEW u, NEW d,
         Script(c, choice)[i] = Must(name, op, as, p),
         Answers(op, as, p, LoadGround(c), t, known, u, d),
         LoadFits(c, name, Request(op, as, p), d, m),
         LoadTable(c, u, i + 1, IF Remembered(c, Must(name, op, as, p)) THEN d ELSE m)
  PROVE  LoadPasses(c, i, t, known, m)
  <1> DEFINE s == Must(name, op, as, p)
             q == Request(op, as, p)
             r == Done(u, d)
  <1>1. s.name = name /\ s.status = 200 /\ s.ask = {q}
    BY DEF Must, Step
  <1>2. r.tenant = u /\ r.answer.status = 200 /\ r.answer.data = d
    BY AnswerIs
  <1>3. Proper(q, LoadGround(c)) /\ Answer(t, q, known) = r
    BY DEF Answers
  <1>30. LoadFits(c, name, q, d, m)
    OBVIOUS
  <1> HIDE DEF s, q, r
  <1>31. LoadFits(c, s.name, q, r.answer.data, m)
    BY <1>1, <1>2, <1>30
  <1>4. Fits(c, s, q, r.answer, m, initial.billing)
    BY <1>1, <1>2, <1>31, LoadFitsIs
  <1>5. LoadTable(c, r.tenant, i + 1, IF Remembered(c, s) /\ r.answer.status = 200 THEN r.answer.data ELSE m)
    BY <1>2 DEF s
  <1>6. Script(c, choice)[i] = s
    BY DEF s
  <1>7. \A x \in s.ask : x = q
    BY <1>1
  <1> QED
    BY <1>3, <1>4, <1>5, <1>6, <1>7 DEF LoadPasses

LEMMA RefusedPasses ==
  ASSUME NEW c \in LoadCheck, NEW i, NEW name, NEW op, NEW as, NEW p, NEW t, NEW known, NEW m,
         Script(c, choice)[i] = Refused403(name, op, as, p),
         Proper(Request(op, as, p), LoadGround(c)),
         Answer(t, Request(op, as, p), known) = Refused(t, 403),
         LoadTable(c, t, i + 1, m)
  PROVE  LoadPasses(c, i, t, known, m)
  <1> DEFINE s == Refused403(name, op, as, p)
             q == Request(op, as, p)
             r == Refused(t, 403)
  <1>1. s.status = 403 /\ s.ask = {q}
    BY DEF Refused403, Step
  <1>2. r.tenant = t /\ r.answer.status = 403
    BY AnswerIs
  <1> HIDE DEF s, q, r
  <1>4. Fits(c, s, q, r.answer, m, initial.billing)
    BY <1>1, <1>2, LoadFitsIs
  <1>5. LoadTable(c, r.tenant, i + 1, IF Remembered(c, s) /\ r.answer.status = 200 THEN r.answer.data ELSE m)
    BY <1>2
  <1>6. Script(c, choice)[i] = s /\ Proper(q, LoadGround(c)) /\ Answer(t, q, known) = r
    BY DEF s, q, r
  <1>7. \A x \in s.ask : x = q
    BY <1>1
  <1> QED
    BY <1>4, <1>5, <1>6, <1>7 DEF LoadPasses

-----------------------------------------------------------------------------
(* What there is of a tenant of the initial data, for its workers *)

(* Who meets a tenant of the initial data as the worker c of the load. *)
Meeting(c, known) ==
    /\ choice \in LoadChoices /\ InitialHeld(CompetitionsDrawn)
    /\ c \in LoadCheck /\ LoadGround(c) \in known

LEMMA MeetingIs ==
  ASSUME NEW c, NEW known, Meeting(c, known)
  PROVE  /\ LoadGround(c) # Admin /\ LoadGround(c) \in known /\ c \in LoadCheck
         /\ Base \in Seq(CompetitionSet) /\ IsNext(NewOne, Base)
         /\ initial.tenant = Holding(PlayersDrawn, {}, Base)
         /\ PlayersDrawn \in Nat /\ 2 <= PlayersDrawn /\ PlayersDrawn <= RankLimit /\ RankLimit \in Nat
         /\ \A D : 2 \notin D => Reader(2, PlayersDrawn, D)
         /\ \A D : 1 \notin D => Reader(1, PlayersDrawn, D)
  <1>1. LoadGround(c) # Admin
    <2>1. c \in LoadCheck /\ choice \in LoadChoices
      BY DEF Meeting
    <2>2. \E d \in LoadCheck : d # c
      BY DEF LoadCheck
    <2> QED
      BY <2>1, <2>2, LoadGroundsDiffer
  <1>2. PlayersDrawn \in Nat /\ 2 <= PlayersDrawn /\ PlayersDrawn <= RankLimit /\ RankLimit \in Nat
    BY InitialDataAssumption, ChecksAssumption, ServiceAssumption
  <1>3. /\ Base \in Seq(CompetitionSet) /\ IsNext(NewOne, Base)
        /\ initial.tenant = Holding(PlayersDrawn, {}, Base)
    BY DEF Meeting, InitialHeld, IsNext, NewOne
  <1>4. 1 \in 1..PlayersDrawn /\ 2 \in 1..PlayersDrawn
    BY <1>2
  <1> QED
    BY <1>1, <1>2, <1>3, <1>4 DEF Meeting, Reader

LEMMA FileOfIs ==
  ASSUME NEW c, NEW rows
  PROVE  /\ {"competition", "rows", "header", "columns"} \subseteq DOMAIN FileOf(c, rows)
         /\ FileOf(c, rows).competition = c /\ FileOf(c, rows).rows = rows /\ FileOf(c, rows).header /\ FileOf(c, rows).columns = 2
  BY DEF FileOf, File

(* The files that are sent to it. *)
LEMMA LoadRows ==
  ASSUME NEW n \in Nat, NEW a \in Nat
  PROVE  Sent(Rising(n, a), n, n) /\ Sent(Falling(n, a), n, n)
  <1>1. /\ Rising(n, a) \in Seq(Lines) /\ Len(Rising(n, a)) = n /\ DOMAIN Rising(n, a) = 1..n
        /\ \A i \in 1..n : Rising(n, a)[i].player = i
    BY RisingStandings, ZenonT(30)
  <1>2. /\ Falling(n, a) \in Seq(Lines) /\ Len(Falling(n, a)) = n /\ DOMAIN Falling(n, a) = 1..n
        /\ \A i \in 1..n : Falling(n, a)[i].player = i
    BY FallingStandings, ZenonT(30)
  <1> QED
    BY <1>1, <1>2 DEF Sent

LEMMA IsUploadOf ==
  ASSUME NEW c0, NEW n \in Nat, NEW n0 \in Nat, n0 <= n, NEW c, IsNext(c, c0), NEW rows, NEW m, Sent(rows, n0, m)
  PROVE  IsUpload(FileOf(c, rows), c0, n) /\ FileOf(c, rows).rows = rows /\ Len(rows) = m
  <1>1. rows \in Seq(Lines) /\ \A i \in DOMAIN rows : rows[i].player \in 1..n
    BY DEF Sent
  <1> QED
    BY <1>1, FileOfIs DEF IsUpload, Sent

(* Requests of the workers and their answers, of a tenant with some competitions. *)
Tenanting(g, known, c0, n, c) ==
    /\ g \in known /\ g # Admin /\ c0 \in Seq(CompetitionSet) /\ n \in Nat /\ IsNext(c, c0)

LEMMA OfIs ==
  ASSUME NEW c0, NEW c, IsNext(c, c0)
  PROVE  /\ "competition" \in DOMAIN Of(c) /\ IsNext(Of(c).competition, c0) /\ Reading(Of(c), c0) /\ Of(c).after = 0
         /\ Of(c).competition = c
  BY DEF Of, Reading

LEMMA AddAnswers ==
  ASSUME NEW g, NEW known, NEW c0, NEW n, NEW c, Tenanting(g, known, c0, n, c), NEW D
  PROVE  Answers("competitions_add", OrganizerOf(g), Nothing, g, Holding(n, D, c0), known,
                 Holding(n, D, Append(c0, Open(<<>>, {}))), c)
  BY AskCompetition DEF Tenanting, Answers, IsNext

LEMMA UploadAnswers ==
  ASSUME NEW g, NEW known, NEW c0, NEW n, NEW c, Tenanting(g, known, c0, n, c), NEW D,
         NEW R, NEW V, Kept(R, V), NEW n0 \in Nat, n0 <= n, NEW rows, NEW m, Sent(rows, n0, m)
  PROVE  Answers("score", OrganizerOf(g), FileOf(c, rows), g, Holding(n, D, Append(c0, Open(R, V))), known,
                 Holding(n, D, Append(c0, Open(rows, V))), m)
  <1>1. g \in known /\ g # Admin /\ c0 \in Seq(CompetitionSet) /\ n \in Nat /\ IsNext(c, c0)
    BY DEF Tenanting
  <1>2. R \in Seq(Lines) /\ V \in SUBSET Nat
    BY DEF Kept
  <1> DEFINE p == FileOf(c, rows)
  <1>3. IsUpload(p, c0, n) /\ p.rows = rows /\ Len(rows) = m
    BY <1>1, IsUploadOf
  <1> HIDE DEF p
  <1>4. LET q == Request("score", OrganizerOf(g), p)
        IN  /\ Proper(q, g)
            /\ Answer(Holding(n, D, Append(c0, Open(R, V))), q, known)
                   = Done(Holding(n, D, Append(c0, Open(p.rows, V))), Len(p.rows))
    BY <1>1, <1>2, <1>3, AskScore
  <1> QED
    BY <1>3, <1>4 DEF Answers, p

LEMMA RankingAnswers ==
  ASSUME NEW g, NEW known, NEW c0, NEW n, NEW c, Tenanting(g, known, c0, n, c), NEW D,
         NEW R, NEW V, Kept(R, V), NEW r \in Nat, Reader(r, n, D)
  PROVE  Answers("ranking", As("player", g, r), Of(c), g, Holding(n, D, Append(c0, Open(R, V))), known,
                 Holding(n, D, Append(c0, Open(R, V \cup {r}))), PageOf(R, 0))
  <1>1. g \in known /\ g # Admin /\ c0 \in Seq(CompetitionSet) /\ n \in Nat /\ IsNext(c, c0)
    BY DEF Tenanting
  <1>2. R \in Seq(Lines) /\ V \in SUBSET Nat
    BY DEF Kept
  <1> DEFINE p == Of(c)
  <1>3. Reading(p, c0) /\ p.after = 0
    BY <1>1, OfIs
  <1> HIDE DEF p
  <1>4. LET q == Request("ranking", As("player", g, r), p)
        IN  /\ Proper(q, g)
            /\ Answer(Holding(n, D, Append(c0, Open(R, V))), q, known)
                     = Done(Holding(n, D, Append(c0, Open(R, V \cup {r}))), PageOf(R, p.after))
    BY <1>1, <1>2, <1>3, AskRanking
  <1> QED
    BY <1>3, <1>4 DEF Answers, p

LEMMA FinishAnswers ==
  ASSUME NEW g, NEW known, NEW c0, NEW n, NEW c, Tenanting(g, known, c0, n, c), NEW D,
         NEW R, NEW V, Kept(R, V)
  PROVE  Answers("finish", OrganizerOf(g), Of(c), g, Holding(n, D, Append(c0, Open(R, V))), known,
                 Holding(n, D, Append(c0, Closed(R, V))), {})
  <1>1. g \in known /\ g # Admin /\ c0 \in Seq(CompetitionSet) /\ n \in Nat /\ IsNext(c, c0)
    BY DEF Tenanting
  <1>2. R \in Seq(Lines) /\ V \in SUBSET Nat
    BY DEF Kept
  <1> DEFINE p == Of(c)
  <1>3. "competition" \in DOMAIN p /\ IsNext(p.competition, c0)
    BY <1>1, OfIs
  <1> HIDE DEF p
  <1>4. LET q == Request("finish", OrganizerOf(g), p)
        IN  /\ Proper(q, g)
            /\ Answer(Holding(n, D, Append(c0, Open(R, V))), q, known)
                     = Done(Holding(n, D, Append(c0, Closed(R, V))), {})
    BY <1>1, <1>2, <1>3, AskFinish
  <1> QED
    BY <1>3, <1>4 DEF Answers, p

LEMMA PageAnswers ==
  ASSUME NEW known, NEW g \in known, g # Admin, NEW n, NEW D, NEW cs, NEW r \in Nat, Reader(r, n, D), NEW x \in 1..n
  PROVE  Answers("player", As("player", g, r), [player |-> x], g, Holding(n, D, cs), known,
                 Holding(n, D, cs), Page(x, x \in D, ScoresOf(cs, x)))
  <1> DEFINE p == [player |-> x]
  <1>1. About(p) /\ p.player = x
    BY DEF About
  <1> HIDE DEF p
  <1>2. LET q == Request("player", As("player", g, r), p)
        IN  /\ Proper(q, g)
            /\ Answer(Holding(n, D, cs), q, known)
                  = Done(Holding(n, D, cs), Page(p.player, p.player \in D, ScoresOf(cs, p.player)))
    BY <1>1, AskPage
  <1> QED
    BY <1>1, <1>2 DEF Answers, p

LEMMA ListAnswers ==
  ASSUME NEW known, NEW g \in known, g # Admin, NEW n, NEW D, NEW cs
  PROVE  /\ Answers("players", OrganizerOf(g), Nothing, g, Holding(n, D, cs), known,
                    Holding(n, D, cs), [players |-> 1..n, disqualified |-> D])
         /\ Answers("billing", OrganizerOf(g), Nothing, g, Holding(n, D, cs), known, Holding(n, D, cs), BillOf(cs))
         /\ \A r \in 1..n : r \notin D =>
               Answers("player_competitions", As("player", g, r), Nothing, g, Holding(n, D, cs), known,
                       Holding(n, D, cs), DOMAIN cs)
  <1>1. ASSUME NEW r \in 1..n, r \notin D
        PROVE  Answers("player_competitions", As("player", g, r), Nothing, g, Holding(n, D, cs), known,
                       Holding(n, D, cs), DOMAIN cs)
    BY <1>1, AskList DEF Answers
  <1> QED
    BY <1>1, AskPlayers, AskBillOf DEF Answers

-----------------------------------------------------------------------------
(* The worker that looks at a player who is disqualified *)

LEMMA PlayersSucceed ==
  ASSUME NEW i \in 1..19, NEW name, NEW op, NEW as, NEW p, NEW t, NEW known, NEW m, NEW u, NEW d,
         Script("players", choice)[i] = Must(name, op, as, p),
         Answers(op, as, p, choice.player, t, known, u, d),
         PlayersFits(name, Request(op, as, p), d, m), PlayersTable(u, i + 1),
         i = 6 <=> name = "ranking_before", i = 6 => d = PageOf(Ups, 0), i >= 7 => m = PageOf(Ups, 0)
  PROVE  LoadPasses("players", i, t, known, m)
  <1> DEFINE c == "players"
  <1>1. c \in LoadCheck /\ LoadGround(c) = choice.player
    BY DEF LoadCheck, LoadGround
  <1>2. LoadFits(c, name, Request(op, as, p), d, m)
    BY DEF LoadFits
  <1>3. Remembered(c, Must(name, op, as, p)) <=> name = "ranking_before"
    BY DEF Remembered, Must, Step
  <1>4. i + 1 >= 7 => i = 6 \/ i >= 7
    OBVIOUS
  <1>5. LoadTable(c, u, i + 1, IF Remembered(c, Must(name, op, as, p)) THEN d ELSE m)
    <2>1. ASSUME i + 1 >= 7 PROVE (IF Remembered(c, Must(name, op, as, p)) THEN d ELSE m) = PageOf(Ups, 0)
      <3>1. CASE i = 6
        BY <1>3, <3>1
      <3>2. CASE i >= 7
        BY <1>3, <3>2
      <3> QED
        BY <2>1, <1>4, <3>1, <3>2
    <2> HIDE DEF c
    <2>2. c = "players"
      BY DEF c
    <2> QED
      BY <2>1, <2>2 DEF LoadTable
  <1> HIDE DEF c
  <1>6. Script(c, choice)[i] = Must(name, op, as, p) /\ Answers(op, as, p, LoadGround(c), t, known, u, d)
    BY <1>1 DEF c
  <1>7. LoadPasses(c, i, t, known, m)
    BY <1>1, <1>2, <1>5, <1>6, MustPasses
  <1> QED
    BY <1>7 DEF c

(* The players of the tenant, and the files of the worker. *)
LEMMA PlayersMeet ==
  ASSUME NEW known, Meeting("players", known)
  PROVE  /\ Tenanting(choice.player, known, Base, PlayersDrawn, NewOne)
         /\ initial.tenant = Holding(PlayersDrawn, {}, Base)
         /\ choice \in LoadChoices /\ PlayersDrawn \in Nat
         /\ 1 \in 1..PlayersDrawn /\ 2 \in 1..PlayersDrawn
         /\ Reader(1, PlayersDrawn, {}) /\ Reader(2, PlayersDrawn, {}) /\ Reader(1, PlayersDrawn, {2})
         /\ Sent(Ups, PlayersDrawn, PlayersDrawn) /\ Sent(Downs, PlayersDrawn, PlayersDrawn)
         /\ \A V \in {{}, {1}, {1, 2}} : Kept(<<>>, V) /\ Kept(Ups, V) /\ Kept(Downs, V)
  <1>1. LoadGround("players") = choice.player
    BY DEF LoadGround
  <1>2. /\ PlayersDrawn \in Nat /\ 2 <= PlayersDrawn
        /\ Reader(1, PlayersDrawn, {}) /\ Reader(2, PlayersDrawn, {}) /\ Reader(1, PlayersDrawn, {2})
    BY MeetingIs
  <1>3. Sent(Ups, PlayersDrawn, PlayersDrawn) /\ Sent(Downs, PlayersDrawn, PlayersDrawn)
    BY <1>2, LoadRows DEF Ups, Downs
  <1>4. {} \in SUBSET Nat /\ {1} \in SUBSET Nat /\ {1, 2} \in SUBSET Nat
    OBVIOUS
  <1>5. <<>> \in Seq(Lines)
    BY EmptySeq
  <1>6. \A V \in {{}, {1}, {1, 2}} : Kept(<<>>, V) /\ Kept(Ups, V) /\ Kept(Downs, V)
    BY <1>3, <1>4, <1>5 DEF Kept, Sent
  <1>7. Tenanting(choice.player, known, Base, PlayersDrawn, NewOne) /\ initial.tenant = Holding(PlayersDrawn, {}, Base)
    BY <1>1, <1>2, MeetingIs DEF Tenanting
  <1>8. 1 \in 1..PlayersDrawn /\ 2 \in 1..PlayersDrawn
    BY <1>2
  <1> QED
    BY <1>2, <1>3, <1>6, <1>7, <1>8 DEF Meeting

(* The lists they are ranked in. *)
LEMMA DrawnPages ==
  /\ Len(PageOf(Downs, 0)) = PlayersDrawn /\ PageOf(Downs, 0) # PageOf(Ups, 0)
  <1> DEFINE n == PlayersDrawn
             R == [rank : Nat, player : Nat, score : Int]
             up(k) == [rank |-> k, player |-> n + 1 - k, score |-> 1000 + (n + 1 - k)]
             down(k) == [rank |-> k, player |-> k, score |-> 1000 - k]
  <1>1. n \in Nat /\ 2 <= n /\ n <= RankLimit /\ RankLimit \in Nat
    BY InitialDataAssumption, ChecksAssumption, ServiceAssumption
  <1>2. Standings(Ups) = [k \in 1..n |-> up(k)] /\ Standings(Downs) = [k \in 1..n |-> down(k)]
    <2>1. \A m \in Nat : Standings(Rising(m, 1000)) =
             [k \in 1..m |-> [rank |-> k, player |-> m + 1 - k, score |-> 1000 + (m + 1 - k)]]
      BY RisingStandings
    <2>2. \A m \in Nat : Standings(Falling(m, 1000)) = [k \in 1..m |-> [rank |-> k, player |-> k, score |-> 1000 - k]]
      BY FallingStandings
    <2>3. /\ Standings(Rising(n, 1000)) = [k \in 1..n |-> up(k)]
          /\ Standings(Falling(n, 1000)) = [k \in 1..n |-> down(k)]
      BY <1>1, <2>1, <2>2
    <2> HIDE DEF up, down
    <2> QED
      BY <2>3 DEF Ups, Downs
  <1>3. PageLength(0, n, n)
    BY <1>1 DEF PageLength
  <1>4. \A k \in 1..n : up(k) \in R /\ down(k) \in R
    BY <1>1
  <1>5. RanksOf(Ups, R, n) /\ RanksOf(Downs, R, n)
    <2>1. Standings(Ups) \in [1..n -> R] /\ Standings(Downs) \in [1..n -> R]
      BY <1>2, <1>4
    <2> HIDE DEF up, down, R
    <2>2. Standings(Ups) \in Seq(R) /\ Standings(Downs) \in Seq(R)
      BY <1>1, <2>1, SeqDef
    <2>3. DOMAIN Standings(Ups) = 1..n /\ DOMAIN Standings(Downs) = 1..n
      BY <2>1
    <2>4. Len(Standings(Ups)) = n /\ Len(Standings(Downs)) = n
      BY <1>1, <2>2, <2>3, LenProperties
    <2> QED
      BY <1>1, <2>2, <2>4 DEF RanksOf
  <1> HIDE DEF R
  <1>6. IsPageOf(PageOf(Ups, 0), Ups, 0, n) /\ IsPageOf(PageOf(Downs, 0), Downs, 0, n)
    BY <1>3, <1>5, PageIs
  <1>7. 1 \in 1..n /\ 0 + 1 = 1
    BY <1>1
  <1>8. PageOf(Ups, 0)[1] = up(1) /\ PageOf(Downs, 0)[1] = down(1)
    <2>1. PageOf(Ups, 0)[1] = Standings(Ups)[1] /\ PageOf(Downs, 0)[1] = Standings(Downs)[1]
      BY <1>6, <1>7 DEF IsPageOf
    <2> HIDE DEF up, down
    <2> QED
      BY <1>2, <1>7, <2>1
  <1>9. up(1).player # down(1).player
    BY <1>1
  <1>10. Len(PageOf(Downs, 0)) = n
    BY <1>6 DEF IsPageOf
  <1> HIDE DEF up, down
  <1> QED
    BY <1>8, <1>9, <1>10

LEMMA PlayersBegin ==
  ASSUME NEW known, Meeting("players", known), NEW i \in {1, 2, 3}, NEW t, PlayersTable(t, i), NEW m
  PROVE  LoadPasses("players", i, t, known, m)
  <1> DEFINE g == choice.player
             org == OrganizerOf(g)
             n == PlayersDrawn
  <1>0. /\ Tenanting(g, known, Base, n, NewOne) /\ initial.tenant = Holding(n, {}, Base) /\ choice \in LoadChoices
        /\ n \in Nat /\ 2 <= n
    BY PlayersMeet, ChecksAssumption
  <1>01. g \in known /\ g # Admin
    BY <1>0 DEF Tenanting
  <1>1. CASE i = 1
    <2> DEFINE d == [players |-> 1..n, disqualified |-> {}]
    <2>1. t = Holding(n, {}, Base)
      BY <1>0, <1>1 DEF PlayersTable
    <2>2. Answers("players", org, Nothing, g, Holding(n, {}, Base), known, Holding(n, {}, Base), d)
      BY <1>01, ListAnswers
    <2>3. PlayersFits("list", Request("players", org, Nothing), d, m)
      <3>1. d.players \ d.disqualified = 1..n /\ Cardinality(1..n) = n
        BY <1>0, CountFromOne
      <3> HIDE DEF d
      <3> QED
        BY <1>0, <3>1 DEF PlayersFits
    <2>4. Script("players", choice)[1] = Must("list", "players", org, Nothing)
      BY <1>0, PlayersSteps
    <2>5. PlayersTable(t, 2)
      BY <1>0, <2>1 DEF PlayersTable
    <2> HIDE DEF d, org, g, n
    <2> QED
      BY <1>1, <2>1, <2>2, <2>3, <2>4, <2>5, PlayersSucceed DEF g
  <1>2. CASE i = 2
    <2> DEFINE u == Holding(n, {}, Append(Base, Open(<<>>, {})))
    <2>1. t = Holding(n, {}, Base)
      BY <1>0, <1>2 DEF PlayersTable
    <2>2. Answers("competitions_add", org, Nothing, g, Holding(n, {}, Base), known, u, NewOne)
      BY <1>0, AddAnswers
    <2>3. PlayersFits("competitions_add", Request("competitions_add", org, Nothing), NewOne, m)
      BY DEF PlayersFits
    <2>4. Script("players", choice)[2] = Must("competitions_add", "competitions_add", org, Nothing)
      BY <1>0, PlayersSteps
    <2>5. PlayersTable(u, 3)
      BY DEF PlayersTable, Entered
    <2> HIDE DEF u, org, g, n
    <2> QED
      BY <1>2, <2>1, <2>2, <2>3, <2>4, <2>5, PlayersSucceed DEF g
  <1>3. CASE i = 3
    <2> DEFINE u == Holding(n, {}, Append(Base, Open(Ups, {})))
               p == FileOf(NewOne, Ups)
    <2>1. t = Holding(n, {}, Append(Base, Open(<<>>, {})))
      BY <1>3 DEF PlayersTable, Entered
    <2>2. Answers("score", org, p, g, t, known, u, n)
      <3>1. Kept(<<>>, {}) /\ Sent(Ups, n, n)
        BY PlayersMeet
      <3> QED
        BY <1>0, <2>1, <3>1, UploadAnswers
    <2>3. PlayersFits("upload", Request("score", org, p), n, m)
      BY DEF PlayersFits
    <2>4. Script("players", choice)[3] = Must("upload", "score", org, p)
      BY <1>0, PlayersSteps
    <2>5. PlayersTable(u, 4)
      BY DEF PlayersTable, Entered
    <2> HIDE DEF u, org, g, n, p
    <2> QED
      BY <1>3, <2>2, <2>3, <2>4, <2>5, PlayersSucceed DEF g
  <1> QED
    BY <1>1, <1>2, <1>3

(* A page of a player that is read, and a list of competitions. *)
LEMMA PlayersReadPage ==
  ASSUME NEW known, Meeting("players", known), NEW i \in 1..19, NEW D, NEW cs, NEW m, NEW r \in Nat,
         Reader(r, PlayersDrawn, D), NEW x \in {1, 2}, NEW name,
         \/ name \in {"page", "enters"} /\ x \notin D
         \/ name = "page_disqualified" /\ x \in D,
         Script("players", choice)[i] = Must(name, "player", As("player", choice.player, r), [player |-> x]),
         PlayersTable(Holding(PlayersDrawn, D, cs), i + 1), i # 6, i >= 7 => m = PageOf(Ups, 0)
  PROVE  LoadPasses("players", i, Holding(PlayersDrawn, D, cs), known, m)
  <1> DEFINE g == choice.player
             n == PlayersDrawn
             t == Holding(n, D, cs)
             out == x \in D
             d == Page(x, out, ScoresOf(cs, x))
             q == Request("player", As("player", g, r), [player |-> x])
  <1>1. g \in known /\ g # Admin /\ x \in 1..n
    BY PlayersMeet DEF Tenanting
  <1>2. Answers("player", As("player", g, r), [player |-> x], g, t, known, t, d)
    BY <1>1, PageAnswers
  <1>3. PlayersFits(name, q, d, m)
    <2>1. q.player = x
      BY DEF Request
    <2>2. d.player = x /\ (d.disqualified <=> out)
      <3> HIDE DEF out
      <3> QED
        BY Zenon DEF Page
    <2> HIDE DEF d, q
    <2> QED
      BY <2>1, <2>2 DEF PlayersFits
  <1>4. i = 6 <=> name = "ranking_before"
    OBVIOUS
  <1> HIDE DEF d, t, g, n
  <1> QED
    BY <1>2, <1>3, <1>4, PlayersSucceed DEF t, g, n

LEMMA PlayersReadList ==
  ASSUME NEW known, Meeting("players", known), NEW i \in 1..19, NEW D, NEW cs, NEW m, NEW r \in 1..PlayersDrawn,
         r \notin D, NEW name \in {"competitions", "enters"},
         Script("players", choice)[i] = Must(name, "player_competitions", As("player", choice.player, r), Nothing),
         PlayersTable(Holding(PlayersDrawn, D, cs), i + 1), i # 6, i >= 7 => m = PageOf(Ups, 0)
  PROVE  LoadPasses("players", i, Holding(PlayersDrawn, D, cs), known, m)
  <1> DEFINE g == choice.player
             n == PlayersDrawn
             t == Holding(n, D, cs)
             q == Request("player_competitions", As("player", g, r), Nothing)
  <1>1. g \in known /\ g # Admin
    BY PlayersMeet DEF Tenanting
  <1>2. Answers("player_competitions", As("player", g, r), Nothing, g, t, known, t, DOMAIN cs)
    BY <1>1, ListAnswers
  <1>3. PlayersFits(name, q, DOMAIN cs, m)
    BY DEF PlayersFits
  <1>4. i = 6 <=> name = "ranking_before"
    OBVIOUS
  <1> HIDE DEF t, g, n, q
  <1> QED
    BY <1>2, <1>3, <1>4, PlayersSucceed DEF t, g, n, q

LEMMA PlayersReadRanking ==
  ASSUME NEW known, Meeting("players", known), NEW i \in 1..19, NEW D, NEW R, NEW V, Kept(R, V), NEW m, NEW r \in Nat,
         Reader(r, PlayersDrawn, D), NEW name \in {"ranking_before", "enters", "ranking_after"},
         Script("players", choice)[i] = Must(name, "ranking", As("player", choice.player, r), Of(NewOne)),
         name = "ranking_after" => R = Downs /\ i >= 7, i = 6 => R = Ups, i = 6 <=> name = "ranking_before",
         PlayersTable(Holding(PlayersDrawn, D, Append(Base, Open(R, V \cup {r}))), i + 1), i >= 7 => m = PageOf(Ups, 0)
  PROVE  LoadPasses("players", i, Holding(PlayersDrawn, D, Append(Base, Open(R, V))), known, m)
  <1> DEFINE g == choice.player
             n == PlayersDrawn
             t == Holding(n, D, Append(Base, Open(R, V)))
             u == Holding(n, D, Append(Base, Open(R, V \cup {r})))
             q == Request("ranking", As("player", g, r), Of(NewOne))
             d == PageOf(R, 0)
  <1>1. Answers("ranking", As("player", g, r), Of(NewOne), g, t, known, u, d)
    BY PlayersMeet, RankingAnswers
  <1>2. PlayersFits(name, q, d, m)
    BY DrawnPages DEF PlayersFits
  <1> HIDE DEF t, g, n, q, u
  <1> QED
    BY <1>1, <1>2, PlayersSucceed DEF t, g, n, q, u, d

LEMMA PlayersRead ==
  ASSUME NEW known, Meeting("players", known), NEW i \in 4..10, NEW t, PlayersTable(t, i),
         NEW m, i >= 7 => m = PageOf(Ups, 0)
  PROVE  LoadPasses("players", i, t, known, m)
  <1> DEFINE g == choice.player
             s == Script("players", choice)
             n == PlayersDrawn
             tab(V) == Holding(n, {}, Append(Base, Open(Ups, V)))
             none == {}
  <1>0. choice \in LoadChoices /\ 1 \in Nat /\ 2 \in Nat /\ Reader(1, n, none) /\ Reader(2, n, none)
        /\ 1 \in 1..n /\ 2 \in 1..n /\ i \in 1..19
    BY PlayersMeet
  <1>1. CASE i \in {4, 5}
    <2>1. t = tab({}) /\ PlayersTable(tab({}), i + 1)
      BY <1>1 DEF PlayersTable, Entered
    <2>2. s[4] = Must("page", "player", As("player", g, 1), [player |-> 1])
          /\ s[5] = Must("page", "player", As("player", g, 1), [player |-> 2])
      BY <1>0, PlayersSteps
    <2>3. \E x \in {1, 2} : s[i] = Must("page", "player", As("player", g, 1), [player |-> x])
      BY <1>1, <2>2
    <2>4. PICK x \in {1, 2} : s[i] = Must("page", "player", As("player", g, 1), [player |-> x])
      BY <2>3
    <2> DEFINE cs == Append(Base, Open(Ups, {}))
    <2>5. PlayersTable(Holding(n, none, cs), i + 1) /\ t = Holding(n, none, cs) /\ i # 6 /\ ~(i >= 7)
      BY <1>1, <2>1
    <2> HIDE DEF cs, s, g, n, none
    <2> QED
      BY <1>0, <2>4, <2>5, PlayersReadPage DEF s, g, n, none
  <1>2. CASE i = 6
    <2>1. t = tab({}) /\ PlayersTable(tab({} \cup {1}), i + 1)
      BY <1>2 DEF PlayersTable, Entered
    <2>2. s[6] = Must("ranking_before", "ranking", As("player", g, 1), Of(NewOne))
      BY <1>0, PlayersSteps
    <2>3. Kept(Ups, {})
      BY PlayersMeet
    <2> HIDE DEF s
    <2> QED
      BY <1>0, <1>2, <2>1, <2>2, <2>3, PlayersReadRanking DEF s
  <1>3. CASE i = 7
    <2> DEFINE cs == Append(Base, Open(Ups, {1}))
    <2>1. t = Holding(n, none, cs) /\ PlayersTable(Holding(n, none, cs), i + 1)
      BY <1>3 DEF PlayersTable, Entered
    <2>2. s[7] = Must("competitions", "player_competitions", As("player", g, 1), Nothing)
      BY <1>0, PlayersSteps
    <2>3. 1 \notin none
      OBVIOUS
    <2> HIDE DEF cs, s, none
    <2> QED
      BY <1>0, <1>3, <2>1, <2>2, <2>3, PlayersReadList DEF s
  <1>4. CASE i = 8
    <2> DEFINE cs == Append(Base, Open(Ups, {1}))
    <2>1. t = Holding(n, none, cs) /\ PlayersTable(Holding(n, none, cs), i + 1)
      BY <1>4 DEF PlayersTable, Entered
    <2>2. s[8] = Must("enters", "player", As("player", g, 2), [player |-> 2])
      BY <1>0, PlayersSteps
    <2>3. 2 \notin none
      OBVIOUS
    <2> HIDE DEF cs, s, none
    <2> QED
      BY <1>0, <1>4, <2>1, <2>2, <2>3, PlayersReadPage DEF s
  <1>5. CASE i = 9
    <2>1. {1} \cup {2} = {1, 2}
      OBVIOUS
    <2>2. t = tab({1}) /\ PlayersTable(tab({1, 2}), i + 1)
      BY <1>5 DEF PlayersTable, Entered
    <2>3. s[9] = Must("enters", "ranking", As("player", g, 2), Of(NewOne))
      BY <1>0, PlayersSteps
    <2>4. Kept(Ups, {1})
      BY PlayersMeet
    <2>5. PlayersTable(tab({1} \cup {2}), i + 1)
      BY <2>1, <2>2
    <2> HIDE DEF s
    <2> QED
      BY <1>0, <1>5, <2>2, <2>3, <2>4, <2>5, PlayersReadRanking DEF s
  <1>6. CASE i = 10
    <2> DEFINE cs == Append(Base, Open(Ups, {1, 2}))
    <2>1. t = Holding(n, none, cs) /\ PlayersTable(Holding(n, none, cs), i + 1)
      BY <1>6 DEF PlayersTable, Entered
    <2>2. s[10] = Must("enters", "player_competitions", As("player", g, 2), Nothing)
      BY <1>0, PlayersSteps
    <2>3. 2 \notin none
      OBVIOUS
    <2> HIDE DEF cs, s, none
    <2> QED
      BY <1>0, <1>6, <2>1, <2>2, <2>3, PlayersReadList DEF s
  <1> QED
    BY <1>1, <1>2, <1>3, <1>4, <1>5, <1>6

LEMMA PlayersChange ==
  ASSUME NEW known, Meeting("players", known), NEW i \in 11..14, NEW t, PlayersTable(t, i),
         NEW m, m = PageOf(Ups, 0)
  PROVE  LoadPasses("players", i, t, known, m)
  <1> DEFINE g == choice.player
             org == OrganizerOf(g)
             s == Script("players", choice)
             n == PlayersDrawn
             both == {1, 2}
             out == {2}
  <1>0. /\ Tenanting(g, known, Base, n, NewOne) /\ choice \in LoadChoices /\ i \in 1..19 /\ n \in Nat /\ i # 6
        /\ 2 \in 1..n /\ Kept(Ups, both) /\ Kept(Downs, both) /\ Sent(Downs, n, n) /\ Reader(1, n, out) /\ 1 \in Nat
    BY PlayersMeet
  <1>1. CASE i = 11
    <2> DEFINE cs == Append(Base, Open(Ups, both))
               none == {}
               u == Holding(n, out, cs)
               p == [player |-> 2]
               q == Request("disqualified", org, p)
               d == [player |-> 2, disqualified |-> TRUE]
    <2>1. t = Holding(n, none, cs) /\ PlayersTable(u, i + 1)
      BY <1>1 DEF PlayersTable, Entered
    <2>2. s[i] = Must("disqualified", "disqualified", org, p)
      BY <1>0, <1>1, PlayersSteps
    <2>3. Answers("disqualified", org, p, g, t, known, u, d)
      <3>1. About(p) /\ p.player = 2
        BY DEF About
      <3>2. none \cup {2} = out
        OBVIOUS
      <3>3. g \in known /\ g # Admin
        BY <1>0 DEF Tenanting
      <3> HIDE DEF p, cs, none, out, n
      <3>4. /\ Proper(q, g)
            /\ Answer(Holding(n, none, cs), q, known)
                  = Done(Holding(n, none \cup {p.player}, cs), [player |-> p.player, disqualified |-> TRUE])
        BY <1>0, <3>1, <3>3, AskDisqualified
      <3> QED
        BY <2>1, <3>1, <3>2, <3>4 DEF Answers
    <2>4. PlayersFits("disqualified", q, d, m)
      BY DEF PlayersFits
    <2> HIDE DEF cs, none, u, p, q, d, s, out
    <2> QED
      BY <1>0, <2>1, <2>2, <2>3, <2>4, PlayersSucceed DEF q, s
  <1>2. CASE i = 12
    <2> DEFINE u == Holding(n, out, Append(Base, Open(Downs, both)))
               p == FileOf(NewOne, Downs)
               q == Request("score", org, p)
    <2>1. t = Holding(n, out, Append(Base, Open(Ups, both))) /\ PlayersTable(u, i + 1)
      BY <1>2 DEF PlayersTable, Entered
    <2>2. s[i] = Must("upload", "score", org, p)
      BY <1>0, <1>2, PlayersSteps
    <2>3. Answers("score", org, p, g, t, known, u, n)
      BY <1>0, <2>1, UploadAnswers
    <2>4. PlayersFits("upload", q, n, m)
      BY DEF PlayersFits
    <2> HIDE DEF u, p, q, s, n
    <2> QED
      BY <1>0, <2>1, <2>2, <2>3, <2>4, PlayersSucceed DEF q, s
  <1>3. CASE i = 13
    <2>1. both \cup {1} = both
      OBVIOUS
    <2>2. t = Holding(n, out, Append(Base, Open(Downs, both)))
      BY <1>3 DEF PlayersTable, Entered
    <2>3. PlayersTable(Holding(n, out, Append(Base, Open(Downs, both \cup {1}))), i + 1)
      BY <1>3, <2>1 DEF PlayersTable, Entered
    <2>4. s[i] = Must("ranking_after", "ranking", As("player", g, 1), Of(NewOne))
      BY <1>0, <1>3, PlayersSteps
    <2> HIDE DEF s, both, out
    <2> QED
      BY <1>0, <1>3, <2>2, <2>3, <2>4, PlayersReadRanking DEF s
  <1>4. CASE i = 14
    <2> DEFINE u == Holding(n, out, Append(Base, Closed(Downs, both)))
               q == Request("finish", org, Of(NewOne))
    <2>1. t = Holding(n, out, Append(Base, Open(Downs, both))) /\ PlayersTable(u, i + 1)
      BY <1>4 DEF PlayersTable, Entered
    <2>2. s[i] = Must("finish", "finish", org, Of(NewOne))
      BY <1>0, <1>4, PlayersSteps
    <2>3. Answers("finish", org, Of(NewOne), g, t, known, u, {})
      BY <1>0, <2>1, FinishAnswers
    <2>4. PlayersFits("finish", q, {}, m)
      BY DEF PlayersFits
    <2> HIDE DEF u, q, s, n
    <2> QED
      BY <1>0, <2>1, <2>2, <2>3, <2>4, PlayersSucceed DEF q, s
  <1> QED
    BY <1>1, <1>2, <1>3, <1>4

LEMMA PlayersRefused ==
  ASSUME NEW known, Meeting("players", known), NEW i \in 1..19, NEW cs, NEW m, m = PageOf(Ups, 0), NEW op \in PlayerApi, NEW p,
         Script("players", choice)[i] = Refused403("refused", op, As("player", choice.player, 2), p),
         PlayersTable(Holding(PlayersDrawn, {2}, cs), i + 1)
  PROVE  LoadPasses("players", i, Holding(PlayersDrawn, {2}, cs), known, m)
  <1> DEFINE g == choice.player
             c == "players"
             out == {2}
             t == Holding(PlayersDrawn, out, cs)
             as == As("player", g, 2)
             q == Request(op, as, p)
  <1>1. g \in known /\ g # Admin /\ 2 \in Nat /\ 2 \in 1..PlayersDrawn /\ 2 \in out
    BY PlayersMeet DEF Tenanting
  <1> HIDE DEF out
  <1>2. Proper(q, g) /\ Answer(t, q, known) = Refused(t, 403)
    BY <1>1, AskDisqualifiedReader
  <1>3. c \in LoadCheck /\ LoadGround(c) = g
    BY DEF LoadCheck, LoadGround
  <1>4. PlayersTable(t, i + 1)
    BY DEF out
  <1> HIDE DEF t
  <1>5. LoadTable(c, t, i + 1, m)
    BY <1>4 DEF LoadTable
  <1>6. Script(c, choice)[i] = Refused403("refused", op, as, p)
    OBVIOUS
  <1> HIDE DEF c, g, as
  <1>7. LoadPasses(c, i, t, known, m)
    BY <1>2, <1>3, <1>5, <1>6, RefusedPasses
  <1> QED
    BY <1>7 DEF c, t, out

LEMMA PlayersEnd ==
  ASSUME NEW known, Meeting("players", known), NEW i \in 15..19, NEW t, PlayersTable(t, i),
         NEW m, m = PageOf(Ups, 0)
  PROVE  LoadPasses("players", i, t, known, m)
  <1> DEFINE g == choice.player
             s == Script("players", choice)
             n == PlayersDrawn
             cs == Append(Base, Closed(Downs, {1, 2}))
             out == {2}
  <1>0. choice \in LoadChoices /\ i \in 1..19 /\ 1 \in Nat /\ 1 \in 1..n /\ 1 \notin out /\ Reader(1, n, out) /\ i # 6 /\ 2 \in out
    BY PlayersMeet
  <1>1. t = Holding(n, out, cs) /\ PlayersTable(Holding(n, out, cs), i + 1)
    BY DEF PlayersTable, Entered
  <1> HIDE DEF cs
  <1>2. CASE i = 15
    <2>1. s[i] = Must("competitions", "player_competitions", As("player", g, 1), Nothing)
      BY <1>0, <1>2, PlayersSteps
    <2> HIDE DEF s, out
    <2> QED
      BY <1>0, <1>1, <2>1, PlayersReadList DEF s
  <1>3. CASE i = 16
    <2>1. s[i] = Must("page_disqualified", "player", As("player", g, 1), [player |-> 2])
      BY <1>0, <1>3, PlayersSteps
    <2> HIDE DEF s, out
    <2> QED
      BY <1>0, <1>1, <2>1, PlayersReadPage DEF s
  <1>4. CASE i \in {17, 18, 19}
    <2>1. /\ s[17] = Refused403("refused", "player", As("player", g, 2), [player |-> 2])
          /\ s[18] = Refused403("refused", "ranking", As("player", g, 2), Of(NewOne))
          /\ s[19] = Refused403("refused", "player_competitions", As("player", g, 2), Nothing)
      BY <1>0, PlayersSteps
    <2>2. \E op \in PlayerApi : \E p : s[i] = Refused403("refused", op, As("player", g, 2), p)
      BY <1>4, <2>1 DEF PlayerApi
    <2>3. PICK op \in PlayerApi : \E p : s[i] = Refused403("refused", op, As("player", g, 2), p)
      BY <2>2
    <2>4. PICK p : s[i] = Refused403("refused", op, As("player", g, 2), p)
      BY <2>3
    <2> HIDE DEF s
    <2> QED
      BY <1>0, <1>1, <2>4, PlayersRefused DEF s
  <1> QED
    BY <1>2, <1>3, <1>4

LEMMA PlayersPass ==
  ASSUME NEW known, Meeting("players", known), NEW i \in 1..19, NEW t, NEW m, LoadTable("players", t, i, m)
  PROVE  LoadPasses("players", i, t, known, m)
  <1>1. PlayersTable(t, i) /\ (i >= 7 => m = PageOf(Ups, 0))
    BY DEF LoadTable
  <1>2. i \in {1, 2, 3} \/ i \in 4..10 \/ i \in 11..14 \/ i \in 15..19
    OBVIOUS
  <1> QED
    BY <1>1, <1>2, PlayersBegin, PlayersRead, PlayersChange, PlayersEnd

-----------------------------------------------------------------------------
(* The organizers' jobs *)

LEMMA JobMeets ==
  ASSUME NEW c, NEW known, Meeting(c, known)
  PROVE  /\ Tenanting(LoadGround(c), known, Base, PlayersDrawn, NewOne)
         /\ initial.tenant = Holding(PlayersDrawn, {}, Base)
         /\ choice \in LoadChoices /\ PlayersDrawn \in Nat
         /\ 1 \in 1..PlayersDrawn /\ Reader(1, PlayersDrawn, {})
         /\ {} \in SUBSET Nat /\ {1} \in SUBSET Nat /\ <<>> \in Seq(Lines)
  <1>1. PlayersDrawn \in Nat /\ 2 <= PlayersDrawn /\ Reader(1, PlayersDrawn, {})
    BY MeetingIs
  <1>2. Tenanting(LoadGround(c), known, Base, PlayersDrawn, NewOne) /\ initial.tenant = Holding(PlayersDrawn, {}, Base)
    BY MeetingIs DEF Tenanting
  <1>3. <<>> \in Seq(Lines)
    BY EmptySeq
  <1> QED
    BY <1>1, <1>2, <1>3 DEF Meeting

(* A step of a job, whose answer is not kept. *)
JobWorkers == {"adminBilling", "popular"}
JobSucceeds(c, i, t, u, known, m, name, op, as, p, d) ==
    /\ Script(c, choice)[i] = Must(name, op, as, p) /\ name \notin {"page", "page_again"}
    /\ Answers(op, as, p, LoadGround(c), t, known, u, d)
    /\ JobFits(name, Request(op, as, p), d)
    /\ LoadTable(c, u, i + 1, m)

LEMMA JobStepPasses ==
  ASSUME NEW c \in JobWorkers, NEW i, NEW name, NEW op, NEW as, NEW p, NEW t, NEW known, NEW m, NEW u, NEW d,
         JobSucceeds(c, i, t, u, known, m, name, op, as, p, d)
  PROVE  LoadPasses(c, i, t, known, m)
  <1> DEFINE s == Must(name, op, as, p)
  <1>0. /\ Script(c, choice)[i] = Must(name, op, as, p) /\ name \notin {"page", "page_again"}
        /\ Answers(op, as, p, LoadGround(c), t, known, u, d)
        /\ JobFits(name, Request(op, as, p), d)
        /\ LoadTable(c, u, i + 1, m)
    BY DEF JobSucceeds
  <1>1. c \in LoadCheck
    BY DEF LoadCheck, JobWorkers
  <1>2. ~Remembered(c, s)
    BY <1>0 DEF Remembered, Must, Step, JobWorkers
  <1>3. LoadFits(c, name, Request(op, as, p), d, m)
    BY <1>0 DEF LoadFits, AdminBillingFits, JobWorkers
  <1> HIDE DEF s
  <1>4. LoadTable(c, u, i + 1, IF Remembered(c, s) THEN d ELSE m)
    BY <1>0, <1>2
  <1> QED
    BY <1>0, <1>1, <1>3, <1>4, MustPasses DEF s

(* Step j of the job is step i of the script. *)
JobAt(c, i, j, again, m) ==
    /\ c \in JobWorkers /\ JobSteps(Script(c, choice), i - j + 1, LoadGround(c), again)
    /\ i \in Nat /\ j \in 1..6
    /\ Sent(JobRows(again), PlayersDrawn, Len(JobRows(again)))
    /\ \A u : JobTable(u, j + 1, JobRows(again)) => LoadTable(c, u, i + 1, m)

(* A player looks at any of the competitions: what is owed for it stays.        *)
LEMMA AnyRanking ==
  ASSUME NEW known, NEW g \in known, g # Admin, NEW n, NEW D, NEW cs, NEW r \in Nat, Reader(r, n, D),
         NEW x \in DOMAIN cs
  PROVE  LET q == Request("ranking", As("player", g, r), Of(x))
         IN  /\ Proper(q, g)
             /\ Answer(Holding(n, D, cs), q, known)
                  = Done(Holding(n, D, [cs EXCEPT ![x] = Visit(cs[x], r)]), PageOf(cs[x].rows, 0))
  <1> DEFINE q == Request("ranking", As("player", g, r), Of(x))
             t == Holding(n, D, cs)
             ds == [cs EXCEPT ![x] = Visit(cs[x], r)]
  <1>0. r \in 1..n /\ r \notin D
    BY DEF Reader
  <1>1. q.op = "ranking" /\ q.as = As("player", g, r) /\ q.as.player = r
    BY <1>0, RequestIs, AsIs
  <1>2. q.competition = x /\ q.after = 0
    <2> DEFINE p == Of(x)
    <2>1. "competition" \in DOMAIN p /\ "after" \in DOMAIN p /\ p.competition = x /\ p.after = 0
      BY DEF Of
    <2>2. q = Request("ranking", As("player", g, r), p)
      OBVIOUS
    <2> HIDE DEF p, q
    <2> QED
      BY <2>1, <2>2, RequestIs
  <1> HIDE DEF q
  <1>3. Proper(q, g)
    BY <1>0, <1>1, AsIs DEF Proper, HasParameters, PlayerApi
  <1>4. t.file /\ Player(t) = 1..n /\ t.disqualified = D /\ t.competitions = cs
    BY HoldingFile, HoldingFields
  <1>5. [t EXCEPT !.competitions = ds] = Holding(n, D, ds)
    <2> HIDE DEF ds
    <2> QED
      BY HoldingExcept
  <1> HIDE DEF t
  <1>6. Answer(t, q, known) = Handler(t, q)
    <2>1. q.op \in PlayerApi /\ r \in Player(t) /\ r \notin t.disqualified
      BY <1>0, <1>1, <1>4 DEF PlayerApi
    <2> QED
      BY <1>1, <1>4, <2>1, PlayerAnswered
  <1>7. Handler(t, q) = CompetitionRanking(t, q)
    BY <1>1 DEF Handler
  <1>8. Has(t, x)
    BY <1>4 DEF Has
  <1>9. CompetitionRanking(t, q)
          = Done([t EXCEPT !.competitions[x] = Visit(@, r)], PageOf(t.competitions[x].rows, 0))
    BY <1>1, <1>2, <1>8 DEF CompetitionRanking, PageOf
  <1>10. [t EXCEPT !.competitions[x] = Visit(@, r)] = [t EXCEPT !.competitions = ds]
    BY <1>4
  <1>11. CompetitionRanking(t, q) = Done(Holding(n, D, ds), PageOf(cs[x].rows, 0))
    BY <1>4, <1>5, <1>9, <1>10
  <1> QED
    BY <1>3, <1>6, <1>7, <1>11 DEF q, t

LEMMA VisitOwesNothing ==
  ASSUME NEW k \in CompetitionSet, NEW p
  PROVE  Report(Visit(k, p)) = Report(k)
  <1>0. k \in [finished : BOOLEAN, rows : Seq(Lines), visitors : SUBSET Nat, late : SUBSET Nat]
    BY DEF CompetitionSet, CompetitionsOf
  <1>1. CASE p \in k.visitors \cup k.late
    BY <1>1 DEF Visit
  <1>2. CASE p \notin k.visitors \cup k.late /\ k.finished
    <2> DEFINE j == [k EXCEPT !.late = @ \cup {p}]
    <2>1. Visit(k, p) = j
      BY <1>2 DEF Visit
    <2>2. j.finished = k.finished /\ j.rows = k.rows /\ j.visitors = k.visitors
      BY <1>0
    <2> HIDE DEF j
    <2> QED
      BY <2>1, <2>2 DEF Report, Scored
  <1>3. CASE p \notin k.visitors \cup k.late /\ ~k.finished
    <2> DEFINE j == [k EXCEPT !.visitors = @ \cup {p}]
    <2>1. Visit(k, p) = j
      BY <1>3 DEF Visit
    <2>2. ~j.finished
      BY <1>0, <1>3
    <2> HIDE DEF j
    <2> QED
      BY <1>3, <2>1, <2>2 DEF Report
  <1> QED
    BY <1>1, <1>2, <1>3

LEMMA WorkerIs ==
  ASSUME NEW g
  PROVE  WorkerStep(g).name = "worker_ranking" /\ WorkerStep(g).status = 200 /\ WorkerStep(g).ask = LastLooks(g)
  <1> DEFINE s0 == Must("worker_ranking", "ranking", OrganizerOf(g), Nothing)
  <1>1. s0 = [name |-> s0.name, status |-> s0.status, fatal |-> s0.fatal, ask |-> s0.ask]
        /\ s0.name = "worker_ranking" /\ s0.status = 200
    BY DEF Must, Step
  <1>2. WorkerStep(g) = [s0 EXCEPT !.ask = LastLooks(g)]
    BY DEF WorkerStep
  <1> HIDE DEF s0
  <1> QED
    BY <1>1, <1>2

(* The last step of a job. *)
LEMMA WorkerPasses ==
  ASSUME NEW c \in JobWorkers, NEW known, Meeting(c, known), NEW i, NEW m, NEW rows, rows \in Seq(Lines),
         NEW t, t = Entered({}, Closed(rows, {1})), Script(c, choice)[i] = WorkerStep(LoadGround(c)),
         \A u : JobTable(u, 7, rows) => LoadTable(c, u, i + 1, m)
  PROVE  LoadPasses(c, i, t, known, m)
  <1> DEFINE g == LoadGround(c)
             n == PlayersDrawn
             none == {}
             k == Closed(rows, {1})
             cs == Append(Base, k)
             s == WorkerStep(g)
  <1>0. g \in known /\ g # Admin /\ Base \in Seq(CompetitionSet) /\ n \in Nat /\ NewOne = Len(Base) + 1
    BY JobMeets DEF Tenanting, IsNext
  <1>1. s.name = "worker_ranking" /\ s.status = 200 /\ s.ask = LastLooks(g)
    BY WorkerIs
  <1>2. c \in LoadCheck /\ ~Remembered(c, s) /\ \A q, d : LoadFits(c, s.name, q, d, m)
    <2>1. c \in LoadCheck
      BY DEF LoadCheck, JobWorkers
    <2>2. ~Remembered(c, s)
      BY <1>1 DEF Remembered, JobWorkers
    <2>3. ASSUME NEW q, NEW d PROVE JobFits("worker_ranking", q, d)
      BY DEF JobFits
    <2>4. ASSUME NEW q, NEW d PROVE AdminBillingFits("worker_ranking", q, d, m)
      BY <2>3 DEF AdminBillingFits
    <2> QED
      BY <1>1, <2>1, <2>2, <2>3, <2>4 DEF LoadFits, JobWorkers
  <1>3. cs \in Seq(CompetitionSet) /\ DOMAIN cs = 1..NewOne /\ \A x \in 1..NewOne : cs[x] \in CompetitionSet
    <2>1. k \in CompetitionSet
      <3> DEFINE V == {1}
      <3>1. V \in SUBSET Nat
        OBVIOUS
      <3> HIDE DEF V
      <3>2. Closed(rows, V) \in CompetitionSet
        BY <3>1, ClosedFields
      <3> QED
        BY <3>2 DEF V
    <2> HIDE DEF k
    <2>2. cs \in Seq(CompetitionSet) /\ Len(cs) = NewOne
      BY <1>0, <2>1, AppendProperties
    <2> HIDE DEF cs
    <2> QED
      BY <2>2, LenProperties
  <1>4. t = Holding(n, none, cs)
    BY DEF Entered
  <1> HIDE DEF none, k, s
  <1>5. SUFFICES ASSUME NEW q \in s.ask
                 PROVE  LET r == Answer(t, q, known)
                        IN  /\ Proper(q, g) /\ Fits(c, s, q, r.answer, m, initial.billing)
                            /\ LoadTable(c, r.tenant, i + 1,
                                 IF Remembered(c, s) /\ r.answer.status = 200 THEN r.answer.data ELSE m)
    BY DEF LoadPasses, s
  <1>6. PICK p \in DrawnPlayer, x \in 1..NewOne : q = Request("ranking", As("player", g, p), Of(x))
    BY <1>1 DEF LastLooks
  <1>7. p \in Nat /\ Reader(p, n, none)
    BY <1>0 DEF DrawnPlayer, Reader, none
  <1> DEFINE ds == [cs EXCEPT ![x] = Visit(cs[x], p)]
             u == Holding(n, none, ds)
             d == PageOf(cs[x].rows, 0)
  <1>8. Proper(q, g) /\ Answer(t, q, known) = Done(u, d)
    <2>1. x \in DOMAIN cs
      BY <1>3
    <2> HIDE DEF cs, g, n
    <2> QED
      BY <1>0, <1>4, <1>6, <1>7, <2>1, AnyRanking
  <1>9. JobTable(u, 7, rows)
    <2>1. DOMAIN ds = DOMAIN cs
      OBVIOUS
    <2>2. ASSUME NEW y \in DOMAIN cs PROVE Report(ds[y]) = Report(cs[y])
      <3>1. CASE y = x
        <4>1. ds[y] = Visit(cs[x], p)
          BY <3>1
        <4>2. cs[x] \in CompetitionSet
          BY <1>3
        <4> HIDE DEF ds, cs
        <4> QED
          BY <3>1, <4>1, <4>2, VisitOwesNothing
      <3>2. CASE y # x
        <4>1. ds[y] = cs[y]
          BY <3>2
        <4> QED
          BY <4>1
      <3> QED
        BY <3>1, <3>2
    <2> HIDE DEF ds, cs
    <2>3. LookedAt(u, cs)
      BY <2>1, <2>2 DEF LookedAt, none
    <2> HIDE DEF u
    <2> QED
      BY <2>3 DEF JobTable, cs, k
  <1> HIDE DEF u, d, g
  <1>10. Done(u, d).tenant = u /\ Done(u, d).answer.status = 200 /\ Done(u, d).answer.data = d
    BY AnswerIs
  <1>11. Fits(c, s, q, Done(u, d).answer, m, initial.billing)
    BY <1>1, <1>2, <1>10, LoadFitsIs
  <1>12. LoadTable(c, u, i + 1, m)
    BY <1>9
  <1> QED
    BY <1>2, <1>8, <1>10, <1>11, <1>12

LEMMA JobPasses ==
  ASSUME NEW c, NEW known, Meeting(c, known), NEW i, NEW j, NEW again, NEW m, JobAt(c, i, j, again, m),
         NEW t, JobTable(t, j, JobRows(again))
  PROVE  LoadPasses(c, i, t, known, m)
  <1> DEFINE g == LoadGround(c)
             org == OrganizerOf(g)
             s == Script(c, choice)
             rows == JobRows(again)
             n == PlayersDrawn
             none == {}
             one == {1}
             holding(k) == Holding(n, none, Append(Base, k))
             o == i - j + 1
  <1>0. /\ Tenanting(g, known, Base, n, NewOne) /\ initial.tenant = Holding(n, none, Base)
        /\ n \in Nat /\ 1 \in 1..n /\ 1 \in Nat /\ Reader(1, n, none)
        /\ g \in known /\ g # Admin
        /\ none \in SUBSET Nat /\ one \in SUBSET Nat /\ <<>> \in Seq(Lines)
    BY JobMeets DEF Tenanting
  <1>00. /\ c \in JobWorkers /\ i \in Nat /\ j \in 1..6 /\ Sent(rows, n, Len(rows))
         /\ \A u : JobTable(u, j + 1, rows) => LoadTable(c, u, i + 1, m)
    BY DEF JobAt
  <1>01. Kept(rows, one) /\ Kept(<<>>, one) /\ Kept(<<>>, none)
    BY <1>0, <1>00 DEF Kept, Sent
  <1>02. /\ s[o] = Must("job_list", "players", org, Nothing)
         /\ s[o + 1] = Must("competitions_add", "competitions_add", org, Nothing)
         /\ s[o + 2] = Must("job_ranking", "ranking", As("player", g, 1), Of(NewOne))
         /\ s[o + 3] = Must("job_upload", "score", org, FileOf(NewOne, rows))
         /\ s[o + 4] = Must("finish", "finish", org, Of(NewOne))
         /\ s[o + 5] = WorkerStep(g)
    BY DEF JobAt, JobSteps
  <1> HIDE DEF o
  <1>1. CASE j = 1
    <2> DEFINE d == [players |-> 1..n, disqualified |-> none]
               u == Holding(n, none, Base)
    <2>1. t = u /\ JobTable(u, j + 1, rows)
      BY <1>0, <1>1 DEF JobTable
    <2>2. Answers("players", org, Nothing, g, t, known, u, d)
      BY <1>0, <2>1, ListAnswers
    <2>3. JobFits("job_list", Request("players", org, Nothing), d)
      <3>1. 1 \in d.players \ d.disqualified
        BY <1>0
      <3> HIDE DEF d
      <3> QED
        BY <3>1 DEF JobFits
    <2>4. s[i] = Must("job_list", "players", org, Nothing)
      BY <1>1, <1>00, <1>02 DEF o
    <2> HIDE DEF d, u
    <2>5. LoadTable(c, u, i + 1, m)
      BY <1>00, <2>1
    <2>6. JobSucceeds(c, i, t, u, known, m, "job_list", "players", org, Nothing, d)
      BY <2>2, <2>3, <2>4, <2>5 DEF JobSucceeds
    <2> QED
      BY <1>00, <2>6, JobStepPasses
  <1>2. CASE j = 2
    <2> DEFINE u == holding(Open(<<>>, none))
    <2>1. t = Holding(n, none, Base) /\ JobTable(u, j + 1, rows)
      BY <1>0, <1>2 DEF JobTable, Entered
    <2>2. Answers("competitions_add", org, Nothing, g, t, known, u, NewOne)
      BY <1>0, <2>1, AddAnswers
    <2>3. JobFits("competitions_add", Request("competitions_add", org, Nothing), NewOne)
      BY DEF JobFits
    <2>4. s[i] = Must("competitions_add", "competitions_add", org, Nothing)
      <3>1. i = o + 1
        BY <1>2, <1>00 DEF o
      <3> QED
        BY <1>02, <3>1
    <2> HIDE DEF u
    <2>5. LoadTable(c, u, i + 1, m)
      BY <1>00, <2>1
    <2>6. JobSucceeds(c, i, t, u, known, m, "competitions_add", "competitions_add", org, Nothing, NewOne)
      BY <2>2, <2>3, <2>4, <2>5 DEF JobSucceeds
    <2> QED
      BY <1>00, <2>6, JobStepPasses
  <1>3. CASE j = 3
    <2> DEFINE u == holding(Open(<<>>, none \cup {1}))
               as == As("player", g, 1)
               d == PageOf(<<>>, 0)
    <2>1. none \cup {1} = one
      OBVIOUS
    <2>2. t = holding(Open(<<>>, none)) /\ JobTable(u, j + 1, rows)
      BY <1>3, <2>1 DEF JobTable, Entered
    <2>3. Answers("ranking", as, Of(NewOne), g, t, known, u, d)
      BY <1>0, <1>01, <2>2, RankingAnswers
    <2>4. JobFits("job_ranking", Request("ranking", as, Of(NewOne)), d)
      BY DEF JobFits
    <2>5. s[i] = Must("job_ranking", "ranking", as, Of(NewOne))
      <3>1. i = o + 2
        BY <1>3, <1>00 DEF o
      <3> QED
        BY <1>02, <3>1
    <2> HIDE DEF u, d, as
    <2>6. LoadTable(c, u, i + 1, m)
      BY <1>00, <2>2
    <2>7. JobSucceeds(c, i, t, u, known, m, "job_ranking", "ranking", as, Of(NewOne), d)
      BY <2>3, <2>4, <2>5, <2>6 DEF JobSucceeds
    <2> QED
      BY <1>00, <2>7, JobStepPasses
  <1>4. CASE j = 4
    <2> DEFINE u == holding(Open(rows, one))
               p == FileOf(NewOne, rows)
    <2>1. t = holding(Open(<<>>, one)) /\ JobTable(u, j + 1, rows)
      BY <1>4 DEF JobTable, Entered
    <2>2. Answers("score", org, p, g, t, known, u, Len(rows))
      <3> HIDE DEF rows
      <3> QED
        BY <1>0, <1>00, <1>01, <2>1, UploadAnswers
    <2>3. JobFits("job_upload", Request("score", org, p), Len(rows))
      <3>1. Request("score", org, p).rows = rows
        <4>1. "rows" \in DOMAIN p /\ "rows" \notin {"op", "as"} /\ p.rows = rows
          BY FileOfIs
        <4> HIDE DEF p, rows
        <4> QED
          BY <4>1, RequestIs
      <3> HIDE DEF p, rows
      <3> QED
        BY <3>1 DEF JobFits
    <2>4. s[i] = Must("job_upload", "score", org, p)
      <3>1. i = o + 3
        BY <1>4, <1>00 DEF o
      <3> QED
        BY <1>02, <3>1
    <2> HIDE DEF u, p
    <2>5. LoadTable(c, u, i + 1, m)
      BY <1>00, <2>1
    <2>6. JobSucceeds(c, i, t, u, known, m, "job_upload", "score", org, p, Len(rows))
      BY <2>2, <2>3, <2>4, <2>5 DEF JobSucceeds
    <2> QED
      BY <1>00, <2>6, JobStepPasses
  <1>5. CASE j = 5
    <2> DEFINE u == holding(Closed(rows, one))
               p == Of(NewOne)
    <2>1. t = holding(Open(rows, one)) /\ JobTable(u, j + 1, rows)
      BY <1>5 DEF JobTable, Entered
    <2>2. Answers("finish", org, p, g, t, known, u, none)
      <3> HIDE DEF rows
      <3> QED
        BY <1>0, <1>00, <1>01, <2>1, FinishAnswers
    <2>3. JobFits("finish", Request("finish", org, p), none)
      BY DEF JobFits
    <2>4. s[i] = Must("finish", "finish", org, p)
      <3>1. i = o + 4
        BY <1>5, <1>00 DEF o
      <3> QED
        BY <1>02, <3>1
    <2> HIDE DEF u, p
    <2>5. LoadTable(c, u, i + 1, m)
      BY <1>00, <2>1
    <2>6. JobSucceeds(c, i, t, u, known, m, "finish", "finish", org, p, none)
      BY <2>2, <2>3, <2>4, <2>5 DEF JobSucceeds
    <2> QED
      BY <1>00, <2>6, JobStepPasses
  <1>6. CASE j = 6
    <2>1. t = Entered(none, Closed(rows, one))
      BY <1>6 DEF JobTable
    <2>2. s[i] = WorkerStep(g)
      <3>1. i = o + 5
        BY <1>6, <1>00 DEF o
      <3> QED
        BY <1>02, <3>1
    <2>3. \A u : JobTable(u, 7, rows) => LoadTable(c, u, i + 1, m)
      <3>1. j + 1 = 7
        BY <1>6
      <3> HIDE DEF rows
      <3> QED
        BY <1>00, <3>1
    <2>4. rows \in Seq(Lines)
      BY <1>00 DEF Sent
    <2> HIDE DEF rows, g
    <2> QED
      BY <1>00, <2>1, <2>2, <2>3, <2>4, WorkerPasses DEF g
  <1> QED
    BY <1>00, <1>1, <1>2, <1>3, <1>4, <1>5, <1>6

LEMMA JobFiles ==
  /\ Sent(JobRows(<<>>), PlayersDrawn, PlayersDrawn)
  /\ \A again : again = <<Line(1, 400)>> => Sent(JobRows(again), PlayersDrawn, Len(JobRows(again)))
  <1> DEFINE n == PlayersDrawn
             ups == Rising(n, 500)
  <1>1. n \in Nat /\ 1 \in 1..n
    BY InitialDataAssumption
  <1>2. Sent(ups, n, n)
    BY <1>1, LoadRows
  <1> HIDE DEF ups
  <1>3. JobRows(<<>>) = ups
    <2>1. ups \in Seq(Lines)
      BY <1>2 DEF Sent
    <2>2. JobRows(<<>>) = ups \o <<>>
      BY DEF JobRows, ups
    <2> QED
      BY <2>1, <2>2, ConcatEmptySeq
  <1>4. ASSUME NEW again, again = <<Line(1, 400)>>
        PROVE  Sent(JobRows(again), n, Len(JobRows(again)))
    <2> DEFINE rows == JobRows(again)
    <2>1. Line(1, 400) \in Lines /\ Line(1, 400).player = 1
      BY DEF Line, Lines
    <2>2. again \in Seq(Lines) /\ Len(again) = 1 /\ again[1].player = 1
      <3> DEFINE x == Line(1, 400)
      <3> HIDE DEF x
      <3>1. again = <<x>> /\ x \in Lines /\ x.player = 1
        BY <1>4, <2>1 DEF x
      <3> QED
        BY <3>1
    <2>3. ups \in Seq(Lines) /\ Len(ups) = n /\ \A j \in 1..n : ups[j].player \in 1..n
      BY <1>2, LenProperties DEF Sent
    <2>4. rows = ups \o again
      BY DEF JobRows, ups
    <2>5. /\ rows \in Seq(Lines) /\ Len(rows) = n + 1
          /\ \A j \in 1..(n + 1) : rows[j] = IF j <= n THEN ups[j] ELSE again[j - n]
      <3> HIDE DEF rows
      <3>1. /\ ups \o again \in Seq(Lines) /\ Len(ups \o again) = Len(ups) + Len(again)
            /\ \A j \in 1..(Len(ups) + Len(again)) :
                  (ups \o again)[j] = IF j <= Len(ups) THEN ups[j] ELSE again[j - Len(ups)]
        BY <2>2, <2>3, ConcatProperties
      <3>2. Len(ups) = n /\ Len(again) = 1
        BY <2>2, <2>3
      <3> QED
        BY <2>4, <3>1, <3>2
    <2> HIDE DEF rows
    <2>6. DOMAIN rows = 1..(n + 1)
      BY <2>5, LenProperties
    <2>7. ASSUME NEW j \in 1..(n + 1) PROVE rows[j].player \in 1..n
      <3>1. CASE j <= n
        <4>1. j \in 1..n /\ rows[j] = ups[j]
          BY <1>1, <2>5, <3>1
        <4> QED
          BY <2>3, <4>1
      <3>2. CASE j = n + 1
        <4>1. ~(j <= n) /\ j - n = 1
          BY <1>1, <3>2
        <4>2. rows[j] = again[j - n]
          BY <2>5, <4>1
        <4>3. rows[j].player = 1
          BY <2>2, <4>1, <4>2
        <4> QED
          BY <1>1, <4>3
      <3> QED
        BY <1>1, <3>1, <3>2
    <2> QED
      BY <2>5, <2>6, <2>7 DEF Sent, rows
  <1> QED
    BY <1>2, <1>3, <1>4

LEMMA JobFile ==
  ASSUME NEW again \in {<<>>, <<Line(1, 400)>>}
  PROVE  Sent(JobRows(again), PlayersDrawn, Len(JobRows(again)))
  <1>1. CASE again = <<>>
    BY <1>1, JobFiles DEF Sent
  <1>2. CASE again = <<Line(1, 400)>>
    BY <1>2, JobFiles
  <1> QED
    BY <1>1, <1>2

LEMMA PopularPass ==
  ASSUME NEW known, Meeting("popular", known), NEW i \in 1..8, NEW t, NEW m, LoadTable("popular", t, i, m)
  PROVE  LoadPasses("popular", i, t, known, m)
  <1> DEFINE c == "popular"
             g == LoadGround(c)
             org == OrganizerOf(g)
             again == <<Line(1, 400)>>
             rows == JobRows(again)
             s == Script(c, choice)
             n == PlayersDrawn
             none == {}
  <1>0. g = choice.popular /\ c \in JobWorkers /\ choice \in LoadChoices
    BY DEF LoadGround, JobWorkers, Meeting
  <1>1. JobTable(t, i, rows)
    BY DEF LoadTable
  <1>2. ASSUME NEW u, JobTable(u, i + 1, rows) PROVE LoadTable(c, u, i + 1, m)
    <2> HIDE DEF rows, again
    <2> QED
      BY <1>2 DEF LoadTable, rows, again
  <1>3. /\ JobSteps(s, 1, g, again)
        /\ s[7] = Must("popular_billing", "billing", org, Nothing)
        /\ s[8] = Must("popular_players", "players_add", org, [n |-> 2])
    <2>1. /\ JobSteps(s, 1, choice.popular, again)
          /\ s[7] = Must("popular_billing", "billing", OrganizerOf(choice.popular), Nothing)
          /\ s[8] = Must("popular_players", "players_add", OrganizerOf(choice.popular), [n |-> 2])
      BY <1>0, PopularSteps
    <2> HIDE DEF s, c, g, again
    <2> QED
      BY <1>0, <2>1
  <1>4. g \in known /\ g # Admin
    BY JobMeets DEF Tenanting
  <1>5. CASE i \in 1..6
    <2>1. Sent(rows, n, Len(rows))
      BY JobFile
    <2>2. i - i + 1 = 1 /\ i \in Nat
      BY <1>5
    <2> HIDE DEF rows, again, s, g
    <2>3. JobAt(c, i, i, again, m)
      BY <1>0, <1>2, <1>3, <1>5, <2>1, <2>2 DEF JobAt, rows, s, g
    <2> HIDE DEF c
    <2>4. Meeting(c, known) /\ JobTable(t, i, JobRows(again))
      BY <1>1 DEF c, rows
    <2>5. LoadPasses(c, i, t, known, m)
      BY <2>3, <2>4, JobPasses
    <2> QED
      BY <2>5 DEF c
  <1>6. CASE i = 7
    <2>0. PICK cs : t = Holding(n, none, cs)
      BY <1>1, <1>6 DEF JobTable, LookedAt
    <2>1. t = Holding(n, none, cs) /\ JobTable(t, i + 1, rows)
      BY <1>1, <1>6, <2>0 DEF JobTable
    <2> HIDE DEF none
    <2>2. Answers("billing", org, Nothing, g, t, known, t, BillOf(cs))
      BY <1>4, <2>1, ListAnswers
    <2>3. JobFits("popular_billing", Request("billing", org, Nothing), BillOf(cs))
      BY DEF JobFits
    <2> HIDE DEF s, rows
    <2>4. JobSucceeds(c, i, t, t, known, m, "popular_billing", "billing", org, Nothing, BillOf(cs))
      BY <1>2, <1>3, <1>6, <2>1, <2>2, <2>3 DEF JobSucceeds, s
    <2> HIDE DEF c, g, org
    <2>5. LoadPasses(c, i, t, known, m)
      BY <1>0, <2>4, JobStepPasses
    <2> QED
      BY <2>5 DEF c
  <1>7. CASE i = 8
    <2>1. PICK cs : t = Holding(n, none, cs)
      BY <1>1, <1>7 DEF JobTable, LookedAt
    <2> DEFINE p == [n |-> 2]
               u == Holding(n + 2, none, cs)
               d == (n + 1)..(n + 2)
    <2>2. "n" \in DOMAIN p /\ p.n \in Nat /\ p.n = 2
      OBVIOUS
    <2>3. Answers("players_add", org, p, g, t, known, u, d)
      <3> HIDE DEF p, none, n
      <3>1. LET q == Request("players_add", org, p)
            IN  /\ Proper(q, g)
                /\ Answer(Holding(n, none, cs), q, known) = Done(Holding(n + p.n, none, cs), (n + 1)..(n + p.n))
        BY <1>4, <2>2, AskPlayersAdd
      <3> QED
        BY <2>1, <2>2, <3>1 DEF Answers
    <2>4. JobFits("popular_players", Request("players_add", org, p), d)
      BY DEF JobFits
    <2>5. JobTable(u, i + 1, rows)
      BY <1>7 DEF JobTable
    <2> HIDE DEF s, rows, p, u, d
    <2>6. JobSucceeds(c, i, t, u, known, m, "popular_players", "players_add", org, p, d)
      BY <1>2, <1>3, <1>7, <2>3, <2>4, <2>5 DEF JobSucceeds, s, p
    <2> HIDE DEF c, g, org
    <2>7. LoadPasses(c, i, t, known, m)
      BY <1>0, <2>6, JobStepPasses
    <2> QED
      BY <2>7 DEF c
  <1> QED
    BY <1>5, <1>6, <1>7

LEMMA AdminBillingPasses ==
  ASSUME NEW known, Meeting("adminBilling", known), NEW i \in 2..7, NEW t, NEW m, LoadTable("adminBilling", t, i, m)
  PROVE  LoadPasses("adminBilling", i, t, known, m)
  <1> DEFINE c == "adminBilling"
             g == LoadGround(c)
             again == <<>>
             rows == JobRows(again)
             s == Script(c, choice)
  <1>0. g = choice.target /\ c \in JobWorkers /\ choice \in LoadChoices
    BY DEF LoadGround, JobWorkers, Meeting
  <1>1. JobTable(t, i - 1, rows) /\ m = OldPage
    BY DEF LoadTable
  <1>2. ASSUME NEW u, JobTable(u, (i - 1) + 1, rows) PROVE LoadTable(c, u, i + 1, m)
    <2>1. (i - 1) + 1 = (i + 1) - 1
      OBVIOUS
    <2>2. JobTable(u, (i + 1) - 1, rows)
      BY <1>2, <2>1
    <2> HIDE DEF rows, again
    <2> QED
      BY <1>1, <2>2 DEF LoadTable, rows, again
  <1>3. JobSteps(s, 2, g, again)
    <2>1. JobSteps(s, 2, choice.target, again)
      BY <1>0, AdminBillingSteps
    <2> HIDE DEF s, c, g, again
    <2> QED
      BY <1>0, <2>1
  <1>4. Sent(rows, PlayersDrawn, Len(rows))
    BY JobFile
  <1>5. i - (i - 1) + 1 = 2 /\ i \in Nat /\ i - 1 \in 1..6
    OBVIOUS
  <1> DEFINE j == i - 1
  <1> HIDE DEF rows, again, s, g, j
  <1>6. JobAt(c, i, j, again, m)
    BY <1>0, <1>2, <1>3, <1>4, <1>5 DEF JobAt, rows, s, g, j
  <1> HIDE DEF c
  <1>7. Meeting(c, known) /\ JobTable(t, j, JobRows(again))
    BY <1>1 DEF c, rows, j
  <1>8. LoadPasses(c, i, t, known, m)
    BY <1>6, <1>7, JobPasses
  <1> QED
    BY <1>8 DEF c

-----------------------------------------------------------------------------
(* The rounds of the worker for the bills of one tenant *)

LEMMA RoundsAre ==
  /\ Len(Rounds) \in Nat /\ DOMAIN Rounds = 1..Len(Rounds)
  /\ \A k \in DOMAIN Rounds :
        /\ k \in Nat /\ Rounds[k].scored \in Nat /\ Rounds[k].visitors \in Nat
        /\ Rounds[k].scored <= Rounds[k].visitors /\ Rounds[k].visitors <= PlayerNum
        /\ RoundVisits(k) \in Nat /\ Rounds[k].scored + RoundVisits(k) = Rounds[k].visitors
        /\ RoundLength(k) \in Nat /\ RoundLength(k) = RoundVisits(k) + 4
  /\ PlayerNum \in Nat
  <1>1. Len(Rounds) \in Nat /\ DOMAIN Rounds = 1..Len(Rounds)
    BY RangesAssumption, LenProperties
  <1>2. ASSUME NEW k \in DOMAIN Rounds
        PROVE  /\ k \in Nat /\ Rounds[k].scored \in Nat /\ Rounds[k].visitors \in Nat
               /\ Rounds[k].scored <= Rounds[k].visitors /\ Rounds[k].visitors <= PlayerNum
    <2> DEFINE R == [scored : Nat, visitors : Nat]
    <2>1. Rounds \in Seq(R)
      BY RangesAssumption
    <2>2. k \in 1..Len(Rounds) /\ k \in Nat
      BY <1>1
    <2> HIDE DEF R
    <2>3. Rounds[k] \in R
      BY <2>1, <2>2, ElementOfSeq
    <2> QED
      BY <2>2, <2>3, RangesAssumption DEF R
  <1>3. ASSUME NEW k \in DOMAIN Rounds
        PROVE  /\ RoundVisits(k) \in Nat /\ Rounds[k].scored + RoundVisits(k) = Rounds[k].visitors
               /\ RoundLength(k) \in Nat /\ RoundLength(k) = RoundVisits(k) + 4
    BY <1>2 DEF RoundVisits, RoundLength
  <1> QED
    BY <1>1, <1>2, <1>3, Ground1

LEMMA RoundStepsAre ==
  ASSUME NEW k \in DOMAIN Rounds
  PROVE  LET s == RoundSteps(k)
             org == OrganizerOf(tBill)
             n == RoundVisits(k)
         IN  /\ Lasts(s, RoundLength(k)) /\ Len(s) = RoundLength(k)
             /\ s[1] = Must("competitions_add", "competitions_add", org, Nothing)
             /\ s[2] = Must("upload", "score", org, FileOf(k, RoundRows(k)))
             /\ \A i \in 1..n : s[2 + i] = Must("visit", "ranking", As("player", tBill, Rounds[k].scored + i), Of(k))
             /\ s[n + 3] = Must("finish", "finish", org, Of(k))
             /\ s[n + 4] = Must("billing", "billing", org, Of(k))
  <1> DEFINE s == RoundSteps(k)
             org == OrganizerOf(tBill)
             n == RoundVisits(k)
             a == << Must("competitions_add", "competitions_add", org, Nothing),
                     Must("upload", "score", org, FileOf(k, RoundRows(k))) >>
             visit(i) == Must("visit", "ranking", As("player", tBill, Rounds[k].scored + i), Of(k))
             v == [i \in 1..n |-> visit(i)]
             b == << Must("finish", "finish", org, Of(k)), Must("billing", "billing", org, Of(k)) >>
             av == a \o v
  <1>1. IsJoined(av, a, v) /\ IsJoined(s, av, b)
    BY DEF IsJoined, RoundSteps
  <1>2. n \in Nat /\ RoundLength(k) = n + 4
    BY RoundsAre
  <1>3. /\ Lasts(a, 2) /\ a[1] = Must("competitions_add", "competitions_add", org, Nothing)
        /\ a[2] = Must("upload", "score", org, FileOf(k, RoundRows(k)))
    BY DEF Lasts
  <1>4. /\ Lasts(b, 2) /\ b[1] = Must("finish", "finish", org, Of(k))
        /\ b[2] = Must("billing", "billing", org, Of(k))
    BY DEF Lasts
  <1>5. Lasts(v, n) /\ \A i \in 1..n : v[i] = visit(i)
    <2> HIDE DEF n, visit
    <2> QED
      BY <1>2 DEF Lasts
  <1> HIDE DEF a, b, s, v, av, visit, n, org
  <1>6. Lasts(av, 2 + n) /\ \A i \in 1..(2 + n) : av[i] = IF i <= 2 THEN a[i] ELSE v[i - 2]
    BY <1>1, <1>2, <1>3, <1>5, Joined
  <1>7. Lasts(s, (2 + n) + 2) /\ Len(s) = (2 + n) + 2
        /\ \A i \in 1..((2 + n) + 2) : s[i] = IF i <= 2 + n THEN av[i] ELSE b[i - (2 + n)]
    <2>1. 2 + n \in Nat /\ 2 \in Nat
      BY <1>2
    <2> QED
      BY <1>1, <1>4, <1>6, <2>1, Joined
  <1>8. (2 + n) + 2 = RoundLength(k)
    BY <1>2
  <1>9. s[1] = a[1] /\ s[2] = a[2]
    BY <1>2, <1>6, <1>7
  <1>10. ASSUME NEW i \in 1..n PROVE s[2 + i] = visit(i)
    <2>1. 2 + i \in 1..(2 + n) /\ ~(2 + i <= 2) /\ (2 + i) - 2 = i /\ 2 + i <= 2 + n /\ 2 + i \in 1..((2 + n) + 2)
      BY <1>2
    <2>2. s[2 + i] = av[2 + i] /\ av[2 + i] = v[(2 + i) - 2]
      BY <1>6, <1>7, <2>1
    <2> QED
      BY <1>5, <2>1, <2>2
  <1>11. s[n + 3] = b[1] /\ s[n + 4] = b[2]
    <2>1. /\ n + 3 \in 1..((2 + n) + 2) /\ ~(n + 3 <= 2 + n) /\ (n + 3) - (2 + n) = 1
          /\ n + 4 \in 1..((2 + n) + 2) /\ ~(n + 4 <= 2 + n) /\ (n + 4) - (2 + n) = 2
      BY <1>2
    <2>2. s[n + 3] = b[(n + 3) - (2 + n)] /\ s[n + 4] = b[(n + 4) - (2 + n)]
      BY <1>7, <2>1
    <2> QED
      BY <2>1, <2>2
  <1>12. Lasts(s, RoundLength(k)) /\ Len(s) = RoundLength(k)
    BY <1>7, <1>8
  <1> QED
    BY <1>3, <1>4, <1>9, <1>10, <1>11, <1>12 DEF visit, s, n, org

(* Where its rounds begin, in all of them one after another. *)
LEMMA OffsetsAre ==
  LET all == FlattenSeq(AllRounds)
      n == Len(Rounds)
  IN  /\ Offsets \in [1..(n + 1) -> Nat] /\ Offsets[1] = 0
      /\ \A k \in 1..n : Offsets[k + 1] = Offsets[k] + RoundLength(k)
      /\ Lasts(all, Offsets[n + 1])
      /\ \A k \in 1..n : \A j \in 1..RoundLength(k) :
            Offsets[k] + j \in 1..Offsets[n + 1] /\ all[Offsets[k] + j] = RoundSteps(k)[j]
  <1> DEFINE all == FlattenSeq(AllRounds)
             n == Len(Rounds)
             S == {RoundSteps(x[1])[x[2]] : x \in (1..n) \X Nat}
             Good(o) == Blocks(o, Len(AllRounds), AllRounds) /\ InPlace(FlattenSeq(AllRounds), o, Len(AllRounds), AllRounds)
  <1>1. n \in Nat /\ DOMAIN Rounds = 1..n
    BY RoundsAre
  <1>2. ASSUME NEW k \in 1..n PROVE RoundSteps(k) \in Seq(S) /\ Len(RoundSteps(k)) = RoundLength(k) /\ RoundLength(k) \in Nat
    <2>1. Lasts(RoundSteps(k), RoundLength(k)) /\ Len(RoundSteps(k)) = RoundLength(k) /\ RoundLength(k) \in Nat
      BY <1>1, RoundStepsAre, RoundsAre
    <2>2. ASSUME NEW j \in 1..RoundLength(k) PROVE RoundSteps(k)[j] \in S
      <3>1. <<k, j>> \in (1..n) \X Nat
        BY <2>1
      <3>2. RoundSteps(<<k, j>>[1])[<<k, j>>[2]] = RoundSteps(k)[j]
        OBVIOUS
      <3> QED
        BY <3>1, <3>2
    <2>3. RoundSteps(k) \in [1..RoundLength(k) -> S]
      <3> HIDE DEF S
      <3> QED
        BY <2>1, <2>2 DEF Lasts
    <2> HIDE DEF S
    <2> QED
      BY <2>1, <2>3, SeqDef
  <1>3. AllRounds \in Seq(Seq(S)) /\ Len(AllRounds) = n /\ \A k \in 1..n : AllRounds[k] = RoundSteps(k)
    <2> HIDE DEF S, n
    <2>1. AllRounds = [k \in 1..n |-> RoundSteps(k)]
      BY <1>1 DEF AllRounds
    <2>2. AllRounds \in [1..n -> Seq(S)]
      BY <1>2, <2>1
    <2>3. AllRounds \in Seq(Seq(S)) /\ DOMAIN AllRounds = 1..n
      BY <1>1, <2>2, SeqDef
    <2> QED
      BY <1>1, <2>1, <2>3, LenProperties
  <1> HIDE DEF S
  <1>4. all \in Seq(S) /\ \E o : Good(o)
    BY <1>3, FlattenProperties
  <1>5. Good(Offsets)
    <2>1. Offsets = CHOOSE o : Good(o)
      BY DEF Offsets
    <2> HIDE DEF Good
    <2> QED
      BY <1>4, <2>1
  <1>6. Blocks(Offsets, n, AllRounds) /\ InPlace(all, Offsets, n, AllRounds)
    BY <1>3, <1>5
  <1> HIDE DEF Good, all, n
  <1>7. Offsets \in [1..(n + 1) -> Nat] /\ Offsets[1] = 0 /\ \A k \in 1..n : Offsets[k + 1] = Offsets[k] + RoundLength(k)
    <2>1. \A k \in 1..n : Len(AllRounds[k]) = RoundLength(k)
      BY <1>2, <1>3
    <2> QED
      BY <1>6, <2>1 DEF Blocks
  <1>8. Len(all) = Offsets[n + 1]
    BY <1>6 DEF InPlace
  <1>9. Lasts(all, Offsets[n + 1])
    <2>1. Len(all) \in Nat /\ DOMAIN all = 1..Len(all) /\ all \in [1..Len(all) -> S]
      BY <1>4, LenProperties
    <2> QED
      BY <1>8, <2>1 DEF Lasts
  <1>10. ASSUME NEW k \in 1..n, NEW j \in 1..RoundLength(k)
         PROVE  Offsets[k] + j \in 1..Offsets[n + 1] /\ all[Offsets[k] + j] = RoundSteps(k)[j]
    <2>1. Len(AllRounds[k]) = RoundLength(k) /\ AllRounds[k] = RoundSteps(k)
      BY <1>2, <1>3
    <2>2. j \in 1..Len(AllRounds[k])
      BY <2>1
    <2>3. Offsets[k] + j \in 1..Len(all) /\ all[Offsets[k] + j] = AllRounds[k][j]
      BY <1>6, <2>2 DEF InPlace
    <2> QED
      BY <1>8, <2>1, <2>3
  <1> QED
    BY <1>7, <1>9, <1>10 DEF all, n

LEMMA BillSteps ==
  ASSUME choice \in LoadChoices
  PROVE  LET s == Script("tenantBilling", choice)
             n == Len(Rounds)
         IN  /\ Len(s) = 2 + Offsets[n + 1]
             /\ s[1] = Must("tenants_add", "tenants_add", AdminAs, [name |-> tBill])
             /\ s[2] = Must("players_add", "players_add", OrganizerOf(tBill), [n |-> 2 * PlayerNum])
             /\ \A k \in 1..n : \A j \in 1..RoundLength(k) :
                   2 + Offsets[k] + j \in 1..Len(s) /\ s[2 + Offsets[k] + j] = RoundSteps(k)[j]
  <1> DEFINE s == Script("tenantBilling", choice)
             n == Len(Rounds)
             all == FlattenSeq(AllRounds)
             a == << Must("tenants_add", "tenants_add", AdminAs, [name |-> tBill]),
                     Must("players_add", "players_add", OrganizerOf(tBill), [n |-> 2 * PlayerNum]) >>
             end == Offsets[n + 1]
  <1>1. IsJoined(s, a, all)
    <2>1. s = TenantBillingScript
      BY LoadScriptIs
    <2> QED
      BY <2>1 DEF TenantBillingScript, IsJoined, AllRounds, RoundSteps, RoundRows, RoundVisits, Rising
  <1>2. Lasts(a, 2) /\ a[1] = Must("tenants_add", "tenants_add", AdminAs, [name |-> tBill])
        /\ a[2] = Must("players_add", "players_add", OrganizerOf(tBill), [n |-> 2 * PlayerNum])
    BY DEF Lasts
  <1>3. n \in Nat
    BY RoundsAre
  <1>4. /\ Lasts(all, end) /\ Offsets \in [1..(n + 1) -> Nat]
        /\ \A k \in 1..n : \A j \in 1..RoundLength(k) :
              Offsets[k] + j \in 1..end /\ all[Offsets[k] + j] = RoundSteps(k)[j]
    BY OffsetsAre
  <1> HIDE DEF s, a, all, end, n
  <1>5. end \in Nat
    BY <1>4 DEF Lasts
  <1>6. /\ Lasts(s, 2 + end) /\ Len(s) = 2 + end
        /\ \A i \in 1..(2 + end) : s[i] = IF i <= 2 THEN a[i] ELSE all[i - 2]
    BY <1>1, <1>2, <1>4, <1>5, Joined
  <1>7. s[1] = a[1] /\ s[2] = a[2]
    BY <1>5, <1>6
  <1>8. ASSUME NEW k \in 1..n, NEW j \in 1..RoundLength(k)
        PROVE  2 + Offsets[k] + j \in 1..Len(s) /\ s[2 + Offsets[k] + j] = RoundSteps(k)[j]
    <2> DEFINE x == Offsets[k] + j
    <2>1. x \in 1..end /\ all[x] = RoundSteps(k)[j] /\ Offsets[k] \in Nat /\ j \in Nat
      <3>1. Offsets[k] \in Nat
        BY <1>3, <1>4
      <3>2. j \in Nat
        OBVIOUS
      <3> QED
        BY <1>4, <3>1, <3>2
    <2>2. 2 + Offsets[k] + j = 2 + x
      BY <2>1
    <2> HIDE DEF x
    <2>3. 2 + x \in 1..(2 + end) /\ ~(2 + x <= 2) /\ (2 + x) - 2 = x
      BY <1>5, <2>1
    <2>4. s[2 + x] = all[(2 + x) - 2]
      BY <1>6, <2>3
    <2> QED
      BY <1>6, <2>1, <2>2, <2>3, <2>4
  <1> QED
    BY <1>2, <1>6, <1>7, <1>8 DEF s, n, end

LEMMA CameIs ==
  ASSUME NEW k \in DOMAIN Rounds
  PROVE  /\ Came(k, 0) = {}
         /\ \A i \in 1..RoundVisits(k) : Came(k, i) = Came(k, i - 1) \cup {Rounds[k].scored + i}
         /\ \A i \in 0..RoundVisits(k) : Came(k, i) \in SUBSET Nat
         /\ Came(k, RoundVisits(k)) = (Rounds[k].scored + 1)..Rounds[k].visitors
  <1> DEFINE s == Rounds[k].scored
             n == RoundVisits(k)
  <1>1. s \in Nat /\ n \in Nat /\ Rounds[k].visitors = s + n
    BY RoundsAre
  <1>2. \A j : Came(k, j) = {s + i : i \in 1..j}
    BY DEF Came
  <1> HIDE DEF s, n
  <1>3. Came(k, 0) = {}
    BY <1>2
  <1>4. ASSUME NEW i \in 1..n PROVE Came(k, i) = Came(k, i - 1) \cup {s + i}
    <2>1. 1..i = (1..(i - 1)) \cup {i}
      BY <1>1
    <2> QED
      BY <1>2, <2>1
  <1>5. ASSUME NEW i \in 0..n PROVE Came(k, i) \in SUBSET Nat
    BY <1>1, <1>2
  <1>6. Came(k, n) = (s + 1)..(s + n)
    <2>1. ASSUME NEW x \in (s + 1)..(s + n) PROVE x \in Came(k, n)
      <3>1. x - s \in 1..n /\ x = s + (x - s)
        BY <1>1
      <3> QED
        BY <1>2, <3>1
    <2>2. ASSUME NEW x \in Came(k, n) PROVE x \in (s + 1)..(s + n)
      BY <1>1, <1>2
    <2> QED
      BY <2>1, <2>2
  <1> QED
    BY <1>1, <1>3, <1>4, <1>5, <1>6 DEF s, n

(* What is kept of a round, and what it owes. *)
LEMMA RoundKept ==
  ASSUME NEW k \in DOMAIN Rounds
  PROVE  /\ Sent(RoundRows(k), Rounds[k].scored, Rounds[k].scored)
         /\ \A i \in 0..RoundVisits(k) : Kept(RoundRows(k), Came(k, i))
         /\ RoundClosed(k) \in CompetitionSet /\ Report(RoundClosed(k)) = RoundBill(k)
  <1> DEFINE s == Rounds[k].scored
             n == RoundVisits(k)
             rows == RoundRows(k)
             V == Came(k, n)
             c == RoundClosed(k)
             owes(x, y) == [players |-> x, visitors |-> y, yen |-> 100 * x + 10 * y]
  <1>1. s \in Nat /\ n \in Nat /\ Rounds[k].visitors = s + n /\ 100 \in Nat
    BY RoundsAre
  <1>2. rows = Rising(s, 100) /\ c = Closed(rows, V) /\ RoundBill(k) = owes(s, Rounds[k].visitors - s)
    BY DEF RoundRows, RoundClosed, RoundBill
  <1>3. V = (s + 1)..(s + n) /\ V \in SUBSET Nat /\ \A i \in 0..n : Came(k, i) \in SUBSET Nat
    <2>1. n \in 0..n
      BY <1>1
    <2> QED
      BY <1>1, <2>1, CameIs
  <1> HIDE DEF s, n, rows, V, c, owes
  <1>4. Sent(rows, s, s)
    BY <1>1, <1>2, LoadRows
  <1>5. rows \in Seq(Lines) /\ DOMAIN rows = 1..s /\ \A i \in 1..s : rows[i].player = i
    <2>1. 100 \in Nat
      OBVIOUS
    <2>2. /\ Rising(s, 100) \in Seq(Lines) /\ DOMAIN Rising(s, 100) = 1..s
          /\ \A i \in 1..s : Rising(s, 100)[i].player = i
      BY <1>1, <2>1, RisingStandings
    <2> QED
      BY <1>2, <2>2
  <1>6. c \in CompetitionSet /\ c.finished /\ c.rows = rows /\ c.visitors = V
    <2>1. /\ Closed(rows, V) \in CompetitionSet /\ Closed(rows, V).finished /\ Closed(rows, V).rows = rows
          /\ Closed(rows, V).visitors = V
      <3>1. rows \in Seq(Lines) /\ V \in SUBSET Nat
        BY <1>3, <1>5
      <3> QED
        BY <3>1, ClosedFields
    <2> QED
      BY <1>2, <2>1
  <1>7. Scored(c) = 1..s
    BY <1>5, <1>6 DEF Scored
  <1>8. c.visitors \ Scored(c) = (s + 1)..(s + n)
    BY <1>1, <1>3, <1>6, <1>7
  <1>9. Cardinality(1..s) = s /\ Cardinality((s + 1)..(s + n)) = n
    <2>1. Cardinality(1..s) = s
      BY <1>1, CountFromOne
    <2>2. Cardinality((s + 1)..(s + n)) = n
      <3>1. s + 1 \in Int /\ s + n \in Int
        BY <1>1
      <3>2. Cardinality((s + 1)..(s + n)) = IF s + 1 > s + n THEN 0 ELSE (s + n) - (s + 1) + 1
        BY <3>1, FS_Interval
      <3> QED
        BY <1>1, <3>2
    <2> QED
      BY <2>1, <2>2
  <1>10. Report(c) = RoundBill(k)
    <2>1. /\ (IF c.finished THEN Cardinality(Scored(c)) ELSE 0) = s
          /\ (IF c.finished THEN Cardinality(c.visitors \ Scored(c)) ELSE 0) = n
      BY <1>6, <1>7, <1>8, <1>9
    <2>2. Report(c) = owes(IF c.finished THEN Cardinality(Scored(c)) ELSE 0,
                           IF c.finished THEN Cardinality(c.visitors \ Scored(c)) ELSE 0)
      BY DEF Report, owes
    <2>3. Rounds[k].visitors - s = n
      BY <1>1
    <2> QED
      BY <1>2, <2>1, <2>2, <2>3
  <1>11. \A i \in 0..n : Kept(rows, Came(k, i))
    BY <1>3, <1>5 DEF Kept
  <1> QED
    BY <1>4, <1>6, <1>10, <1>11 DEF c, rows, s, n

(* The rounds that are over. *)
LEMMA PastIs ==
  ASSUME NEW n \in 0..Len(Rounds)
  PROVE  /\ Past(n) \in Seq(CompetitionSet) /\ Len(Past(n)) = n
         /\ n >= 1 => Past(n) = Append(Past(n - 1), RoundClosed(n))
         /\ BillOf(Past(n)) = [k \in 1..n |-> RoundBill(k)]
         /\ n = 0 => Past(n) = <<>>
  <1>1. Len(Rounds) \in Nat /\ DOMAIN Rounds = 1..Len(Rounds) /\ n \in Nat
    BY RoundsAre
  <1>2. ASSUME NEW m \in Nat, m <= n
        PROVE  /\ Past(m) \in Seq(CompetitionSet) /\ Len(Past(m)) = m /\ DOMAIN Past(m) = 1..m
               /\ \A k \in 1..m : Past(m)[k] = RoundClosed(k) /\ Report(RoundClosed(k)) = RoundBill(k)
    <2>1. \A k \in 1..m : k \in DOMAIN Rounds
      BY <1>1, <1>2
    <2>2. \A k \in 1..m : RoundClosed(k) \in CompetitionSet /\ Report(RoundClosed(k)) = RoundBill(k)
      BY <2>1, RoundKept
    <2>3. Past(m) \in [1..m -> CompetitionSet] /\ \A k \in 1..m : Past(m)[k] = RoundClosed(k)
      BY <2>2 DEF Past
    <2>4. Past(m) \in Seq(CompetitionSet) /\ DOMAIN Past(m) = 1..m
      BY <1>2, <2>3, SeqDef
    <2> QED
      BY <1>2, <2>2, <2>3, <2>4, LenProperties
  <1>3. ASSUME n >= 1 PROVE Past(n) = Append(Past(n - 1), RoundClosed(n))
    <2> DEFINE f == Past(n)
               g == Past(n - 1)
               h == Append(g, RoundClosed(n))
    <2>1. n - 1 \in Nat /\ n - 1 <= n /\ n \in 1..n /\ 1..n = (1..(n - 1)) \cup {n} /\ (n - 1) + 1 = n
      BY <1>1, <1>3
    <2>2. /\ g \in Seq(CompetitionSet) /\ Len(g) = n - 1 /\ \A k \in 1..(n - 1) : g[k] = RoundClosed(k)
          /\ f \in Seq(CompetitionSet) /\ DOMAIN f = 1..n /\ \A k \in 1..n : f[k] = RoundClosed(k)
      BY <1>1, <1>2, <2>1
    <2>3. RoundClosed(n) \in CompetitionSet
      <3>1. n \in DOMAIN Rounds
        BY <1>1, <2>1
      <3> QED
        BY <3>1, RoundKept
    <2> HIDE DEF f, g
    <2>4. h \in Seq(CompetitionSet) /\ Len(h) = n /\ DOMAIN h = 1..n /\ h[n] = RoundClosed(n)
          /\ \A k \in 1..(n - 1) : h[k] = g[k]
      BY <2>1, <2>2, <2>3, AppendProperties, LenProperties
    <2> HIDE DEF h
    <2>5. \A k \in 1..n : f[k] = h[k]
      BY <2>1, <2>2, <2>4
    <2>6. f = [k \in 1..n |-> f[k]] /\ h = [k \in 1..n |-> h[k]]
      <3>1. f \in [1..n -> CompetitionSet] /\ h \in [1..n -> CompetitionSet]
        BY <1>1, <2>2, <2>4, LenProperties
      <3> QED
        BY <3>1
    <2>7. f = h
      BY <2>5, <2>6
    <2> QED
      BY <2>7 DEF f, g, h
  <1>4. BillOf(Past(n)) = [k \in 1..n |-> RoundBill(k)]
    <2>1. DOMAIN Past(n) = 1..n /\ \A k \in 1..n : Report(Past(n)[k]) = RoundBill(k)
      BY <1>1, <1>2
    <2> QED
      BY <2>1 DEF BillOf
  <1>5. n = 0 => Past(n) = <<>>
    BY DEF Past
  <1>6. Past(n) \in Seq(CompetitionSet) /\ Len(Past(n)) = n
    BY <1>1, <1>2
  <1> QED
    BY <1>3, <1>4, <1>5, <1>6

LEMMA BillSucceeds ==
  ASSUME NEW i, NEW name, NEW op, NEW as, NEW p, NEW t, NEW known, NEW m, NEW u, NEW d,
         Script("tenantBilling", choice)[i] = Must(name, op, as, p),
         Answers(op, as, p, tBill, t, known, u, d),
         TenantBillingFits(name, Request(op, as, p), d), BillTable(u, i + 1)
  PROVE  LoadPasses("tenantBilling", i, t, known, m)
  <1> DEFINE c == "tenantBilling"
             s == Must(name, op, as, p)
  <1>1. c \in LoadCheck /\ LoadGround(c) = tBill /\ ~Remembered(c, s)
    BY DEF LoadCheck, LoadGround, Remembered
  <1>2. LoadFits(c, name, Request(op, as, p), d, m)
    BY DEF LoadFits
  <1>3. c = "tenantBilling"
    OBVIOUS
  <1> HIDE DEF c, s
  <1>4. LoadTable(c, u, i + 1, IF Remembered(c, s) THEN d ELSE m)
    BY <1>3 DEF LoadTable
  <1>5. LoadPasses(c, i, t, known, m)
    BY <1>1, <1>2, <1>3, <1>4, MustPasses DEF s
  <1> QED
    BY <1>5 DEF c

(* After the last step of a round comes the first of the next. *)
LEMMA NextRow ==
  ASSUME NEW k \in DOMAIN Rounds, NEW j \in 1..RoundLength(k), NEW u, choice \in LoadChoices,
         j < RoundLength(k) => RoundTable(u, k, j + 1),
         j = RoundLength(k) => u = Billed(Past(k))
  PROVE  BillTable(u, (2 + Offsets[k] + j) + 1)
  <1> DEFINE n == Len(Rounds)
             i == 2 + Offsets[k] + j
  <1>1. n \in Nat /\ DOMAIN Rounds = 1..n /\ k \in Nat /\ RoundLength(k) \in Nat
    BY RoundsAre
  <1>2. /\ Offsets \in [1..(n + 1) -> Nat] /\ Offsets[k + 1] = Offsets[k] + RoundLength(k)
        /\ Length("tenantBilling") = 2 + Offsets[n + 1]
    BY <1>1, OffsetsAre, BillSteps DEF Length
  <1>3. Offsets[k] \in Nat /\ j \in Nat /\ j >= 1
    BY <1>1, <1>2
  <1>4. i + 1 > 2 /\ i + 1 # 2
    BY <1>3
  <1>5. CASE j < RoundLength(k)
    <2>1. j + 1 \in 1..RoundLength(k) /\ i + 1 = 2 + Offsets[k] + (j + 1)
      BY <1>1, <1>3, <1>5
    <2> HIDE DEF i
    <2> QED
      BY <1>4, <1>5, <2>1 DEF BillTable, i
  <1>6. CASE j = RoundLength(k) /\ k = n
    <2>1. i + 1 = Length("tenantBilling") + 1
      BY <1>2, <1>3, <1>6
    <2> QED
      BY <1>4, <2>1 DEF BillTable
  <1>7. CASE j = RoundLength(k) /\ k # n
    <2>1. k + 1 \in DOMAIN Rounds /\ (k + 1) - 1 = k
      BY <1>1, <1>7
    <2>2. i + 1 = 2 + Offsets[k + 1] + 1
      BY <1>2, <1>3, <1>7
    <2>3. RoundLength(k + 1) \in Nat /\ RoundLength(k + 1) = RoundVisits(k + 1) + 4 /\ RoundVisits(k + 1) \in Nat
      BY <2>1, RoundsAre
    <2>4. RoundTable(u, k + 1, 1) /\ 1 \in 1..RoundLength(k + 1)
      BY <1>7, <2>1, <2>3 DEF RoundTable
    <2> DEFINE x == i + 1
    <2>5. \E l \in DOMAIN Rounds : \E e \in 1..RoundLength(l) : x = 2 + Offsets[l] + e /\ RoundTable(u, l, e)
      BY <2>1, <2>2, <2>4
    <2>6. x # 2
      BY <1>4
    <2> HIDE DEF x
    <2>7. BillTable(u, x)
      BY <2>5, <2>6 DEF BillTable
    <2> QED
      BY <2>7 DEF x
  <1>8. j <= RoundLength(k)
    BY <1>1
  <1> QED
    BY <1>1, <1>3, <1>5, <1>6, <1>7, <1>8

(* Its tenant, and who reads and what is sent in a round. *)
LEMMA RoundMeets ==
  ASSUME NEW known, tBill \in known, NEW k \in DOMAIN Rounds
  PROVE  /\ Tenanting(tBill, known, Past(k - 1), 2 * PlayerNum, k)
         /\ 2 * PlayerNum \in Nat /\ Rounds[k].scored <= 2 * PlayerNum
         /\ \A i \in 1..RoundVisits(k) :
               Rounds[k].scored + i \in Nat /\ Reader(Rounds[k].scored + i, 2 * PlayerNum, {})
         /\ Billed(Past(k)) = Billed(Append(Past(k - 1), RoundClosed(k)))
         /\ BillOf(Past(k)) = [r \in 1..k |-> RoundBill(r)]
  <1>1. /\ k \in Nat /\ Len(Rounds) \in Nat /\ DOMAIN Rounds = 1..Len(Rounds)
        /\ Rounds[k].scored \in Nat /\ RoundVisits(k) \in Nat
        /\ Rounds[k].scored + RoundVisits(k) <= PlayerNum /\ PlayerNum \in Nat
    BY RoundsAre
  <1>2. k \in 0..Len(Rounds) /\ k - 1 \in 0..Len(Rounds) /\ k >= 1 /\ (k - 1) + 1 = k
    BY <1>1
  <1>3. Past(k - 1) \in Seq(CompetitionSet) /\ Len(Past(k - 1)) = k - 1
    BY <1>2, PastIs
  <1>4. tBill # Admin
    BY BillTenantIs
  <1>5. 2 * PlayerNum \in Nat /\ Rounds[k].scored <= 2 * PlayerNum
    BY <1>1
  <1>6. Tenanting(tBill, known, Past(k - 1), 2 * PlayerNum, k)
    BY <1>2, <1>3, <1>4, <1>5 DEF Tenanting, IsNext
  <1>7. ASSUME NEW i \in 1..RoundVisits(k)
        PROVE  Rounds[k].scored + i \in Nat /\ Reader(Rounds[k].scored + i, 2 * PlayerNum, {})
    BY <1>1 DEF Reader
  <1>8. Past(k) = Append(Past(k - 1), RoundClosed(k)) /\ BillOf(Past(k)) = [r \in 1..k |-> RoundBill(r)]
    BY <1>2, PastIs
  <1> QED
    BY <1>5, <1>6, <1>7, <1>8

(* The competition that is asked about is the round's. *)
LEMMA AboutRound ==
  ASSUME NEW op, NEW as, NEW k, NEW rows
  PROVE  Request(op, as, Of(k)).competition = k /\ Request(op, as, FileOf(k, rows)).competition = k
  <1>1. "competition" \in DOMAIN Of(k) /\ Of(k).competition = k
    BY DEF Of
  <1> DEFINE p == Of(k)
             f == FileOf(k, rows)
  <1>2. "competition" \in DOMAIN f /\ f.competition = k
    BY FileOfIs
  <1> HIDE DEF p, f
  <1>3. "competition" \in DOMAIN p /\ p.competition = k
    BY <1>1 DEF p
  <1>4. Request(op, as, f).competition = k
    <2>1. \A y \in DOMAIN f : y \notin {"op", "as"} => Request(op, as, f)[y] = f[y]
      BY DEF Request
    <2> QED
      BY <1>2, <2>1
  <1>5. Request(op, as, p).competition = k
    <2>1. \A y \in DOMAIN p : y \notin {"op", "as"} => Request(op, as, p)[y] = p[y]
      BY DEF Request
    <2> QED
      BY <1>3, <2>1
  <1> QED
    BY <1>4, <1>5 DEF p, f

(* A step of a round. *)
RoundAt(k, j, t, known) ==
    /\ tBill \in known /\ choice \in LoadChoices
    /\ k \in DOMAIN Rounds /\ j \in 1..RoundLength(k) /\ RoundTable(t, k, j)

LEMMA RoundBegins ==
  ASSUME NEW k, NEW j, NEW t, NEW known, RoundAt(k, j, t, known), j \in {1, 2}, NEW m
  PROVE  LoadPasses("tenantBilling", 2 + Offsets[k] + j, t, known, m)
  <1> DEFINE i == 2 + Offsets[k] + j
             org == OrganizerOf(tBill)
             none == {}
             n == 2 * PlayerNum
             c0 == Past(k - 1)
             scored == Rounds[k].scored
             rows == RoundRows(k)
             file == FileOf(k, rows)
  <1>0. /\ tBill \in known /\ choice \in LoadChoices
        /\ k \in DOMAIN Rounds /\ j \in 1..RoundLength(k) /\ RoundTable(t, k, j)
    BY DEF RoundAt
  <1>1. /\ RoundVisits(k) \in Nat /\ RoundLength(k) = RoundVisits(k) + 4 /\ scored \in Nat
        /\ k \in 1..Len(Rounds)
    BY <1>0, RoundsAre
  <1>2. Tenanting(tBill, known, c0, n, k) /\ n \in Nat /\ scored <= n
    BY <1>0, RoundMeets
  <1>3. /\ RoundSteps(k)[1] = Must("competitions_add", "competitions_add", org, Nothing)
        /\ RoundSteps(k)[2] = Must("upload", "score", org, file)
    BY <1>0, RoundStepsAre
  <1>4. Script("tenantBilling", choice)[i] = RoundSteps(k)[j]
    BY <1>0, <1>1, BillSteps
  <1>5. Kept(rows, none) /\ Sent(rows, scored, scored) /\ Kept(<<>>, none)
    <2>1. Sent(rows, scored, scored)
      BY <1>0, RoundKept
    <2>2. <<>> \in Seq(Lines) /\ none \in SUBSET Nat
      BY EmptySeq
    <2> QED
      BY <2>1, <2>2 DEF Kept, Sent
  <1> HIDE DEF i
  <1>6. CASE j = 1
    <2> DEFINE u == Holding(n, none, Append(c0, Open(<<>>, {})))
    <2>1. t = Holding(n, none, c0)
      BY <1>0, <1>6 DEF RoundTable, Billed
    <2>2. Answers("competitions_add", org, Nothing, tBill, t, known, u, k)
      BY <1>2, <2>1, AddAnswers
    <2>3. RoundTable(u, k, j + 1)
      BY <1>1, <1>6 DEF RoundTable, Billed
    <2> HIDE DEF u
    <2>4. BillTable(u, i + 1)
      <3>1. j < RoundLength(k)
        BY <1>1, <1>6
      <3> QED
        BY <1>0, <2>3, <3>1, NextRow DEF i
    <2>5. TenantBillingFits("competitions_add", Request("competitions_add", org, Nothing), k)
      BY DEF TenantBillingFits
    <2>6. Script("tenantBilling", choice)[i] = Must("competitions_add", "competitions_add", org, Nothing)
      BY <1>3, <1>4, <1>6
    <2> HIDE DEF org
    <2>7. LoadPasses("tenantBilling", i, t, known, m)
      BY <2>2, <2>4, <2>5, <2>6, BillSucceeds
    <2> QED
      BY <2>7 DEF i
  <1>7. CASE j = 2
    <2> DEFINE u == Holding(n, none, Append(c0, Open(rows, none)))
    <2>1. t = Holding(n, none, Append(c0, Open(<<>>, none)))
      BY <1>0, <1>7 DEF RoundTable, Billed
    <2>2. Answers("score", org, file, tBill, t, known, u, scored)
      <3> DEFINE empty == <<>>
      <3>1. Kept(empty, none) /\ t = Holding(n, none, Append(c0, Open(empty, none)))
        BY <1>5, <2>1
      <3>2. scored \in Nat /\ scored <= n /\ Sent(rows, scored, scored) /\ Tenanting(tBill, known, c0, n, k)
        BY <1>1, <1>2, <1>5
      <3> HIDE DEF empty, n, none, rows, c0, scored
      <3> QED
        BY <3>1, <3>2, UploadAnswers
    <2>3. RoundTable(u, k, j + 1)
      <3>1. (j + 1) - 3 = 0 /\ j + 1 # 1 /\ j + 1 # 2 /\ j + 1 # RoundVisits(k) + 4
        BY <1>1, <1>7
      <3>2. Came(k, (j + 1) - 3) = {}
        BY <1>0, <3>1, CameIs
      <3>3. u = Billed(Append(Past(k - 1), Open(RoundRows(k), Came(k, (j + 1) - 3))))
        BY <3>2 DEF Billed
      <3> HIDE DEF u
      <3> QED
        BY <3>1, <3>3 DEF RoundTable
    <2>4. TenantBillingFits("upload", Request("score", org, file), scored)
      BY AboutRound DEF TenantBillingFits
    <2> HIDE DEF u, file
    <2>5. BillTable(u, i + 1)
      <3>1. j < RoundLength(k)
        BY <1>1, <1>7
      <3> QED
        BY <1>0, <2>3, <3>1, NextRow DEF i
    <2>6. Script("tenantBilling", choice)[i] = Must("upload", "score", org, file)
      BY <1>3, <1>4, <1>7
    <2> HIDE DEF org, scored
    <2>7. LoadPasses("tenantBilling", i, t, known, m)
      BY <2>2, <2>4, <2>5, <2>6, BillSucceeds
    <2> QED
      BY <2>7 DEF i
  <1> QED
    BY <1>6, <1>7

LEMMA RoundIsVisited ==
  ASSUME NEW k, NEW j, NEW t, NEW known, RoundAt(k, j, t, known), j \in 3..(RoundVisits(k) + 2), NEW m
  PROVE  LoadPasses("tenantBilling", 2 + Offsets[k] + j, t, known, m)
  <1> DEFINE i == 2 + Offsets[k] + j
             none == {}
             n == 2 * PlayerNum
             c0 == Past(k - 1)
             r == Rounds[k].scored + (j - 2)
             visitor == As("player", tBill, r)
             rows == RoundRows(k)
             V == Came(k, j - 3)
             u == Holding(n, none, Append(c0, Open(rows, V \cup {r})))
  <1>0. /\ tBill \in known /\ choice \in LoadChoices
        /\ k \in DOMAIN Rounds /\ j \in 1..RoundLength(k) /\ RoundTable(t, k, j)
    BY DEF RoundAt
  <1>1. RoundVisits(k) \in Nat /\ RoundLength(k) = RoundVisits(k) + 4 /\ k \in 1..Len(Rounds)
    BY <1>0, RoundsAre
  <1>2. /\ j - 2 \in 1..RoundVisits(k) /\ 2 + (j - 2) = j /\ j - 3 \in 0..RoundVisits(k) /\ (j - 2) - 1 = j - 3
        /\ j \in 3..(RoundVisits(k) + 3) /\ j + 1 \in 3..(RoundVisits(k) + 3) /\ (j + 1) - 3 = j - 2
        /\ j + 1 # 1 /\ j + 1 # 2 /\ j + 1 # RoundVisits(k) + 4 /\ j < RoundLength(k)
    BY <1>1
  <1>3. Tenanting(tBill, known, c0, n, k) /\ r \in Nat /\ Reader(r, n, none)
    BY <1>0, <1>2, RoundMeets
  <1>4. Kept(rows, V) /\ Came(k, j - 2) = V \cup {r}
    BY <1>0, <1>2, RoundKept, CameIs
  <1>5. Script("tenantBilling", choice)[i] = Must("visit", "ranking", visitor, Of(k))
    <2>1. RoundSteps(k)[2 + (j - 2)] = Must("visit", "ranking", visitor, Of(k))
      BY <1>0, <1>2, RoundStepsAre
    <2>2. Script("tenantBilling", choice)[i] = RoundSteps(k)[j]
      BY <1>0, <1>1, BillSteps
    <2> QED
      BY <1>2, <2>1, <2>2
  <1>6. t = Holding(n, none, Append(c0, Open(rows, V)))
    BY <1>0, <1>2 DEF RoundTable, Billed
  <1>7. Answers("ranking", visitor, Of(k), tBill, t, known, u, PageOf(rows, 0))
    <2> HIDE DEF n, none, c0, r, rows, V
    <2> QED
      BY <1>3, <1>4, <1>6, RankingAnswers
  <1>8. RoundTable(u, k, j + 1)
    <2>1. u = Billed(Append(Past(k - 1), Open(RoundRows(k), Came(k, (j + 1) - 3))))
      BY <1>2, <1>4 DEF Billed
    <2> HIDE DEF u
    <2> QED
      BY <1>2, <2>1 DEF RoundTable
  <1>9. TenantBillingFits("visit", Request("ranking", visitor, Of(k)), PageOf(rows, 0))
    BY DEF TenantBillingFits
  <1> HIDE DEF i, u, visitor, rows
  <1>10. BillTable(u, i + 1)
    BY <1>0, <1>2, <1>8, NextRow DEF i
  <1>11. LoadPasses("tenantBilling", i, t, known, m)
    BY <1>5, <1>7, <1>9, <1>10, BillSucceeds
  <1> QED
    BY <1>11 DEF i

LEMMA RoundEnds ==
  ASSUME NEW k, NEW j, NEW t, NEW known, RoundAt(k, j, t, known),
         j \in {RoundVisits(k) + 3, RoundVisits(k) + 4}, NEW m
  PROVE  LoadPasses("tenantBilling", 2 + Offsets[k] + j, t, known, m)
  <1> DEFINE i == 2 + Offsets[k] + j
             org == OrganizerOf(tBill)
             none == {}
             n == 2 * PlayerNum
             c0 == Past(k - 1)
             rows == RoundRows(k)
             V == Came(k, RoundVisits(k))
             u == Holding(n, none, Append(c0, Closed(rows, V)))
  <1>0. /\ tBill \in known /\ choice \in LoadChoices
        /\ k \in DOMAIN Rounds /\ j \in 1..RoundLength(k) /\ RoundTable(t, k, j)
    BY DEF RoundAt
  <1>1. /\ RoundVisits(k) \in Nat /\ RoundLength(k) = RoundVisits(k) + 4 /\ k \in 1..Len(Rounds)
        /\ RoundVisits(k) \in 0..RoundVisits(k)
    BY <1>0, RoundsAre
  <1>2. Tenanting(tBill, known, c0, n, k)
    BY <1>0, RoundMeets
  <1>3. Kept(rows, V)
    BY <1>0, <1>1, RoundKept
  <1>4. /\ RoundSteps(k)[RoundVisits(k) + 3] = Must("finish", "finish", org, Of(k))
        /\ RoundSteps(k)[RoundVisits(k) + 4] = Must("billing", "billing", org, Of(k))
        /\ Script("tenantBilling", choice)[i] = RoundSteps(k)[j]
    <2>1. Script("tenantBilling", choice)[i] = RoundSteps(k)[j]
      BY <1>0, <1>1, BillSteps
    <2> QED
      BY <1>0, <2>1, RoundStepsAre
  <1>5. u = Billed(Append(Past(k - 1), RoundClosed(k)))
    BY DEF Billed, RoundClosed
  <1> HIDE DEF i, rows, V, none, u
  <1>6. CASE j = RoundVisits(k) + 3
    <2>1. t = Holding(n, none, Append(c0, Open(rows, V)))
      <3>1. j \in 3..(RoundVisits(k) + 3) /\ j - 3 = RoundVisits(k)
        BY <1>1, <1>6
      <3> QED
        BY <1>0, <3>1 DEF RoundTable, Billed, rows, V, none
    <2>2. Answers("finish", org, Of(k), tBill, t, known, u, {})
      BY <1>2, <1>3, <2>1, FinishAnswers DEF u
    <2>3. RoundTable(u, k, j + 1)
      <3>1. j + 1 = RoundVisits(k) + 4 /\ j + 1 # 1 /\ j + 1 # 2 /\ j + 1 \notin 3..(RoundVisits(k) + 3)
        BY <1>1, <1>6
      <3> QED
        BY <1>5, <3>1 DEF RoundTable
    <2>4. BillTable(u, i + 1)
      <3>1. j < RoundLength(k) /\ j # RoundLength(k)
        BY <1>1, <1>6
      <3> QED
        BY <1>0, <2>3, <3>1, NextRow DEF i
    <2>5. TenantBillingFits("finish", Request("finish", org, Of(k)), {})
      BY DEF TenantBillingFits
    <2>6. Script("tenantBilling", choice)[i] = Must("finish", "finish", org, Of(k))
      BY <1>4, <1>6
    <2> DEFINE d == {}
    <2> HIDE DEF org, d
    <2>7. Answers("finish", org, Of(k), tBill, t, known, u, d) /\ TenantBillingFits("finish", Request("finish", org, Of(k)), d)
      BY <2>2, <2>5 DEF d
    <2>8. LoadPasses("tenantBilling", i, t, known, m)
      BY <2>4, <2>6, <2>7, BillSucceeds
    <2> QED
      BY <2>8 DEF i
  <1>7. CASE j = RoundVisits(k) + 4
    <2> DEFINE cs == Past(k)
    <2>1. t = Billed(cs) /\ BillOf(cs) = [r \in 1..k |-> RoundBill(r)]
      <3>1. t = Billed(Append(Past(k - 1), RoundClosed(k)))
        BY <1>0, <1>7 DEF RoundTable
      <3> QED
        BY <1>0, <3>1, RoundMeets
    <2>2. Answers("billing", org, Of(k), tBill, t, known, t, BillOf(cs))
      <3>1. tBill \in known /\ tBill # Admin
        BY <1>2 DEF Tenanting
      <3>2. t = Holding(n, none, cs)
        BY <2>1 DEF Billed, none
      <3> QED
        BY <3>1, <3>2, AskBillOf DEF Answers
    <2>3. BillTable(t, i + 1)
      <3>1. ~(j < RoundLength(k)) /\ j = RoundLength(k)
        BY <1>1, <1>7
      <3> QED
        BY <1>0, <2>1, <3>1, NextRow DEF i
    <2>4. TenantBillingFits("billing", Request("billing", org, Of(k)), BillOf(cs))
      BY <2>1, AboutRound DEF TenantBillingFits
    <2>5. Script("tenantBilling", choice)[i] = Must("billing", "billing", org, Of(k))
      BY <1>4, <1>7
    <2> HIDE DEF org, cs
    <2>6. LoadPasses("tenantBilling", i, t, known, m)
      BY <2>2, <2>3, <2>4, <2>5, BillSucceeds
    <2> QED
      BY <2>6 DEF i
  <1> QED
    BY <1>6, <1>7

LEMMA BillPasses ==
  ASSUME NEW known, tBill \in known, choice \in LoadChoices, NEW i \in 2..Length("tenantBilling"),
         NEW t, BillTable(t, i), NEW m
  PROVE  LoadPasses("tenantBilling", i, t, known, m)
  <1>1. /\ Len(Rounds) \in Nat /\ DOMAIN Rounds = 1..Len(Rounds) /\ PlayerNum \in Nat
    BY RoundsAre
  <1>2. /\ Offsets \in [1..(Len(Rounds) + 1) -> Nat] /\ Offsets[1] = 0
        /\ Length("tenantBilling") = 2 + Offsets[Len(Rounds) + 1] /\ Length("tenantBilling") \in Nat
    <2>1. Offsets \in [1..(Len(Rounds) + 1) -> Nat] /\ Offsets[1] = 0
      BY OffsetsAre
    <2>2. Length("tenantBilling") = 2 + Offsets[Len(Rounds) + 1]
      BY BillSteps DEF Length
    <2> QED
      BY <1>1, <2>1, <2>2
  <1>3. CASE i = 2
    <2> DEFINE p == [n |-> 2 * PlayerNum]
               org == OrganizerOf(tBill)
               none == {}
               x == 0
               u == Billed(<<>>)
               d == (x + 1)..(x + 2 * PlayerNum)
    <2>1. t = Holding(x, none, <<>>)
      BY <1>3 DEF BillTable
    <2>2. "n" \in DOMAIN p /\ p.n \in Nat /\ p.n = 2 * PlayerNum /\ x + 2 * PlayerNum = 2 * PlayerNum
      BY <1>1
    <2>3. Answers("players_add", org, p, tBill, t, known, u, d)
      <3> DEFINE cs == <<>>
      <3>0. tBill # Admin
        BY BillTenantIs
      <3> HIDE DEF p, none, x, cs
      <3>1. LET q == Request("players_add", org, p)
            IN  /\ Proper(q, tBill)
                /\ Answer(Holding(x, none, cs), q, known) = Done(Holding(x + p.n, none, cs), (x + 1)..(x + p.n))
        BY <2>2, <3>0, AskPlayersAdd
      <3>2. t = Holding(x, none, cs) /\ u = Holding(x + p.n, none, cs) /\ d = (x + 1)..(x + p.n)
        BY <2>1, <2>2 DEF Billed, none, cs
      <3> HIDE DEF u, d, org
      <3> QED
        BY <3>1, <3>2 DEF Answers
    <2>4. TenantBillingFits("players_add", Request("players_add", org, p), d)
      BY DEF TenantBillingFits
    <2>5. BillTable(u, i + 1)
      <3>1. CASE Len(Rounds) = 0
        BY <1>2, <1>3, <3>1 DEF BillTable
      <3>2. CASE Len(Rounds) # 0
        <4>1. 1 \in DOMAIN Rounds
          BY <1>1, <3>2
        <4>2. RoundVisits(1) \in Nat /\ RoundLength(1) = RoundVisits(1) + 4
          BY <4>1, RoundsAre
        <4>3. Past(1 - 1) = <<>>
          <5>1. 1 - 1 = 0 /\ 0 \in 0..Len(Rounds)
            BY <1>1
          <5> QED
            BY <5>1, PastIs
        <4>4. RoundTable(u, 1, 1) /\ 1 \in 1..RoundLength(1)
          BY <4>2, <4>3 DEF RoundTable
        <4> HIDE DEF u
        <4>5. 3 = 2 + Offsets[1] + 1
          BY <1>2
        <4>6. BillTable(u, 3)
          BY <4>1, <4>4, <4>5 DEF BillTable
        <4> QED
          BY <1>3, <4>6
      <3> QED
        BY <3>1, <3>2
    <2>6. Script("tenantBilling", choice)[i] = Must("players_add", "players_add", org, p)
      BY <1>3, BillSteps
    <2> HIDE DEF p, org, u, d
    <2> QED
      BY <2>3, <2>4, <2>5, <2>6, BillSucceeds
  <1>4. CASE i > 2
    <2>1. i # Length("tenantBilling") + 1
      BY <1>2
    <2>2. PICK k \in DOMAIN Rounds : \E j \in 1..RoundLength(k) : i = 2 + Offsets[k] + j /\ RoundTable(t, k, j)
      BY <1>4, <2>1 DEF BillTable
    <2>3. PICK j \in 1..RoundLength(k) : i = 2 + Offsets[k] + j /\ RoundTable(t, k, j)
      BY <2>2
    <2>4. RoundAt(k, j, t, known)
      BY <2>3 DEF RoundAt
    <2>5. RoundVisits(k) \in Nat /\ RoundLength(k) = RoundVisits(k) + 4
      BY RoundsAre
    <2>6. j \in {1, 2} \/ j \in 3..(RoundVisits(k) + 2) \/ j \in {RoundVisits(k) + 3, RoundVisits(k) + 4}
      BY <2>5
    <2>7. LoadPasses("tenantBilling", 2 + Offsets[k] + j, t, known, m)
      BY <2>4, <2>6, RoundBegins, RoundIsVisited, RoundEnds
    <2> QED
      BY <2>3, <2>7
  <1>5. i = 2 \/ i > 2
    BY <1>2
  <1> QED
    BY <1>3, <1>4, <1>5

-----------------------------------------------------------------------------
(* The pages of bills before and after the competition of one tenant *)

JobBill == Closed(JobRows(<<>>), {1})

LEMMA JobBillIs ==
  /\ JobBill \in CompetitionSet /\ PlayersDrawn \in Nat
  /\ Report(JobBill).yen = 100 * PlayersDrawn
  <1> DEFINE n == PlayersDrawn
             rows == JobRows(<<>>)
             k == Closed(rows, {1})
             owes(a, b) == [players |-> a, visitors |-> b, yen |-> 100 * a + 10 * b]
  <1>1. n \in Nat /\ 1 \in 1..n
    BY InitialDataAssumption
  <1>2. rows = Rising(n, 500) /\ rows \in Seq(Lines)
    <2>1. 500 \in Nat
      OBVIOUS
    <2>2. Rising(n, 500) \in Seq(Lines)
      BY <1>1, <2>1, RisingStandings
    <2> QED
      BY <2>2, ConcatEmptySeq DEF JobRows
  <1>3. DOMAIN rows = 1..n /\ \A i \in 1..n : rows[i].player = i
    <2>1. 500 \in Nat
      OBVIOUS
    <2>2. DOMAIN Rising(n, 500) = 1..n /\ \A i \in 1..n : Rising(n, 500)[i].player = i
      BY <1>1, <2>1, RisingStandings
    <2> HIDE DEF rows, n
    <2> QED
      BY <1>2, <2>2
  <1> HIDE DEF rows
  <1> DEFINE V == {1}
  <1>4. V \in SUBSET Nat
    OBVIOUS
  <1>5. k \in CompetitionSet /\ k.finished /\ k.rows = rows /\ k.visitors = V
    <2> HIDE DEF V
    <2>1. Closed(rows, V) \in CompetitionSet /\ Closed(rows, V).finished /\ Closed(rows, V).rows = rows
          /\ Closed(rows, V).visitors = V
      BY <1>2, <1>4, ClosedFields
    <2> QED
      BY <2>1 DEF V
  <1> HIDE DEF k, n
  <1>6. Scored(k) = 1..n
    BY <1>3, <1>5 DEF Scored
  <1>7. k.visitors \ Scored(k) = {}
    BY <1>1, <1>5, <1>6 DEF n
  <1>8. Cardinality(Scored(k)) = n /\ Cardinality(k.visitors \ Scored(k)) = 0
    <2>1. Cardinality(1..n) = n
      BY <1>1, CountFromOne DEF n
    <2>2. Cardinality({}) = 0
      BY FS_EmptySet
    <2> QED
      BY <1>6, <1>7, <2>1, <2>2
  <1>9. Report(k) = owes(n, 0)
    <2>1. /\ (IF k.finished THEN Cardinality(Scored(k)) ELSE 0) = n
          /\ (IF k.finished THEN Cardinality(k.visitors \ Scored(k)) ELSE 0) = 0
      BY <1>5, <1>8
    <2>2. Report(k) = owes(IF k.finished THEN Cardinality(Scored(k)) ELSE 0,
                           IF k.finished THEN Cardinality(k.visitors \ Scored(k)) ELSE 0)
      BY DEF Report
    <2> HIDE DEF owes
    <2> QED
      BY <2>1, <2>2
  <1>10. Report(k).yen = 100 * n
    BY <1>1, <1>9 DEF n
  <1> QED
    BY <1>1, <1>5, <1>10 DEF JobBill, k, rows, n

(* What the tenant owes when its competition is over. *)
LEMMA TargetOwes ==
  ASSUME InitialHeld(CompetitionsDrawn), NEW t, LookedAt(t, Append(Base, JobBill))
  PROVE  /\ Yen(initial.tenant) \in Int /\ Yen(t) \in Int
         /\ Yen(t) = Yen(initial.tenant) + 100 * PlayersDrawn
  <1> DEFINE n == Len(Base)
             cs == Append(Base, JobBill)
             D == 1..n
             E == 1..(n + 1)
             y == n + 1
             f == [c \in D |-> Report(Base[c]).yen]
             h == [c \in E |-> Report(cs[c]).yen]
  <1>1. /\ Base \in Seq(CompetitionSet) /\ n \in Nat /\ DOMAIN Base = 1..n
        /\ \A c \in 1..n : Report(Base[c]).yen \in Int
    BY LenProperties DEF InitialHeld
  <1>2. /\ cs \in Seq(CompetitionSet) /\ DOMAIN cs = 1..(n + 1) /\ cs[n + 1] = JobBill
        /\ \A c \in 1..n : cs[c] = Base[c]
    BY <1>1, JobBillIs, AppendProperties, LenProperties
  <1>3. Yen(initial.tenant) = SumFunction(f)
    BY <1>1 DEF Yen, Base
  <1>4. Yen(t) = SumFunction(h)
    <2>1. PICK ds : /\ t = Holding(PlayersDrawn, {}, ds) /\ DOMAIN ds = DOMAIN cs
                    /\ \A c \in DOMAIN cs : Report(ds[c]) = Report(cs[c])
      BY DEF LookedAt
    <2>2. t.competitions = ds
      BY <2>1, HoldingFields
    <2> HIDE DEF cs
    <2>3. Yen(t) = SumFunction([c \in DOMAIN ds |-> Report(ds[c]).yen])
      BY <2>2 DEF Yen
    <2>4. [c \in DOMAIN ds |-> Report(ds[c]).yen] = [c \in DOMAIN cs |-> Report(cs[c]).yen]
      BY <2>1
    <2> QED
      BY <1>2, <2>3, <2>4
  <1> HIDE DEF cs, n
  <1>5. 100 * PlayersDrawn \in Int /\ Report(cs[y]).yen = 100 * PlayersDrawn
    <2>1. Report(JobBill).yen = 100 * PlayersDrawn /\ PlayersDrawn \in Nat
      BY JobBillIs
    <2>2. 100 * PlayersDrawn \in Int
      BY <2>1
    <2> HIDE DEF y
    <2>3. cs[y] = JobBill
      BY <1>2 DEF y
    <2> QED
      BY <2>1, <2>2, <2>3
  <1>6. f \in [D -> Int]
    BY <1>1
  <1>7. h \in [E -> Int] /\ h[y] = 100 * PlayersDrawn /\ \A c \in D : h[c] = f[c]
    <2>1. y \in E /\ \A c \in E : c \in D \/ c = y
      BY <1>1
    <2>2. D \subseteq E
      BY <1>1
    <2>3. \A c \in D : Report(cs[c]).yen = Report(Base[c]).yen /\ Report(Base[c]).yen \in Int
      BY <1>1, <1>2
    <2> HIDE DEF D, E, y
    <2> QED
      BY <1>5, <2>1, <2>2, <2>3
  <1>8. IsFiniteSet(D) /\ y \notin D /\ IsOneMore(E, D, y)
    <2>1. IsFiniteSet(D)
      BY <1>1, FS_Interval
    <2>2. y \notin D /\ E = D \cup {y}
      BY <1>1
    <2> QED
      BY <2>1, <2>2 DEF IsOneMore
  <1> HIDE DEF D, E, y, f, h
  <1>9. SumFunction(f) \in Int /\ SumFunction(h) = SumFunction(f) + h[y]
    BY <1>6, <1>7, <1>8, SumGrows
  <1>10. h[y] \in Int
    BY <1>5, <1>7
  <1> QED
    BY <1>3, <1>4, <1>7, <1>9, <1>10


(* Nothing but the workers' tenants is in the tables of those that have changed. *)
LoadTouched == DOMAIN tenants \subseteq {LoadGround(c) : c \in LoadCheck}

LEMMA BystandersAre ==
  ASSUME choice \in LoadChoices, LoadTouched, NEW n \in CursorPage, n # choice.target
  PROVE  TableOf(n) = initial.tenant
  <1>1. n \in InitialId /\ n # choice.player /\ n # choice.popular /\ n # tBill
    BY ChoiceIs, BillTenantIs
  <1>2. \A c \in LoadCheck : LoadGround(c) \in {choice.player, choice.popular, choice.target, tBill}
    BY DEF LoadGround
  <1>3. n \notin DOMAIN tenants
    BY <1>1, <1>2 DEF LoadTouched
  <1> QED
    BY <1>1, <1>3 DEF TableOf, TenantOf

LEMMA LoadPageIs ==
  ASSUME server = "as_written", choice \in LoadChoices, NEW q, q.op = "tenants_billing", q.as = AdminAs,
         q.before = choice.cursor, \A n \in CursorPage : TableOf(n).file
  PROVE  /\ ContestantPage(q).status = 200
         /\ ContestantPage(q).data = [n \in CursorPage |-> Yen(TableOf(n))]
  <1> DEFINE page == BillingPage(tenants, q.before)
             of(n) == TenantOf(initial.tenant, tenants, n)
             a == TenantsBilling(initial.tenant, tenants, q)
             d == [n \in page |-> Yen(of(n))]
  <1>1. page = CursorPage
    BY ChoiceIs
  <1>2. \A n : of(n) = TableOf(n)
    BY DEF TableOf
  <1>3. \A n \in page : of(n).file
    BY <1>1, <1>2
  <1>4. ~Unauthorized(q.as, DOMAIN tenants) /\ q.as.host = Admin /\ q.as.role = "admin"
    BY AdminIs DEF Unauthorized
  <1>5. a = [status |-> 200, data |-> d]
    BY <1>3, <1>4 DEF TenantsBilling
  <1>6. Asked(q, EmptyTenant) = q
    BY AskedIsWritten
  <1>7. \A n : Seen(of(n), [op |-> "billing"]) = of(n)
    BY DEF Seen
  <1>8. a.status = 200 /\ a.data = d
    BY <1>5
  <1>9. ContestantPage(q) = [a EXCEPT !.data = [n \in DOMAIN d |-> Yen(Seen(of(n), [op |-> "billing"]))]]
    <2> HIDE DEF d
    <2> QED
      BY <1>6, <1>8 DEF ContestantPage
  <1>10. [n \in DOMAIN d |-> Yen(Seen(of(n), [op |-> "billing"]))] = d
    <2> DEFINE seen(n) == Seen(of(n), [op |-> "billing"])
    <2>1. \A n : seen(n) = of(n)
      BY <1>7
    <2> HIDE DEF seen, of, page
    <2>2. [n \in DOMAIN d |-> Yen(seen(n))] = d
      BY <2>1
    <2> QED
      BY <2>2 DEF seen
  <1>11. ContestantPage(q) = a
    <2> HIDE DEF d, of
    <2>1. ContestantPage(q) = [a EXCEPT !.data = d]
      BY <1>9, <1>10
    <2> HIDE DEF a
    <2>2. a = [status |-> 200, data |-> d]
      BY <1>5
    <2> QED
      BY <2>1, <2>2
  <1>12. d = [n \in CursorPage |-> Yen(TableOf(n))]
    <2> HIDE DEF of, page
    <2> QED
      BY <1>1, <1>2
  <1> QED
    BY <1>8, <1>11, <1>12

(* The sum of a page to which one tenant has added. *)
LEMMA PageGrows ==
  ASSUME choice \in LoadChoices, InitialHeld(CompetitionsDrawn), LoadTouched,
         LookedAt(TableOf(choice.target), Append(Base, JobBill))
  PROVE  Total([n \in CursorPage |-> Yen(TableOf(n))]) = Total(OldPage) + 100 * PlayersDrawn
  <1> DEFINE y == choice.target
             h == [n \in CursorPage |-> Yen(TableOf(n))]
             f == OldPage
             more == 100 * PlayersDrawn
  <1>1. y \in CursorPage /\ IsFiniteSet(CursorPage)
    BY ChoiceIs
  <1>2. /\ Yen(initial.tenant) \in Int /\ Yen(TableOf(y)) \in Int
        /\ Yen(TableOf(y)) = Yen(initial.tenant) + more
    BY TargetOwes
  <1>3. \A n \in CursorPage : n # y => TableOf(n) = initial.tenant
    BY BystandersAre
  <1>4. f \in [CursorPage -> Int] /\ f[y] = Yen(initial.tenant) /\ h[y] = Yen(TableOf(y))
    BY <1>1, <1>2 DEF OldPage
  <1>5. \A n \in CursorPage : n # y => Yen(TableOf(n)) = Yen(initial.tenant)
    BY <1>3
  <1>6. \A n \in CursorPage : Yen(TableOf(n)) \in Int
    BY <1>2, <1>5
  <1>7. h \in [CursorPage -> Int]
    BY <1>6
  <1>8. \A n \in CursorPage : y # n => f[n] = h[n]
    BY <1>5 DEF OldPage
  <1>9. more \in Int
    BY InitialDataAssumption
  <1> HIDE DEF f, h, more
  <1>10. SumFunction(f) \in Int /\ SumFunction(h) = SumFunction(f) + (h[y] - f[y])
    BY <1>1, <1>4, <1>7, <1>8, SumChanges
  <1>11. h[y] - f[y] = more
    BY <1>2, <1>4, <1>9
  <1>12. SumFunction(h) = SumFunction(f) + more
    BY <1>10, <1>11
  <1> QED
    BY <1>12 DEF Total, f, h, more

(* What a page is read from before and after. *)
LEMMA PageIsRight ==
  ASSUME server = "as_written", choice \in LoadChoices, InitialHeld(CompetitionsDrawn), LoadTouched,
         NEW q, q.op = "tenants_billing", q.as = AdminAs, q.before = choice.cursor,
         NEW i \in {1, 8}, NEW m, LoadTable("adminBilling", TableOf(choice.target), i, m)
  PROVE  LET a == ContestantPage(q)
         IN  /\ a.status = 200
             /\ i = 1 => a.data = OldPage /\ AdminBillingFits("page", q, a.data, m)
             /\ i = 8 => AdminBillingFits("page_again", q, a.data, m)
             /\ LoadTable("adminBilling", TableOf(choice.target), i + 1, OldPage)
  <1> DEFINE y == choice.target
             t == TableOf(y)
             rows == JobRows(<<>>)
             c == "adminBilling"
             a == ContestantPage(q)
  <1>1. JobTable(t, i - 1, rows) /\ (i >= 2 => m = OldPage)
    BY DEF LoadTable
  <1>2. /\ i = 1 => t = initial.tenant
        /\ i = 8 => LookedAt(t, Append(Base, JobBill))
    BY <1>1 DEF JobTable, JobBill
  <1>3. \A n \in CursorPage : n # y => TableOf(n) = initial.tenant
    BY BystandersAre
  <1>4. initial.tenant.file /\ t.file
    <2>1. initial.tenant.file
      BY DEF InitialHeld, Holding
    <2> HIDE DEF t
    <2>2. CASE i = 1
      BY <1>2, <2>1, <2>2
    <2>3. CASE i = 8
      <3>1. \E ds : t = Holding(PlayersDrawn, {}, ds)
        BY <1>2, <2>3 DEF LookedAt
      <3> QED
        BY <2>1, <3>1, HoldingFile
    <2> QED
      BY <2>1, <2>2, <2>3
  <1>5. \A n \in CursorPage : TableOf(n).file
    BY <1>3, <1>4
  <1>6. a.status = 200 /\ a.data = [n \in CursorPage |-> Yen(TableOf(n))]
    BY <1>5, LoadPageIs
  <1>7. JobTable(t, (i + 1) - 1, rows)
    <2> HIDE DEF t, rows
    <2>1. CASE i = 1
      BY <1>2, <2>1 DEF JobTable
    <2>2. CASE i = 8
      <3>1. LookedAt(t, Append(Base, Closed(rows, {1})))
        BY <1>2, <2>2 DEF JobBill, rows
      <3> QED
        BY <2>2, <3>1 DEF JobTable
    <2> QED
      BY <2>1, <2>2
  <1>8. LoadTable(c, t, i + 1, OldPage)
    <2> HIDE DEF t
    <2> QED
      BY <1>7 DEF LoadTable
  <1> HIDE DEF a
  <1>9. CASE i = 1
    <2>1. \A n \in CursorPage : TableOf(n) = initial.tenant
      BY <1>2, <1>3, <1>9
    <2>2. a.data = OldPage
      BY <1>6, <2>1 DEF OldPage
    <2>3. y \in CursorPage
      BY ChoiceIs
    <2>4. DOMAIN a.data # {}
      BY <2>2, <2>3 DEF OldPage
    <2>5. AdminBillingFits("page", q, a.data, m)
      BY <2>4 DEF AdminBillingFits
    <2> QED
      BY <1>6, <1>8, <1>9, <2>2, <2>5 DEF a
  <1>10. CASE i = 8
    <2>1. Total([n \in CursorPage |-> Yen(TableOf(n))]) = Total(OldPage) + 100 * PlayersDrawn
      BY <1>2, <1>10, PageGrows
    <2>2. Total(a.data) = Total(m) + 100 * PlayersDrawn
      BY <1>1, <1>6, <1>10, <2>1
    <2>3. AdminBillingFits("page_again", q, a.data, m)
      BY <2>2 DEF AdminBillingFits
    <2> QED
      BY <1>6, <1>8, <1>10, <2>3 DEF a
  <1> QED
    BY <1>9, <1>10

LEMMA PageKeeps ==
  ASSUME server = "as_written", ~expired, choice \in LoadChoices, InitialHeld(CompetitionsDrawn), LoadTouched,
         Works("adminBilling"), at["adminBilling"] \in {1, 8}, "adminBilling" \notin adding,
         memory \in [Check -> {memory[d] : d \in Check}],
         LoadTable("adminBilling", TableOf(choice.target), at["adminBilling"], memory["adminBilling"])
  PROVE  /\ Running("adminBilling") /\ GoOn("adminBilling")
         /\ UNCHANGED <<settings, tenants, main, adding, group, errors, expired>>
         /\ \E m : memory' = [memory EXCEPT !["adminBilling"] = m]
         /\ LoadTable("adminBilling", TableOf(choice.target), at["adminBilling"] + 1, memory'["adminBilling"])
  <1> DEFINE c == "adminBilling"
             s == Now(c)
             i == at[c]
             t == TableOf(choice.target)
             name == IF i = 1 THEN "page" ELSE "page_again"
             p == [before |-> choice.cursor]
             q == Request("tenants_billing", AdminAs, p)
  <1>1. s = Must(name, "tenants_billing", AdminAs, p)
    <2>1. Script(c, choice)[1] = BillsPage("page") /\ Script(c, choice)[8] = BillsPage("page_again")
      BY AdminBillingSteps
    <2> QED
      BY <2>1 DEF Now, BillsPage
  <1>2. s.ask = {q} /\ s.status = 200 /\ s.name = name
    <2> HIDE DEF s, p, name, i
    <2> QED
      BY <1>1 DEF Must, Step
  <1>3. q.op = "tenants_billing" /\ q.as = AdminAs /\ q.before = choice.cursor
    BY DEF Request
  <1>4. c \in Check
    BY DEF Check, LoadCheck
  <1>5. i \in {1, 8} /\ (i = 1 => name = "page") /\ (i = 8 => name = "page_again")
    OBVIOUS
  <1> HIDE DEF s, p, name, i, q
  <1>6. AsksPage(c)
    <2>1. ~Asks(c) /\ ~AddsTenant(c)
      BY <1>2, <1>3 DEF Asks, AddsTenant, AdminApi, s
    <2>2. ~AddsFile(c) /\ ~Canceled(c)
      BY DEF AddsFile, Canceled
    <2> QED
      BY <2>1, <2>2 DEF Works
  <1>7. Receive(c, s, q, ContestantPage(q)) /\ Remembers(c, ContestantPage(q)) /\ Running(c)
    BY <1>2, <1>6 DEF AsksPage, s
  <1>8. UNCHANGED <<settings, tenants, main, adding, group, expired>>
    BY <1>6 DEF AsksPage
  <1> DEFINE a == ContestantPage(q)
             m == memory[c]
  <1>9. /\ a.status = 200
        /\ i = 1 => a.data = OldPage /\ AdminBillingFits("page", q, a.data, m)
        /\ i = 8 => AdminBillingFits("page_again", q, a.data, m)
        /\ LoadTable(c, t, i + 1, OldPage)
    <2>1. LoadTable(c, t, i, m)
      BY DEF i
    <2> HIDE DEF m
    <2> QED
      BY <1>3, <1>5, <2>1, PageIsRight
  <1> HIDE DEF a, m
  <1>10. Fits(c, s, q, a, m, initial.billing)
    BY <1>2, <1>5, <1>9 DEF Fits
  <1>11. GoOn(c) /\ UNCHANGED errors
    BY <1>7, <1>10 DEF Receive, a, m
  <1>12. Remembered(c, s) <=> i = 1
    BY <1>2, <1>5 DEF Remembered
  <1>13. i = 8 => m = OldPage
    <2>1. LoadTable(c, t, i, m)
      BY DEF i, m
    <2> HIDE DEF t
    <2> QED
      BY <2>1 DEF LoadTable
  <1>14. memory' = [memory EXCEPT ![c] = OldPage]
    <2>1. memory' = IF Remembered(c, s) THEN [memory EXCEPT ![c] = a.data] ELSE memory
      BY <1>7, <1>9 DEF Remembers, s, a
    <2>2. CASE i = 1
      BY <1>9, <1>12, <2>1, <2>2
    <2>3. CASE i = 8
      <3>1. memory' = memory /\ memory[c] = OldPage
        BY <1>12, <1>13, <2>1, <2>3 DEF m
      <3> QED
        BY <3>1
    <2> QED
      BY <1>5, <2>2, <2>3
  <1>15. memory'[c] = OldPage
    BY <1>4, <1>14
  <1>16. LoadTable(c, t, i + 1, memory'[c])
    BY <1>9, <1>15
  <1> QED
    BY <1>7, <1>8, <1>11, <1>14, <1>16 DEF i

-----------------------------------------------------------------------------
(* What there is of the tenants of the load's workers *)

(* The tenant of one is added by its first step; the others' are there. *)
LoadAddStep(c) == IF c = "tenantBilling" THEN 1 ELSE 0
LoadGrounds(c) ==
    /\ c \in adding => /\ c = "tenantBilling" /\ at[c] = 1
                       /\ tBill \in DOMAIN tenants /\ tenants[tBill] = NoFile
    /\ c \notin adding /\ at[c] <= LoadAddStep(c) => LoadGround(c) \notin DOMAIN tenants
    /\ at[c] > LoadAddStep(c) =>
          /\ LoadGround(c) \in Known /\ TableOf(LoadGround(c)) \in TenantSet
          /\ LoadTable(c, TableOf(LoadGround(c)), at[c], memory[c])

(* A step of one worker. *)
LoadTouches(c) ==
    /\ OnlyAt(c, at, at') /\ OnlyAt(c, memory, memory')
    /\ adding' \subseteq adding \cup {c} /\ adding \subseteq adding' \cup {c}
    /\ TouchesOnly(LoadGround(c))

LEMMA LoadTableLater ==
  ASSUME UNCHANGED <<initial, choice>>, NEW c
  PROVE  /\ LoadGround(c)' = LoadGround(c)
         /\ LoadTable(c, TableOf(LoadGround(c)), at[c], memory[c])'
              <=> LoadTable(c, TableOf(LoadGround(c))', at'[c], memory'[c])
  <1>1. LoadGround(c)' = LoadGround(c)
    BY DEF LoadGround
  <1>2. OldPage' = OldPage /\ Base' = Base /\ Length("tenantBilling")' = Length("tenantBilling")
    BY DEF OldPage, CursorPage, Base, Length
  <1>3. \A D, k : Entered(D, k)' = Entered(D, k)
    BY <1>2 DEF Entered
  <1>4. CASE c = "players"
    BY <1>1, <1>2, <1>3, <1>4 DEF LoadTable, PlayersTable
  <1>5. CASE c \in {"adminBilling", "popular"}
    BY <1>1, <1>2, <1>3, <1>5 DEF LoadTable, JobTable, LookedAt
  <1>6. CASE c \notin {"players", "adminBilling", "popular"}
    BY <1>1, <1>2, <1>6 DEF LoadTable, BillTable
  <1> QED
    BY <1>4, <1>5, <1>6

LEMMA LoadOthersKeep ==
  ASSUME choice \in LoadChoices, UNCHANGED <<initial, choice>>, NEW c \in LoadCheck, LoadTouches(c),
         NEW d \in LoadCheck, d # c, LoadGrounds(d)
  PROVE  LoadGrounds(d)'
  <1> DEFINE g == LoadGround(d)
  <1>1. g # LoadGround(c) /\ LoadGround(d)' = g
    BY LoadGroundsDiffer, LoadTableLater
  <1>2. at'[d] = at[d] /\ memory'[d] = memory[d]
    BY DEF LoadTouches, OnlyAt
  <1>3. d \in adding' <=> d \in adding
    BY DEF LoadTouches
  <1>4. g \in DOMAIN tenants' <=> g \in DOMAIN tenants
    BY <1>1 DEF LoadTouches, TouchesOnly
  <1>5. g \in DOMAIN tenants => tenants'[g] = tenants[g]
    BY <1>1 DEF LoadTouches, TouchesOnly
  <1>6. TableOf(LoadGround(d))' = TableOf(g) /\ (g \in Known' <=> g \in Known)
    BY <1>1, <1>4, <1>5 DEF TableOf, TenantOf, Known
  <1>7. LoadTable(d, TableOf(LoadGround(d)), at[d], memory[d])' <=> LoadTable(d, TableOf(g), at[d], memory[d])
    <2>1. LoadTable(d, TableOf(LoadGround(d)), at[d], memory[d])'
             <=> LoadTable(d, TableOf(LoadGround(d))', at'[d], memory'[d])
      BY LoadTableLater
    <2> QED
      BY <1>2, <1>6, <2>1
  <1>8. d = "tenantBilling" => g = tBill
    BY DEF LoadGround
  <1> QED
    BY <1>1, <1>2, <1>3, <1>4, <1>5, <1>6, <1>7, <1>8 DEF LoadGrounds

-----------------------------------------------------------------------------
(* A step of a worker that is answered as it must be *)

LoadTyped ==
    /\ at \in [Check -> Int] /\ memory \in [Check -> {memory[d] : d \in Check}]
    /\ LoadTouched
LoadMeets(c) ==
    /\ server = "as_written" /\ ~expired /\ choice \in LoadChoices /\ InitialHeld(CompetitionsDrawn)
    /\ LoadTyped /\ LoadGrounds(c) /\ Works(c) /\ c \in LoadCheck /\ at[c] \in 1..Length(c)
LoadFine(c) ==
    /\ LoadTouches(c) /\ LoadGrounds(c)' /\ MovesOn(c)
    /\ UNCHANGED <<settings, main, errors, expired>>

LEMMA LoadGoesOn ==
  ASSUME LoadTyped, NEW c \in Check, GoOn(c)
  PROVE  OnlyAt(c, at, at') /\ at'[c] = at[c] + 1
  BY DEF LoadTyped, GoOn, OnlyAt

(* The table that is left is the one of the next step. *)
LEMMA LoadLeaves ==
  ASSUME NEW c, LoadMeets(c), c \notin adding, at[c] > LoadAddStep(c), GoOn(c),
         UNCHANGED <<settings, main, adding, errors, expired>>, TouchesOnly(LoadGround(c)),
         TableOf(LoadGround(c))' \in TenantSet, NEW m, memory' = [memory EXCEPT ![c] = m],
         LoadTable(c, TableOf(LoadGround(c))', at[c] + 1, memory'[c])
  PROVE  LoadFine(c)
  <1> DEFINE g == LoadGround(c)
  <1>1. c \in Check /\ LoadAddStep(c) \in Int /\ at[c] \in Int
    BY DEF LoadMeets, Check, LoadAddStep, LoadTyped
  <1>2. OnlyAt(c, at, at') /\ at'[c] = at[c] + 1
    BY <1>1, LoadGoesOn DEF LoadMeets
  <1>3. LoadTouches(c)
    BY <1>2 DEF LoadTouches, OnlyAt
  <1>4. UNCHANGED <<initial, choice>>
    BY DEF settings
  <1>5. LoadGround(c)' = g /\ LoadTable(c, TableOf(LoadGround(c)), at[c], memory[c])'
    BY <1>2, <1>4, LoadTableLater
  <1>6. g \in Known'
    BY DEF LoadMeets, LoadGrounds, Known, TouchesOnly
  <1>7. TableOf(LoadGround(c))' \in TenantSet /\ c \notin adding' /\ ~(at'[c] <= LoadAddStep(c))
    BY <1>1, <1>2
  <1>8. LoadGrounds(c)'
    BY <1>5, <1>6, <1>7 DEF LoadGrounds
  <1> QED
    BY <1>3, <1>8 DEF LoadFine, MovesOn

LEMMA LoadPassKeeps ==
  ASSUME NEW c, LoadMeets(c), c \notin adding, at[c] > LoadAddStep(c),
         LoadPasses(c, at[c], TableOf(LoadGround(c)), Known, memory[c])
  PROVE  LoadFine(c)
  <1>0. PICK g : g = LoadGround(c)
    OBVIOUS
  <1> DEFINE s == Now(c)
             t == TableOf(g)
             r(q) == Answer(t, q, Known)
             kept(q) == IF Remembered(c, s) /\ r(q).answer.status = 200 THEN r(q).answer.data ELSE memory[c]
  <1>1. \A q \in s.ask : /\ Proper(q, g)
                         /\ Fits(c, s, q, r(q).answer, memory[c], initial.billing)
                         /\ LoadTable(c, r(q).tenant, at[c] + 1, kept(q))
    BY <1>0 DEF LoadPasses, Now
  <1>2. /\ server = "as_written" /\ ~expired /\ Works(c) /\ c \in Check /\ g \in Known /\ t \in TenantSet
        /\ memory \in [Check -> {memory[d] : d \in Check}]
    BY <1>0 DEF LoadMeets, LoadGrounds, LoadTyped, Check
  <1> HIDE DEF s
  <1>3. /\ Running(c) /\ GoOn(c) /\ UNCHANGED <<settings, main, adding, group, errors, expired>>
        /\ TouchesOnly(g) /\ TableOf(g)' \in TenantSet
        /\ \E q \in s.ask : TableOf(g)' = r(q).tenant /\ memory'[c] = kept(q)
        /\ \E m : memory' = [memory EXCEPT ![c] = m]
    <2>1. s = Now(c)
      BY DEF s
    <2>2. \A q \in s.ask : /\ Proper(q, g)
                           /\ Fits(c, s, q, Answer(TableOf(g), q, Known).answer, memory[c], initial.billing)
      BY <1>1
    <2> QED
      BY <1>2, <2>1, <2>2, OneAnswered
  <1>4. PICK q \in s.ask : TableOf(g)' = r(q).tenant /\ memory'[c] = kept(q)
    BY <1>3
  <1>5. LoadTable(c, r(q).tenant, at[c] + 1, kept(q))
    BY <1>1
  <1> HIDE DEF r, kept
  <1>6. LoadTable(c, TableOf(g)', at[c] + 1, memory'[c])
    BY <1>4, <1>5
  <1>7. PICK m : memory' = [memory EXCEPT ![c] = m]
    BY <1>3
  <1>8. LoadGround(c)' = g
    BY <1>0, <1>3, LoadTableLater DEF settings
  <1>9. TableOf(LoadGround(c))' = TableOf(g)'
    BY <1>8 DEF TableOf
  <1> QED
    BY <1>0, <1>3, <1>6, <1>7, <1>9, LoadLeaves

LEMMA LoadSameTouches ==
  ASSUME LoadTyped, NEW c
  PROVE  /\ UNCHANGED at => OnlyAt(c, at, at')
         /\ UNCHANGED memory => OnlyAt(c, memory, memory')
  <1>1. UNCHANGED at => OnlyAt(c, at, at')
    BY SameTouches DEF LoadTyped
  <1>2. UNCHANGED memory => OnlyAt(c, memory, memory')
    BY SameTouches DEF LoadTyped
  <1> QED
    BY <1>1, <1>2

(* The tenant whose bills are checked is added, and then its file. *)
LEMMA BillTenantIsAdded ==
  ASSUME LoadMeets("tenantBilling"), at["tenantBilling"] = 1
  PROVE  LoadFine("tenantBilling")
  <1>0. PICK c : c = "tenantBilling"
    OBVIOUS
  <1> DEFINE g == tBill
             s == Now(c)
             p == [name |-> tBill]
             q == Request("tenants_add", AdminAs, p)
  <1>1. /\ server = "as_written" /\ ~expired /\ LoadTyped /\ Works(c) /\ c \in Check /\ c \in LoadCheck
        /\ choice \in LoadChoices /\ LoadGrounds(c) /\ LoadAddStep(c) = 1 /\ LoadGround(c) = g
    BY <1>0 DEF LoadMeets, Check, LoadCheck, LoadAddStep, LoadGround
  <1>2. s = Must("tenants_add", "tenants_add", AdminAs, p)
    <2>1. Script(c, choice)[1] = Must("tenants_add", "tenants_add", AdminAs, p)
      BY <1>0, <1>1, BillSteps
    <2> HIDE DEF p
    <2> QED
      BY <1>0, <2>1 DEF Now
  <1>3. s.ask = {q} /\ s.status = 200 /\ s.name = "tenants_add"
    <2> HIDE DEF s, p
    <2> QED
      BY <1>2 DEF Must, Step
  <1>4. q.op = "tenants_add" /\ q.as = AdminAs /\ q.name = g
    BY DEF Request
  <1> HIDE DEF s, p, q
  <1>5. c = "tenantBilling" /\ Now(c) = s
    BY <1>0 DEF s
  <1>6. ASSUME UNCHANGED settings
        PROVE  /\ LoadGround(c)' = g
               /\ LoadTable(c, TableOf(LoadGround(c)), at[c], memory[c])'
                    <=> LoadTable(c, TableOf(LoadGround(c))', at'[c], memory'[c])
    BY <1>1, <1>6, LoadTableLater DEF settings
  <1>7. CASE c \notin adding
    <2>1. g \notin DOMAIN tenants
      BY <1>1, <1>5, <1>7 DEF LoadGrounds
    <2>2. AddStatus(tenants, q) = 200
      BY <1>4, <2>1, AddStatusIs, BillTenantIs
    <2>3. /\ tenants' = AddRow(tenants, q) /\ adding' = adding \cup {c}
          /\ UNCHANGED <<settings, main, at, result, memory, group, errors, expired>>
      BY <1>1, <1>3, <1>4, <1>5, <1>7, <2>2, AddsRow
    <2>4. tenants' = Put(tenants, g, NoFile)
      BY <1>4, <2>3 DEF AddRow, NoFile
    <2>5. DOMAIN tenants' = DOMAIN tenants \cup {g} /\ tenants'[g] = NoFile
          /\ \A n \in DOMAIN tenants : n # g => tenants'[n] = tenants[n]
      BY <2>4 DEF Put
    <2>6. OnlyAt(c, at, at') /\ OnlyAt(c, memory, memory')
      BY <1>1, <2>3, LoadSameTouches
    <2>7. LoadTouches(c)
      BY <1>1, <2>3, <2>5, <2>6 DEF LoadTouches, TouchesOnly
    <2>8. c \in adding' /\ at'[c] = 1 /\ ~(at'[c] > 1)
      BY <1>5, <2>3
    <2>9. LoadGrounds(c)'
      BY <1>1, <1>5, <2>5, <2>8 DEF LoadGrounds
    <2> QED
      BY <1>0, <2>3, <2>7, <2>9 DEF LoadFine, MovesOn
  <1>8. CASE c \in adding
    <2>1. g \in DOMAIN tenants /\ tenants[g] = NoFile
      BY <1>1, <1>8 DEF LoadGrounds
    <2>2. /\ tenants' = AddFile(tenants, q) /\ adding' = adding \ {c} /\ GoOn(c)
          /\ UNCHANGED <<settings, main, memory, group, errors, expired>>
      <3>1. ~Asks(c) /\ ~AsksPage(c)
        BY <1>3, <1>4, <1>5 DEF Asks, AsksPage, AdminApi
      <3>2. ~AddsTenant(c) /\ ~Canceled(c)
        BY <1>1, <1>8 DEF AddsTenant, Canceled
      <3>3. AddsFile(c)
        BY <1>1, <3>1, <3>2 DEF Works
      <3> DEFINE a == [status |-> 200, data |-> {}]
      <3>4. /\ tenants' = AddFile(tenants, q) /\ adding' = adding \ {c} /\ Receive(c, s, q, a)
            /\ UNCHANGED <<settings, main, memory, group, expired>>
        BY <1>3, <1>5, <3>3 DEF AddsFile
      <3>5. a.status = 200
        OBVIOUS
      <3> HIDE DEF a
      <3>6. Fits(c, s, q, a, memory[c], initial.billing)
        BY <1>3, <1>5, <3>5 DEF Fits, TenantBillingFits
      <3> QED
        BY <3>4, <3>6 DEF Receive
    <2>3. /\ DOMAIN tenants' = DOMAIN tenants /\ tenants'[g] = Holding(0, {}, <<>>)
          /\ \A n \in DOMAIN tenants : n # g => tenants'[n] = tenants[n]
      BY <1>4, <2>1, <2>2, FileMakesEmpty
    <2>4. OnlyAt(c, at, at') /\ at'[c] = 2
      <3>1. OnlyAt(c, at, at') /\ at'[c] = at[c] + 1
        BY <1>1, <2>2, LoadGoesOn
      <3> QED
        BY <1>5, <3>1
    <2>5. OnlyAt(c, memory, memory')
      BY <1>1, <2>2, LoadSameTouches
    <2>6. LoadTouches(c)
      BY <1>1, <2>2, <2>3, <2>4, <2>5 DEF LoadTouches, TouchesOnly
    <2>7. c \notin adding' /\ at'[c] > 1 /\ ~(at'[c] <= 1)
      BY <2>2, <2>4
    <2>8. g \in Known' /\ TableOf(LoadGround(c))' = Holding(0, {}, <<>>)
      <3>1. g \in DOMAIN tenants'
        BY <2>1, <2>3
      <3> QED
        BY <1>6, <2>2, <2>3, <3>1 DEF TableOf, TenantOf, Known
    <2>9. TableOf(LoadGround(c))' \in TenantSet
      BY <2>8, EmptyIs
    <2>10. LoadTable(c, TableOf(LoadGround(c))', at'[c], memory'[c])
      <3> DEFINE u == TableOf(LoadGround(c))'
                 i == at'[c]
                 m == memory'[c]
      <3>1. u = Holding(0, {}, <<>>) /\ i = 2
        BY <2>4, <2>8
      <3> HIDE DEF u, i, m
      <3>2. BillTable(u, i)
        BY <3>1 DEF BillTable
      <3>3. LoadTable(c, u, i, m)
        BY <1>5, <3>2 DEF LoadTable
      <3> QED
        BY <3>3 DEF u, i, m
    <2>11. LoadGrounds(c)'
      BY <1>1, <1>6, <2>2, <2>7, <2>8, <2>9, <2>10 DEF LoadGrounds
    <2> QED
      BY <1>0, <2>2, <2>6, <2>11 DEF LoadFine, MovesOn
  <1> QED
    BY <1>7, <1>8

(* The pages of bills. *)
LEMMA PageFine ==
  ASSUME LoadMeets("adminBilling"), at["adminBilling"] \in {1, 8}
  PROVE  LoadFine("adminBilling")
  <1> DEFINE c == "adminBilling"
  <1>1. /\ server = "as_written" /\ ~expired /\ LoadTyped /\ Works(c) /\ c \in Check /\ c \in LoadCheck
        /\ choice \in LoadChoices /\ InitialHeld(CompetitionsDrawn) /\ LoadTouched
        /\ LoadGrounds(c) /\ LoadAddStep(c) = 0 /\ LoadGround(c) = choice.target
        /\ memory \in [Check -> {memory[d] : d \in Check}]
    BY DEF LoadMeets, Check, LoadCheck, LoadAddStep, LoadGround, LoadTyped
  <1>2. c \notin adding
    BY DEF LoadMeets, LoadGrounds
  <1>3. at[c] > LoadAddStep(c)
    BY <1>1
  <1>4. LoadTable(c, TableOf(choice.target), at[c], memory[c]) /\ TableOf(choice.target) \in TenantSet
    BY <1>1, <1>3 DEF LoadGrounds
  <1>5. /\ Running(c) /\ GoOn(c)
        /\ UNCHANGED <<settings, tenants, main, adding, group, errors, expired>>
        /\ \E m : memory' = [memory EXCEPT ![c] = m]
        /\ LoadTable(c, TableOf(choice.target), at[c] + 1, memory'[c])
    BY <1>1, <1>2, <1>4, PageKeeps
  <1>6. TableOf(LoadGround(c))' = TableOf(choice.target) /\ TouchesOnly(LoadGround(c))
    <2>1. LoadGround(c)' = LoadGround(c)
      BY <1>5, LoadTableLater DEF settings
    <2> QED
      BY <1>1, <1>5, <2>1 DEF TableOf, TouchesOnly, settings
  <1>7. PICK m : memory' = [memory EXCEPT ![c] = m]
    BY <1>5
  <1> HIDE DEF c
  <1>8. LoadFine(c)
    BY <1>1, <1>2, <1>3, <1>4, <1>5, <1>6, <1>7, LoadLeaves DEF c
  <1> QED
    BY <1>8 DEF c

LEMMA LoadStepKeeps ==
  ASSUME NEW c, LoadMeets(c)
  PROVE  LoadFine(c)
  <1>1. c \in {"players", "tenantBilling", "adminBilling", "popular"} /\ at[c] \in 1..Length(c) /\ c \in Check
        /\ at[c] \in Int /\ choice \in LoadChoices
    BY DEF LoadMeets, LoadCheck, LoadTyped, Check
  <1>2. ASSUME c # "tenantBilling"
        PROVE  /\ Meeting(c, Known) /\ c \notin adding /\ at[c] > LoadAddStep(c)
               /\ LoadTable(c, TableOf(LoadGround(c)), at[c], memory[c])
    <2>1. c \notin adding /\ at[c] > LoadAddStep(c)
      BY <1>1, <1>2 DEF LoadMeets, LoadGrounds, LoadAddStep
    <2> QED
      BY <2>1 DEF LoadMeets, LoadGrounds, Meeting
  <1>3. CASE c = "players"
    <2>1. at[c] \in 1..19
      <3>1. Length("players") = 19
        BY <1>1, PlayersSteps DEF Length
      <3> QED
        BY <1>1, <1>3, <3>1
    <2>2. LoadPasses(c, at[c], TableOf(LoadGround(c)), Known, memory[c])
      BY <1>2, <1>3, <2>1, PlayersPass
    <2> QED
      BY <1>2, <1>3, <2>2, LoadPassKeeps
  <1>4. CASE c = "popular"
    <2>1. at[c] \in 1..8
      <3>1. Length("popular") = 8
        BY <1>1, PopularSteps DEF Length
      <3> QED
        BY <1>1, <1>4, <3>1
    <2>2. LoadPasses(c, at[c], TableOf(LoadGround(c)), Known, memory[c])
      BY <1>2, <1>4, <2>1, PopularPass
    <2> QED
      BY <1>2, <1>4, <2>2, LoadPassKeeps
  <1>5. CASE c = "adminBilling"
    <2>1. at[c] \in 1..8
      <3>1. Length("adminBilling") = 8
        BY <1>1, AdminBillingSteps DEF Length
      <3> QED
        BY <1>1, <1>5, <3>1
    <2>2. CASE at[c] \in 2..7
      <3>1. LoadPasses(c, at[c], TableOf(LoadGround(c)), Known, memory[c])
        BY <1>2, <1>5, <2>2, AdminBillingPasses
      <3> QED
        BY <1>2, <1>5, <3>1, LoadPassKeeps
    <2>3. CASE at[c] \in {1, 8}
      BY <1>5, <2>3, PageFine
    <2> QED
      BY <2>1, <2>2, <2>3
  <1>6. CASE c = "tenantBilling"
    <2>1. CASE at[c] = 1
      BY <1>6, <2>1, BillTenantIsAdded
    <2>2. CASE at[c] # 1
      <3>1. at[c] \in 2..Length(c) /\ LoadGround(c) = tBill /\ at[c] > LoadAddStep(c) /\ c \notin adding
        BY <1>1, <1>6, <2>2 DEF LoadGround, LoadAddStep, LoadMeets, LoadGrounds
      <3>2. tBill \in Known /\ LoadTable(c, TableOf(tBill), at[c], memory[c])
        BY <3>1 DEF LoadMeets, LoadGrounds
      <3>3. BillTable(TableOf(tBill), at[c])
        BY <1>6, <3>2 DEF LoadTable
      <3>4. LoadPasses("tenantBilling", at[c], TableOf(tBill), Known, memory[c])
        BY <1>1, <1>6, <3>1, <3>2, <3>3, BillPasses
      <3> QED
        BY <1>6, <3>1, <3>4, LoadPassKeeps
    <2> QED
      BY <2>1, <2>2
  <1> QED
    BY <1>1, <1>3, <1>4, <1>5, <1>6

-----------------------------------------------------------------------------
(* The inductive invariant of the workers of the load *)

Working == server = "as_written" /\ started \subseteq LoadCheck /\ ~expired

LoadInScripts == \A c \in LoadCheck : result[c] = "running" => at[c] \in 1..Length(c)
LoadStanding ==
    /\ errors = {} /\ main # "start" /\ choice \in LoadChoices /\ InitialHeld(CompetitionsDrawn)
    /\ LoadTyped /\ LoadInScripts /\ OnlyStarted
    /\ \A c \in LoadCheck \cap started : LoadGrounds(c)
LoadInv == Working => LoadStanding

LEMMA LoadLengths ==
  ASSUME choice \in LoadChoices, NEW c \in LoadCheck
  PROVE  Length(c) \in Nat \ {0}
  <1>1. c \in {"players", "tenantBilling", "adminBilling", "popular"}
    BY DEF LoadCheck
  <1>2. Length("players") = 19
    BY PlayersSteps DEF Length
  <1>3. Length("adminBilling") = 8
    BY AdminBillingSteps DEF Length
  <1>4. Length("popular") = 8
    BY PopularSteps DEF Length
  <1>5. Length("tenantBilling") \in Nat \ {0}
    <2>1. Length("tenantBilling") = 2 + Offsets[Len(Rounds) + 1]
      BY BillSteps DEF Length
    <2>2. Offsets[Len(Rounds) + 1] \in Nat
      BY OffsetsAre, RoundsAre
    <2> QED
      BY <2>1, <2>2
  <1> QED
    BY <1>1, <1>2, <1>3, <1>4, <1>5

LEMMA LoadFineStands ==
  ASSUME IInv, LoadStanding, NEW c \in LoadCheck, result[c] = "running", LoadFine(c)
  PROVE  LoadStanding'
  <1>1. UNCHANGED <<server, initial, choice, started, main, errors>> /\ LoadTouches(c) /\ c \in Check
    BY DEF LoadFine, settings, Check
  <1>2. /\ at' \in [Check -> Int] /\ \A d \in Check : d # c => at'[d] = at[d] /\ result'[d] = result[d]
        /\ \/ at'[c] = at[c] /\ result'[c] \in {result[c], "error"}
           \/ at'[c] = at[c] + 1 /\ result'[c] = IF at[c] = Length(c) THEN "nil" ELSE result[c]
    BY <1>1, StepMoves DEF LoadFine
  <1>3. choice \in LoadChoices
    BY DEF LoadStanding
  <1>4. LoadTyped'
    <2>1. memory' \in [Check -> {memory'[d] : d \in Check}]
      <3>1. PICK m : memory' = [memory EXCEPT ![c] = m]
        BY <1>1 DEF LoadTouches, OnlyAt
      <3>2. DOMAIN memory' = Check /\ memory' = [d \in Check |-> memory'[d]]
        BY <3>1 DEF LoadStanding, LoadTyped
      <3> QED
        BY <3>2
    <2>2. LoadTouched'
      <3>1. \A d \in LoadCheck : LoadGround(d)' = LoadGround(d)
        BY <1>1, LoadTableLater
      <3>2. DOMAIN tenants' \subseteq DOMAIN tenants \cup {LoadGround(c)}
        BY <1>1 DEF LoadTouches, TouchesOnly
      <3>3. DOMAIN tenants \subseteq {LoadGround(d) : d \in LoadCheck}
        BY DEF LoadStanding, LoadTyped, LoadTouched
      <3>4. ASSUME NEW n \in DOMAIN tenants' PROVE \E d \in LoadCheck : n = LoadGround(d)'
        <4>1. n \in {LoadGround(d) : d \in LoadCheck}
          BY <3>2, <3>3
        <4> QED
          BY <3>1, <4>1
      <3>5. DOMAIN tenants' \subseteq {LoadGround(d)' : d \in LoadCheck}
        BY <3>4
      <3> QED
        BY <3>5 DEF LoadTouched
    <2> QED
      BY <1>2, <2>1, <2>2 DEF LoadTyped
  <1>5. InitialHeld(CompetitionsDrawn)'
    BY <1>1 DEF LoadStanding, InitialHeld, Base
  <1>6. LoadInScripts'
    <2> SUFFICES ASSUME NEW d \in LoadCheck, result'[d] = "running" PROVE at'[d] \in 1..Length(d)'
      BY DEF LoadInScripts
    <2>1. Length(d)' = Length(d) /\ Length(d) \in Nat \ {0} /\ d \in Check
      BY <1>1, <1>3, LoadLengths DEF Length, Check
    <2>2. CASE d # c
      BY <1>2, <2>1, <2>2 DEF LoadStanding, LoadInScripts
    <2>3. CASE d = c
      <3>1. at[c] \in 1..Length(c)
        BY DEF LoadStanding, LoadInScripts
      <3> QED
        BY <1>2, <2>1, <2>3, <3>1
    <2> QED
      BY <2>2, <2>3
  <1>7. OnlyStarted'
    BY <1>1, <1>2 DEF LoadStanding, OnlyStarted
  <1>8. \A d \in (LoadCheck \cap started)' : LoadGrounds(d)'
    <2> SUFFICES ASSUME NEW d \in LoadCheck, d \in started PROVE LoadGrounds(d)'
      BY <1>1
    <2>1. CASE d = c
      BY <2>1 DEF LoadFine
    <2>2. CASE d # c
      BY <1>1, <1>3, <2>2, LoadOthersKeep DEF LoadStanding
    <2> QED
      BY <2>1, <2>2
  <1>9. errors' = {} /\ main' # "start" /\ choice' \in LoadChoices
    BY <1>1 DEF LoadStanding
  <1> QED
    BY <1>4, <1>5, <1>6, <1>7, <1>8, <1>9 DEF LoadStanding

LEMMA LoadSameStands ==
  ASSUME LoadStanding, UNCHANGED <<initial, choice, started, at, result, adding, memory, tenants, errors>>,
         main' # "start"
  PROVE  LoadStanding'
  <1>1. LoadInScripts' /\ OnlyStarted' /\ InitialHeld(CompetitionsDrawn)'
    BY DEF LoadStanding, LoadInScripts, OnlyStarted, InitialHeld, Base, Length
  <1>2. \A c : LoadGround(c)' = LoadGround(c)
    BY LoadTableLater
  <1>3. LoadTyped'
    BY <1>2 DEF LoadStanding, LoadTyped, LoadTouched
  <1>4. ASSUME NEW c \in LoadCheck, c \in started PROVE LoadGrounds(c)'
    <2>1. TableOf(LoadGround(c))' = TableOf(LoadGround(c)) /\ Known' = Known
      BY <1>2 DEF TableOf, Known
    <2>2. LoadTable(c, TableOf(LoadGround(c)), at[c], memory[c])'
             <=> LoadTable(c, TableOf(LoadGround(c)), at[c], memory[c])
      BY <2>1, LoadTableLater
    <2>3. LoadGrounds(c)
      BY <1>4 DEF LoadStanding
    <2> QED
      BY <1>2, <2>1, <2>2, <2>3 DEF LoadGrounds
  <1>5. \A c \in (LoadCheck \cap started)' : LoadGrounds(c)'
    BY <1>4
  <1> QED
    BY <1>1, <1>3, <1>5 DEF LoadStanding

(* The minute is the load's; the group and the tenant created first are        *)
(* Prepare's.                                                                  *)
LEMMA LoadInductive ==
  IInv /\ LoadInv /\ [Next]_vars => LoadInv'
  <1> SUFFICES ASSUME IInv, LoadInv, [Next]_vars, Working' PROVE LoadStanding'
    BY DEF LoadInv
  <1>1. CASE UNCHANGED vars
    <2>1. Working /\ LoadStanding
      BY <1>1 DEF vars, settings, Working, LoadInv
    <2> QED
      BY <1>1, <2>1, LoadSameStands DEF vars, settings, LoadStanding
  <1>2. CASE CreateTenant
    <2>1. Working /\ main = "start"
      BY <1>2 DEF CreateTenant, Working, settings
    <2> QED
      BY <2>1 DEF LoadInv, LoadStanding
  <1>3. CASE Conclude
    <2>1. Working
      BY <1>3 DEF Conclude, Working, settings
    <2>2. main' # "start" /\ UNCHANGED <<initial, choice, started, at, result, adding, memory, tenants, errors>>
      BY <1>3 DEF Conclude, settings
    <2> QED
      BY <2>1, <2>2, LoadSameStands DEF LoadInv
  <1>4. CASE Deadline
    BY <1>4 DEF Deadline, Working
  <1>5. CASE \E c \in Check : Works(c)
    <2>1. PICK c \in Check : Works(c)
      BY <1>5
    <2>2. Working /\ Running(c)
      BY <2>1 DEF Works, Asks, AsksPage, AddsTenant, AddsFile, Canceled, Working, settings
    <2>3. LoadStanding /\ result[c] = "running"
      BY <2>2 DEF LoadInv, Running
    <2>4. c \in started /\ c \in LoadCheck
      BY <2>2, <2>3 DEF LoadStanding, OnlyStarted, Working
    <2>5. LoadMeets(c)
      BY <2>1, <2>2, <2>3, <2>4 DEF LoadMeets, LoadStanding, LoadInScripts, Working
    <2> QED
      BY <2>3, <2>4, <2>5, LoadStepKeeps, LoadFineStands
  <1>6. CASE Uploads \/ (\E r \in Ranker : Reads(r)) \/ GroupEnds
    <2>1. Working /\ InGroup
      BY <1>6 DEF Uploads, UploaderHalf, UploaderAsks, Reads, RankerPolls, RankerAsks, GroupEnds, groupless, Working, settings
    <2>2. result["allAPI"] = "running" /\ "allAPI" \in Check /\ "allAPI" \notin LoadCheck
      BY <2>1 DEF InGroup, Running, Check, PrepareCheck, LoadCheck
    <2> QED
      BY <2>1, <2>2 DEF LoadInv, LoadStanding, OnlyStarted, Working
  <1> QED
    BY <1>1, <1>2, <1>3, <1>4, <1>5, <1>6 DEF Next

(* There is something for the workers to draw. *)
LEMMA SomethingDrawn == LoadChoices # {}
  <1>1. PICK p \in DrawnIds(PlayerRange) : TRUE
    <2>1. /\ PlayerRange[1] \in Nat /\ PlayerRange[2] \in Nat /\ PlayerRange[1] <= PlayerRange[2]
          /\ DrawnIds(PlayerRange) = (PlayerRange[1] + 1)..(PlayerRange[2] + 1)
      BY DrawnIdsAre
    <2>2. PlayerRange[1] + 1 \in (PlayerRange[1] + 1)..(PlayerRange[2] + 1)
      BY <2>1
    <2> QED
      BY <2>1, <2>2
  <1>2. PICK id \in DrawnIds(<<AdminRange[1] + BillingLimit, AdminRange[2] + 1>>) : TRUE
    <2>1. AdminRange[1] \in Nat /\ AdminRange[2] \in Nat /\ BillingLimit \in Nat
          /\ AdminRange[1] + BillingLimit <= AdminRange[2] + 1
      BY RangesAssumption, DrawnIdsAre, ServiceAssumption
    <2>2. AdminRange[1] + BillingLimit + 1 \in (AdminRange[1] + BillingLimit + 1)..(AdminRange[2] + 2)
      BY <2>1
    <2> QED
      BY <2>2, DrawnIdsAre
  <1>3. 1 \in PopularIds
    BY DEF PopularIds
  <1>4. [player |-> p, popular |-> 1, cursor |-> id, target |-> id - 1] \in LoadChoices
    BY <1>1, <1>2, <1>3 DEF LoadChoices
  <1> QED
    BY <1>4

LEMMA LoadInitially ==
  ASSUME Init
  PROVE  LoadInv
  <1> SUFFICES ASSUME Working PROVE LoadStanding
    BY DEF LoadInv
  <1>1. /\ errors = {} /\ adding = {} /\ at = [c \in Check |-> 1]
        /\ memory = [c \in Check |-> 0] /\ tenants = [n \in {} |-> EmptyTenant]
        /\ result = [c \in Check |-> IF c \in started THEN "running" ELSE "nil"]
        /\ main = "checks"
    BY DEF Init, Working
  <1>2. initial = TypicalInitial
    <2>1. started # {"billing"}
      BY DEF Working, LoadCheck
    <2> QED
      BY <2>1 DEF Init
  <1>3. InitialRight /\ InitialHeld(CompetitionsDrawn)
    BY <1>2, TypicalIsRight
  <1>4. choice \in LoadChoices
    <2>1. (CHOOSE d \in LoadChoices : TRUE) \in LoadChoices
      BY SomethingDrawn
    <2> QED
      BY <2>1 DEF Init
  <1>5. LoadTyped
    <2>1. at \in [Check -> Int] /\ DOMAIN tenants = {}
      BY <1>1
    <2>2. memory \in [Check -> {memory[d] : d \in Check}]
      BY <1>1
    <2> QED
      BY <2>1, <2>2 DEF LoadTyped, LoadTouched
  <1>6. LoadInScripts
    <2> SUFFICES ASSUME NEW c \in LoadCheck PROVE at[c] \in 1..Length(c)
      BY DEF LoadInScripts
    <2>1. Length(c) \in Nat \ {0} /\ at[c] = 1
      BY <1>1, <1>4, LoadLengths DEF Check
    <2> QED
      BY <2>1
  <1>7. OnlyStarted
    BY <1>1 DEF OnlyStarted
  <1>8. ASSUME NEW c \in LoadCheck PROVE LoadGrounds(c)
    <2> DEFINE g == LoadGround(c)
               t == TableOf(g)
               m == memory[c]
    <2>1. c \in {"players", "tenantBilling", "adminBilling", "popular"} /\ c \in Check /\ at[c] = 1 /\ c \notin adding
          /\ g \notin DOMAIN tenants
      BY <1>1 DEF LoadCheck, Check
    <2>2. CASE c = "tenantBilling"
      BY <2>1, <2>2 DEF LoadGrounds, LoadAddStep
    <2>3. CASE c # "tenantBilling"
      <3>1. LoadAddStep(c) = 0 /\ g \in {choice.player, choice.popular, choice.target}
        BY <2>1, <2>3 DEF LoadAddStep, LoadGround
      <3>2. g \in InitialId
        BY <1>4, <3>1, ChoiceIs
      <3>3. t = initial.tenant /\ g \in Known
        BY <2>1, <3>2 DEF TableOf, TenantOf, Known
      <3>4. t \in TenantSet
        BY <1>3, <3>3 DEF InitialRight
      <3>5. LoadTable(c, t, at[c], m)
        <4> DEFINE i == at[c]
        <4>1. i = 1 /\ i - 1 = 0
          BY <2>1
        <4> HIDE DEF t, m, g, i
        <4>2. PlayersTable(t, i)
          BY <3>3, <4>1 DEF PlayersTable
        <4>3. \A rows : JobTable(t, i - 1, rows) /\ JobTable(t, i, rows)
          BY <3>3, <4>1 DEF JobTable
        <4>4. LoadTable(c, t, i, m)
          BY <2>3, <4>1, <4>2, <4>3 DEF LoadTable
        <4> QED
          BY <4>4 DEF i
      <3> QED
        BY <2>1, <3>1, <3>3, <3>4, <3>5 DEF LoadGrounds
    <2> QED
      BY <2>2, <2>3
  <1> QED
    BY <1>1, <1>3, <1>4, <1>5, <1>6, <1>7, <1>8 DEF LoadStanding

-----------------------------------------------------------------------------
(* A server that is as written fails no check *)

(* The checks are some of the validation or some of the load. *)
OneOrOther == server = "as_written" => started \subseteq PrepareCheck \/ started \subseteq LoadCheck

LEMMA OneOrOtherKept ==
  /\ Init => OneOrOther
  /\ OneOrOther /\ [Next]_vars => OneOrOther'
  <1>1. Init => OneOrOther
    <2> SUFFICES ASSUME Init, server = "as_written"
                 PROVE  started \subseteq PrepareCheck \/ started \subseteq LoadCheck
      BY DEF OneOrOther
    <2>1. CASE strict
      <3>1. started \in {PrepareCheck, LoadCheck} \cup Interrupted
        BY <2>1 DEF Init
      <3>2. \A S \in Interrupted : S \subseteq PrepareCheck \/ S \subseteq LoadCheck
        BY ValidationAssumption
      <3> QED
        BY <3>1, <3>2
    <2>2. CASE ~strict
      BY <2>2 DEF Init
    <2> QED
      BY <2>1, <2>2
  <1>2. ASSUME [Next]_vars PROVE UNCHANGED <<server, started>>
    BY <1>2 DEF Next, CreateTenant, Conclude, Deadline, Works, Asks, AsksPage, AddsTenant, AddsFile, Canceled,
       Uploads, UploaderHalf, UploaderAsks, Reads, RankerPolls, RankerAsks, GroupEnds, groupless, vars, settings
  <1> QED
    BY <1>1, <1>2 DEF OneOrOther

LEMMA CorrectEither ==
  ASSUME CorrectInv, LoadInv, OneOrOther
  PROVE  OnlyRaceFailsCorrect
  BY DEF CorrectInv, Sober, Standing, LoadInv, Working, LoadStanding, OneOrOther, OnlyRaceFailsCorrect

(* The checks of the validation or the workers of the load, all of them or      *)
(* some, for any sizes of the initial data, anything the workers draw, any     *)
(* rounds of bills, any number of goroutines and any order of their requests:  *)
(* while the time has not run out, the one error they find in a server that is *)
(* as written is that of the tenants' bills, read while a new tenant has a row *)
(* and no file.                                                                *)
THEOREM CorrectPasses == Spec => []OnlyRaceFailsCorrect
  <1>1. Init => IInv /\ CorrectInv /\ LoadInv /\ OneOrOther
    BY Initially, InitialIsRight, CorrectInitially, LoadInitially, OneOrOtherKept
  <1>2. IInv /\ CorrectInv /\ LoadInv /\ OneOrOther /\ [Next]_vars => (IInv /\ CorrectInv /\ LoadInv /\ OneOrOther)'
    BY Inductive, CorrectInductive, LoadInductive, OneOrOtherKept
  <1>3. IInv /\ CorrectInv /\ LoadInv /\ OneOrOther => OnlyRaceFailsCorrect
    BY CorrectEither
  <1> QED
    BY <1>1, <1>2, <1>3, PTL DEF Spec
=============================================================================
