------------------------ MODULE TenantRegistry_proofs ------------------------
(* Theorems about TenantRegistry, for any number of tenants, requests, page   *)
(* size and faults.                                                           *)
EXTENDS TenantRegistry, SequenceTheorems, WellFoundedInduction, TLAPS

-----------------------------------------------------------------------------
(* The inductive invariant *)

Shown(s) == {s[i] : i \in DOMAIN s}
Descends(s) == \A i, j \in DOMAIN s : i < j => s[i] > s[j]

(* AUTO_INCREMENT is ahead of every row; an idle goroutine has no locals, and  *)
(* one that creates a file has an id for it.                                   *)
IdsUsed == \A t \in tenant : t.id <= lastId
LocalsFit ==
    \A r \in Request \cup {Walker} :
        /\ pc[r] = "idle" => req[r] = Idle
        /\ pc[r] = "add_create" => req[r].id # 0

(* A request that starts at before lists id, if the row is there. *)
After(before, id) == before = 0 \/ id < before

(* Where the walk is: what it has seen ends where its next request starts, and *)
(* of what it knew each tenant is either shown or still ahead.                 *)
WalkSoFar ==
    /\ Descends(walk.seen)
    /\ walk.seen # <<>> => walk.before = walk.seen[Len(walk.seen)]
    /\ walk.known \subseteq Ids(tenant)
    /\ \A id \in walk.known : id \in Shown(walk.seen) \/ After(walk.before, id)
    /\ walk.done => walk.known \subseteq Shown(walk.seen)
    /\ pc[Walker] \in {"idle", "billing_tenant"}
    /\ pc[Walker] # "idle" => ~walk.done

(* The page a walker's request has put together and the rows it has left. *)
PageSoFar ==
    pc[Walker] = "billing_tenant" =>
        /\ Descends(req[Walker].page)
        /\ \A i \in DOMAIN req[Walker].page : After(walk.before, req[Walker].page[i])
        /\ \A id \in req[Walker].todo :
              /\ After(walk.before, id)
              /\ \A i \in DOMAIN req[Walker].page : id < req[Walker].page[i]
        /\ \A id \in walk.known : \/ id \in Shown(walk.seen) \/ id \in Shown(req[Walker].page)
                                  \/ id \in req[Walker].todo

IInv == TypeOK /\ IdsUsed /\ LocalsFit /\ WalkSoFar /\ PageSoFar

-----------------------------------------------------------------------------
(* The largest of a set of ids *)

LEMMA MaxOf ==
  ASSUME NEW n \in Nat, NEW S \in SUBSET (0..n), S # {}
  PROVE  Max(S) \in S /\ \A y \in S : y <= Max(S)
  <1> DEFINE R == OpToRel(<, Nat)
             T == {n - x : x \in S}
  <1>1. T \subseteq Nat /\ T # {}
    <2> HIDE DEF R
    <2>1. \A x \in S : x \in 0..n /\ n - x \in Nat
      OBVIOUS
    <2>2. PICK x \in S : TRUE
      OBVIOUS
    <2> QED
      BY <2>1, <2>2
  <1>2. PICK m \in T : \A y \in T : ~(<<y, m>> \in R)
    <2> HIDE DEF R, T
    <2>1. IsWellFoundedOn(R, Nat)
      BY NatLessThanWellFounded DEF R
    <2> QED
      BY <1>1, <2>1, WFMin
  <1>3. \A y \in T : ~(y < m)
    <2> SUFFICES ASSUME NEW y \in T, y < m PROVE FALSE
      OBVIOUS
    <2>1. y \in Nat /\ m \in Nat
      BY <1>1
    <2>2. <<y, m>> \in R
      BY <2>1 DEF OpToRel
    <2> QED
      BY <1>2, <2>2
  <1>4. PICK x \in S : m = n - x
    OBVIOUS
  <1>5. \A y \in S : x >= y
    <2> SUFFICES ASSUME NEW y \in S PROVE x >= y
      OBVIOUS
    <2>1. ~(n - y < n - x)
      BY <1>3, <1>4
    <2> QED
      BY <2>1
  <1>6. Max(S) \in S /\ \A y \in S : Max(S) >= y
    BY <1>5 DEF Max
  <1> QED
    BY <1>6

-----------------------------------------------------------------------------
(* Pages *)

LEMMA AppendLower ==
  ASSUME NEW S \in SUBSET Nat, NEW s \in Seq(S), NEW x \in S, Descends(s),
         \A i \in DOMAIN s : x < s[i]
  PROVE  LET t == Append(s, x) IN
         /\ t \in Seq(S) /\ t # <<>> /\ Len(t) = Len(s) + 1 /\ t[Len(t)] = x
         /\ Descends(t) /\ Shown(t) = Shown(s) \cup {x}
         /\ \A i \in DOMAIN t : x <= t[i] /\ (t[i] = x \/ \E j \in DOMAIN s : t[i] = s[j])
  <1> DEFINE t == Append(s, x)
  <1>1. /\ t \in Seq(S) /\ Len(t) = Len(s) + 1 /\ Len(s) \in Nat
        /\ DOMAIN t = 1..(Len(s) + 1) /\ DOMAIN s = 1..Len(s)
        /\ \A i \in 1..Len(s) : t[i] = s[i] /\ s[i] \in Nat
        /\ t[Len(s) + 1] = x /\ x \in Nat
    <2>1. t \in Seq(S) /\ Len(t) = Len(s) + 1 /\ Len(s) \in Nat
      BY AppendProperties, LenProperties
    <2>2. DOMAIN t = 1..(Len(s) + 1) /\ DOMAIN s = 1..Len(s)
      BY <2>1, LenProperties
    <2>3. \A i \in 1..Len(s) : t[i] = s[i] /\ s[i] \in S
      BY AppendProperties, ElementOfSeq
    <2>4. t[Len(s) + 1] = x
      BY AppendProperties
    <2>5. \A y \in S : y \in Nat
      OBVIOUS
    <2> HIDE DEF t
    <2> QED
      BY <2>1, <2>2, <2>3, <2>4, <2>5
  <1> HIDE DEF t
  <1>2. \A i \in DOMAIN t : (i \in DOMAIN s /\ t[i] = s[i]) \/ (i = Len(s) + 1 /\ t[i] = x)
    BY <1>1
  <1>3. t # <<>> /\ t[Len(t)] = x
    BY <1>1
  <1>4. Shown(t) = Shown(s) \cup {x}
    BY <1>1, <1>2 DEF Shown
  <1>5. Descends(t)
    BY <1>1, <1>2 DEF Descends
  <1>6. \A i \in DOMAIN t : x <= t[i] /\ (t[i] = x \/ \E j \in DOMAIN s : t[i] = s[j])
    BY <1>1, <1>2
  <1> QED
    BY <1>1, <1>3, <1>4, <1>5, <1>6 DEF t

LEMMA ConcatLower ==
  ASSUME NEW S \in SUBSET Nat, NEW s \in Seq(S), NEW t \in Seq(S), t # <<>>,
         Descends(s), Descends(t), \A i \in DOMAIN s, j \in DOMAIN t : t[j] < s[i]
  PROVE  LET u == s \o t IN
         /\ u \in Seq(S) /\ u # <<>> /\ u[Len(u)] = t[Len(t)]
         /\ Descends(u) /\ Shown(u) = Shown(s) \cup Shown(t)
  <1> DEFINE u == s \o t
  <1>1. /\ u \in Seq(S) /\ Len(u) = Len(s) + Len(t) /\ Len(s) \in Nat /\ Len(t) \in Nat \ {0}
        /\ DOMAIN u = 1..(Len(s) + Len(t)) /\ DOMAIN s = 1..Len(s) /\ DOMAIN t = 1..Len(t)
        /\ \A i \in 1..Len(s) : u[i] = s[i] /\ s[i] \in Nat
        /\ \A i \in 1..Len(t) : u[Len(s) + i] = t[i] /\ t[i] \in Nat
    <2>1. u \in Seq(S) /\ Len(u) = Len(s) + Len(t) /\ Len(s) \in Nat /\ Len(t) \in Nat
      BY ConcatProperties, LenProperties
    <2>2. DOMAIN u = 1..Len(u) /\ DOMAIN s = 1..Len(s) /\ DOMAIN t = 1..Len(t)
      BY <2>1, LenProperties
    <2>3. Len(t) # 0
      BY EmptySeq
    <2>4. \A i \in 1..Len(u) : u[i] = IF i <= Len(s) THEN s[i] ELSE t[i - Len(s)]
      BY ConcatProperties
    <2>5. (\A i \in 1..Len(s) : s[i] \in S) /\ \A i \in 1..Len(t) : t[i] \in S
      BY ElementOfSeq
    <2>6. \A y \in S : y \in Nat
      OBVIOUS
    <2> HIDE DEF u
    <2>7. \A i \in 1..Len(s) : u[i] = s[i]
      BY <2>1, <2>4
    <2>8. \A i \in 1..Len(t) : u[Len(s) + i] = t[i]
      <3> SUFFICES ASSUME NEW i \in 1..Len(t) PROVE u[Len(s) + i] = t[i]
        OBVIOUS
      <3>1. Len(s) + i \in 1..Len(u) /\ ~(Len(s) + i <= Len(s)) /\ (Len(s) + i) - Len(s) = i
        BY <2>1
      <3> QED
        BY <2>4, <3>1
    <2> QED
      BY <2>1, <2>2, <2>3, <2>5, <2>6, <2>7, <2>8
  <1> HIDE DEF u
  <1>2. \A i \in DOMAIN u : \/ i \in DOMAIN s /\ u[i] = s[i]
                            \/ i - Len(s) \in DOMAIN t /\ u[i] = t[i - Len(s)] /\ i \notin DOMAIN s
    <2> SUFFICES ASSUME NEW i \in DOMAIN u, i \notin DOMAIN s
                 PROVE  i - Len(s) \in DOMAIN t /\ u[i] = t[i - Len(s)]
      BY <1>1
    <2>1. i - Len(s) \in 1..Len(t) /\ i = Len(s) + (i - Len(s))
      BY <1>1
    <2> QED
      BY <1>1, <2>1
  <1>3. u # <<>> /\ u[Len(u)] = t[Len(t)]
    BY <1>1
  <1>4. Shown(u) = Shown(s) \cup Shown(t)
    <2>1. Shown(u) \subseteq Shown(s) \cup Shown(t)
      BY <1>2 DEF Shown
    <2>2. \A i \in DOMAIN s : i \in DOMAIN u /\ u[i] = s[i]
      BY <1>1
    <2>3. \A i \in DOMAIN t : Len(s) + i \in DOMAIN u /\ u[Len(s) + i] = t[i]
      BY <1>1
    <2>4. Shown(s) \subseteq Shown(u)
      BY <2>2 DEF Shown
    <2>5. Shown(t) \subseteq Shown(u)
      BY <2>3 DEF Shown
    <2> QED
      BY <2>1, <2>4, <2>5
  <1>5. Descends(u)
    <2> SUFFICES ASSUME NEW i \in DOMAIN u, NEW j \in DOMAIN u, i < j PROVE u[i] > u[j]
      BY DEF Descends
    <2>1. CASE i \in DOMAIN s /\ j \in DOMAIN s
      BY <1>1, <2>1 DEF Descends
    <2>2. CASE i \in DOMAIN s /\ j \notin DOMAIN s
      BY <1>1, <1>2, <2>2
    <2>3. CASE i \notin DOMAIN s
      <3>1. j \notin DOMAIN s
        BY <1>1, <2>3
      <3>2. /\ i - Len(s) \in DOMAIN t /\ u[i] = t[i - Len(s)]
            /\ j - Len(s) \in DOMAIN t /\ u[j] = t[j - Len(s)]
            /\ i - Len(s) < j - Len(s)
        BY <1>1, <1>2, <2>3, <3>1
      <3> QED
        BY <3>2 DEF Descends
    <2> QED
      BY <2>1, <2>2, <2>3
  <1> QED
    BY <1>1, <1>3, <1>4, <1>5 DEF u

-----------------------------------------------------------------------------
(* Type correctness *)

Local == [id : 0..MaxId, todo : SUBSET Id, page : Seq(Id)]

LEMMA IdleType == Idle \in Local /\ Idle.page = <<>> /\ Idle.id = 0 /\ Idle.todo = {}
  <1>1. 0 \in 0..MaxId /\ <<>> \in Seq(Id)
    BY RegistryAssumption
  <1> QED
    BY <1>1 DEF Idle, Local

LEMMA InitInv == Init => IInv
  <1> SUFFICES ASSUME Init PROVE IInv
    OBVIOUS
  <1> DEFINE S == Ids(InitTenant) \cup {0}
  <1>1. S \in SUBSET (0..MaxId) /\ S # {} /\ MaxId \in Nat
    BY RegistryAssumption DEF Ids, Tenant, Id
  <1>2. lastId \in 0..MaxId /\ \A y \in S : y <= lastId
    <2>1. lastId = Max(S)
      BY DEF Init
    <2> HIDE DEF S
    <2> QED
      BY <1>1, <2>1, MaxOf
  <1>3. walk = WalkFrom(FirstBefore) /\ pc = [r \in Request \cup {Walker} |-> "idle"]
        /\ req = [r \in Request \cup {Walker} |-> Idle] /\ tenant = InitTenant
    BY DEF Init
  <1>4. /\ walk.before = FirstBefore /\ walk.seen = <<>> /\ walk.known = {}
        /\ walk.asked = FALSE /\ walk.done = FALSE
    BY <1>3 DEF WalkFrom
  <1>5. TypeOK
    <2>1. tenant \subseteq Tenant /\ tenantDB \subseteq Id /\ faults \in 0..MaxFaults
      BY RegistryAssumption DEF Init, Ids, Tenant
    <2>2. \A t, u \in tenant : t.id = u.id \/ t.name = u.name => t = u
      BY <1>3, RegistryAssumption
    <2>3. pc \in [Request \cup {Walker} -> {"idle", "add_create", "billing_tenant"}]
      BY <1>3
    <2>4. req \in [Request \cup {Walker} -> Local]
      BY <1>3, IdleType
    <2>5. walk \in [before : Nat, seen : Seq(Id), known : SUBSET Id, asked : BOOLEAN,
                    done : BOOLEAN]
      <3>1. <<>> \in Seq(Id) /\ FirstBefore \in Nat
        BY RegistryAssumption
      <3> QED
        BY <1>3, <3>1 DEF WalkFrom
    <2> QED
      BY <1>2, <2>1, <2>2, <2>3, <2>4, <2>5 DEF TypeOK, Local
  <1>6. IdsUsed
    BY <1>2, <1>3 DEF IdsUsed, Ids
  <1>7. LocalsFit
    BY <1>3 DEF LocalsFit
  <1>8. Descends(<<>>)
    BY DEF Descends
  <1>9. WalkSoFar
    BY <1>3, <1>4, <1>8 DEF WalkSoFar
  <1>10. PageSoFar
    BY <1>3 DEF PageSoFar
  <1> QED
    BY <1>5, <1>6, <1>7, <1>9, <1>10 DEF IInv

-----------------------------------------------------------------------------
(* What the invariant gives about the locals and the walk *)

LEMMA Typing ==
  ASSUME TypeOK
  PROVE  /\ MaxId \in Nat /\ MaxFaults \in Nat /\ PageSize \in Nat
         /\ Ids(tenant) \subseteq Id
         /\ walk.before \in Nat /\ walk.seen \in Seq(Id) /\ walk.known \in SUBSET Id
         /\ walk.asked \in BOOLEAN /\ walk.done \in BOOLEAN
         /\ req \in [Request \cup {Walker} -> Local]
         /\ \A r \in Request \cup {Walker} :
               /\ pc[r] \in {"idle", "add_create", "billing_tenant"}
               /\ req[r] \in Local /\ req[r].id \in 0..MaxId
               /\ req[r].todo \in SUBSET Id /\ req[r].page \in Seq(Id)
  <1>1. MaxId \in Nat /\ MaxFaults \in Nat /\ PageSize \in Nat
    BY RegistryAssumption
  <1>2. Ids(tenant) \subseteq Id
    BY DEF TypeOK, Ids, Tenant
  <1>3. walk \in [before : Nat, seen : Seq(Id), known : SUBSET Id, asked : BOOLEAN, done : BOOLEAN]
    BY DEF TypeOK
  <1>4. /\ walk.before \in Nat /\ walk.seen \in Seq(Id) /\ walk.known \in SUBSET Id
        /\ walk.asked \in BOOLEAN /\ walk.done \in BOOLEAN
    BY <1>3
  <1>5. req \in [Request \cup {Walker} -> Local]
    BY DEF TypeOK, Local
  <1>6. pc \in [Request \cup {Walker} -> {"idle", "add_create", "billing_tenant"}]
    BY DEF TypeOK
  <1>7. ASSUME NEW r \in Request \cup {Walker}
        PROVE  /\ pc[r] \in {"idle", "add_create", "billing_tenant"}
               /\ req[r] \in Local /\ req[r].id \in 0..MaxId
               /\ req[r].todo \in SUBSET Id /\ req[r].page \in Seq(Id)
    <2>1. req[r] \in Local
      BY <1>5
    <2>2. req[r].id \in 0..MaxId /\ req[r].todo \in SUBSET Id /\ req[r].page \in Seq(Id)
      BY <2>1 DEF Local
    <2> QED
      BY <1>6, <2>1, <2>2
  <1> QED
    BY <1>1, <1>2, <1>4, <1>5, <1>7

(* A goroutine moves: its type and its cleanliness are kept, the others stay. *)
LEMMA Moves ==
  ASSUME IInv, NEW r \in Request \cup {Walker}, NEW loc \in Local,
         NEW label \in {"idle", "add_create", "billing_tenant"},
         label = "idle" => loc = Idle, label = "add_create" => loc.id # 0,
         pc' = [pc EXCEPT ![r] = label], req' = [req EXCEPT ![r] = loc]
  PROVE  /\ pc' \in [Request \cup {Walker} -> {"idle", "add_create", "billing_tenant"}]
         /\ req' \in [Request \cup {Walker} -> Local]
         /\ pc'[r] = label /\ req'[r] = loc
         /\ \A q \in (Request \cup {Walker}) \ {r} : pc'[q] = pc[q] /\ req'[q] = req[q]
         /\ LocalsFit'
  <1>1. req \in [Request \cup {Walker} -> Local]
    BY Typing DEF IInv
  <1>2. pc \in [Request \cup {Walker} -> {"idle", "add_create", "billing_tenant"}]
    BY DEF IInv, TypeOK
  <1>3. pc' \in [Request \cup {Walker} -> {"idle", "add_create", "billing_tenant"}]
    BY <1>2
  <1>4. req' \in [Request \cup {Walker} -> Local]
    BY <1>1
  <1>5. pc'[r] = label /\ req'[r] = loc
    BY <1>1, <1>2
  <1>6. \A q \in (Request \cup {Walker}) \ {r} : pc'[q] = pc[q] /\ req'[q] = req[q]
    BY <1>1, <1>2
  <1>7. \A q \in Request \cup {Walker} :
            (pc'[q] = "idle" => req'[q] = Idle) /\ (pc'[q] = "add_create" => req'[q].id # 0)
    <2> SUFFICES ASSUME NEW q \in Request \cup {Walker}
                 PROVE  (pc'[q] = "idle" => req'[q] = Idle) /\ (pc'[q] = "add_create" => req'[q].id # 0)
      OBVIOUS
    <2>1. CASE q = r
      BY <1>5, <2>1
    <2>2. CASE q # r
      BY <1>6, <2>2 DEF IInv, LocalsFit
    <2> QED
      BY <2>1, <2>2
  <1>8. LocalsFit'
    BY <1>7 DEF LocalsFit
  <1> QED
    BY <1>3, <1>4, <1>5, <1>6, <1>8

(* The types after a step, in one piece. *)
LEMMA TypesKept ==
  ASSUME TypeOK,
         tenant' = tenant, tenantDB' \subseteq Id, lastId' = lastId, faults' \in 0..MaxFaults,
         pc' \in [Request \cup {Walker} -> {"idle", "add_create", "billing_tenant"}],
         req' \in [Request \cup {Walker} -> Local],
         walk' \in [before : Nat, seen : Seq(Id), known : SUBSET Id, asked : BOOLEAN,
                    done : BOOLEAN]
  PROVE  TypeOK'
  <1>1. tenant' \subseteq Tenant /\ lastId' \in 0..MaxId
    BY DEF TypeOK
  <1>2. \A t, u \in tenant' : t.id = u.id \/ t.name = u.name => t = u
    BY DEF TypeOK
  <1> QED
    BY <1>1, <1>2 DEF TypeOK, Local

-----------------------------------------------------------------------------
(* The walk *)

(* The walker does nothing, or stops without an answer. *)
LEMMA WalkerStill ==
  ASSUME IInv, walk' = walk, Ids(tenant) \subseteq Ids(tenant'),
         \/ pc'[Walker] = pc[Walker] /\ req'[Walker] = req[Walker]
         \/ pc'[Walker] = "idle"
  PROVE  WalkSoFar' /\ PageSoFar'
  <1>1. WalkSoFar'
    <2>1. walk'.known \subseteq Ids(tenant')
      BY DEF IInv, WalkSoFar
    <2>2. pc'[Walker] \in {"idle", "billing_tenant"} /\ (pc'[Walker] # "idle" => ~walk'.done)
      BY DEF IInv, WalkSoFar
    <2>3. /\ Descends(walk'.seen)
          /\ walk'.seen # <<>> => walk'.before = walk'.seen[Len(walk'.seen)]
          /\ \A id \in walk'.known : id \in Shown(walk'.seen) \/ After(walk'.before, id)
          /\ walk'.done => walk'.known \subseteq Shown(walk'.seen)
      BY DEF IInv, WalkSoFar
    <2> QED
      BY <2>1, <2>2, <2>3 DEF WalkSoFar, Descends, Shown, After, Ids
  <1>2. PageSoFar'
    <2>1. CASE pc'[Walker] = "idle"
      BY <2>1 DEF PageSoFar
    <2>2. CASE pc'[Walker] = pc[Walker] /\ req'[Walker] = req[Walker]
      BY <2>2 DEF IInv, PageSoFar, Descends, Shown, After
    <2> QED
      BY <2>1, <2>2
  <1> QED
    BY <1>1, <1>2

(* A page that continues the walk is added to it. *)
LEMMA PageAdded ==
  ASSUME IInv, NEW page \in Seq(Id), page # <<>>, Descends(page),
         \A j \in DOMAIN page : After(walk.before, page[j]),
         \A id \in walk.known : \/ id \in Shown(walk.seen) \/ id \in Shown(page)
                                \/ id < page[Len(page)],
         pc[Walker] = "billing_tenant", pc'[Walker] = "idle", tenant' = tenant,
         walk' = [walk EXCEPT !.seen = @ \o page, !.before = page[Len(page)]]
  PROVE  /\ WalkSoFar' /\ PageSoFar'
         /\ walk' \in [before : Nat, seen : Seq(Id), known : SUBSET Id, asked : BOOLEAN,
                       done : BOOLEAN]
  <1> DEFINE u == walk.seen \o page
  <1>1. /\ walk.seen \in Seq(Id) /\ walk.before \in Nat /\ walk.known \in SUBSET Id
        /\ MaxId \in Nat
    BY Typing DEF IInv
  <1>2. /\ walk \in [before : Nat, seen : Seq(Id), known : SUBSET Id, asked : BOOLEAN, done : BOOLEAN]
    BY DEF IInv, TypeOK
  <1>3. \A i \in DOMAIN walk.seen, j \in DOMAIN page : page[j] < walk.seen[i]
    <2> SUFFICES ASSUME NEW i \in DOMAIN walk.seen, NEW j \in DOMAIN page
                 PROVE  page[j] < walk.seen[i]
      OBVIOUS
    <2>1. /\ DOMAIN walk.seen = 1..Len(walk.seen) /\ Len(walk.seen) \in Nat
          /\ DOMAIN page = 1..Len(page)
      BY <1>1, LenProperties
    <2>2. i \in 1..Len(walk.seen) /\ j \in 1..Len(page) /\ Len(walk.seen) \in 1..Len(walk.seen)
      BY <2>1
    <2>3. walk.seen[i] \in Id /\ walk.seen[Len(walk.seen)] \in Id /\ page[j] \in Id
      BY <1>1, <2>2, ElementOfSeq
    <2>4. walk.before = walk.seen[Len(walk.seen)]
      <3>1. walk.seen # <<>>
        BY <2>2, EmptySeq
      <3> QED
        BY <3>1 DEF IInv, WalkSoFar
    <2>5. walk.seen[i] >= walk.seen[Len(walk.seen)]
      <3>1. CASE i = Len(walk.seen)
        BY <1>1, <2>3, <3>1 DEF Id
      <3>2. CASE i < Len(walk.seen)
        <4>1. walk.seen[i] > walk.seen[Len(walk.seen)]
          BY <2>1, <2>2, <3>2 DEF IInv, WalkSoFar, Descends
        <4> QED
          BY <1>1, <2>3, <4>1 DEF Id
      <3> QED
        BY <2>1, <2>2, <3>1, <3>2
    <2>6. page[j] < walk.before
      BY <1>1, <2>3, <2>4 DEF After, Id
    <2> QED
      BY <1>1, <2>3, <2>4, <2>5, <2>6 DEF Id
  <1>4. /\ u \in Seq(Id) /\ u # <<>> /\ u[Len(u)] = page[Len(page)]
        /\ Descends(u) /\ Shown(u) = Shown(walk.seen) \cup Shown(page)
    <2>1. Id \in SUBSET Nat
      BY <1>1 DEF Id
    <2>2. Descends(walk.seen)
      BY DEF IInv, WalkSoFar
    <2> QED
      BY <1>1, <1>3, <2>1, <2>2, ConcatLower
  <1> HIDE DEF u
  <1>5. page[Len(page)] \in Id
    <2>1. Len(page) \in 1..Len(page)
      BY EmptySeq
    <2> QED
      BY <2>1, ElementOfSeq
  <1>6. /\ walk'.seen = u /\ walk'.before = page[Len(page)] /\ walk'.known = walk.known
        /\ walk'.asked = walk.asked /\ walk'.done = walk.done
    BY <1>2 DEF u
  <1>7. walk' \in [before : Nat, seen : Seq(Id), known : SUBSET Id, asked : BOOLEAN, done : BOOLEAN]
    <2>1. page[Len(page)] \in Nat
      BY <1>1, <1>5 DEF Id
    <2> QED
      BY <1>2, <1>4, <2>1 DEF u
  <1>8. walk.done = FALSE
    <2>1. ~walk.done
      BY DEF IInv, WalkSoFar
    <2>2. walk.done \in BOOLEAN
      BY <1>2
    <2> QED
      BY <2>1, <2>2
  <1>9. WalkSoFar'
    <2>1. Descends(walk'.seen) /\ walk'.before = walk'.seen[Len(walk'.seen)]
      BY <1>4, <1>6
    <2>2. walk'.known \subseteq Ids(tenant')
      BY <1>6 DEF IInv, WalkSoFar
    <2>3. \A id \in walk'.known : id \in Shown(walk'.seen) \/ After(walk'.before, id)
      BY <1>4, <1>6 DEF After
    <2>4. ~walk'.done
      BY <1>6, <1>8
    <2> QED
      BY <2>1, <2>2, <2>3, <2>4 DEF WalkSoFar, Descends, Shown, After, Ids
  <1>10. PageSoFar'
    BY DEF PageSoFar
  <1> QED
    BY <1>7, <1>9, <1>10

-----------------------------------------------------------------------------
(* One lemma per action *)

LEMMA StepAddInsert ==
  ASSUME IInv, NEW r \in Request, AddInsert(r)
  PROVE  IInv'
  <1>1. /\ Walker \notin Request /\ MaxId \in Nat /\ lastId \in 0..MaxId /\ lastId < MaxId
        /\ lastId' = lastId + 1 /\ r \in Request \cup {Walker} /\ r # Walker
        /\ tenantDB' = tenantDB /\ walk' = walk /\ faults' = faults
    BY RegistryAssumption DEF AddInsert, IInv, TypeOK
  <1>2. /\ req[r] \in Local /\ tenant \subseteq Tenant /\ Ids(tenant) \subseteq Id
        /\ \A t \in tenant : t.id \in Id /\ t.id <= lastId
    <2>1. req[r] \in Local /\ tenant \subseteq Tenant /\ Ids(tenant) \subseteq Id
      BY <1>1, Typing DEF IInv, TypeOK
    <2>2. \A t \in tenant : t.id \in Id
      BY <2>1 DEF Tenant
    <2> QED
      BY <2>1, <2>2 DEF IInv, IdsUsed
  <1>3. lastId + 1 \in 0..MaxId /\ lastId + 1 \in Id
    BY <1>1 DEF Id
  <1>4. PICK name \in Name :
          \/ /\ name \notin {t.name : t \in tenant}
             /\ tenant' = tenant \cup {[id |-> lastId + 1, name |-> name]}
             /\ req' = [req EXCEPT ![r].id = lastId + 1]
             /\ Goto(r, "add_create")
          \/ Return(r) /\ tenant' = tenant
    BY DEF AddInsert
  <1>5. /\ \A t \in tenant' : t \in Tenant /\ t.id <= lastId'
        /\ Ids(tenant) \subseteq Ids(tenant')
        /\ \A t, u \in tenant' : t.id = u.id \/ t.name = u.name => t = u
    <2>0. \A t, u \in tenant : t.id = u.id \/ t.name = u.name => t = u
      BY DEF IInv, TypeOK
    <2>1. CASE tenant' = tenant
      <3>1. \A t \in tenant' : t \in Tenant
        BY <1>2, <2>1
      <3>2. \A t \in tenant' : t.id <= lastId'
        <4> SUFFICES ASSUME NEW t \in tenant PROVE t.id <= lastId + 1
          BY <1>1, <2>1
        <4> QED
          BY <1>1, <1>2 DEF Id
      <3> QED
        BY <2>0, <2>1, <3>1, <3>2
    <2>2. CASE /\ name \notin {t.name : t \in tenant}
               /\ tenant' = tenant \cup {[id |-> lastId + 1, name |-> name]}
      <3> DEFINE new == [id |-> lastId + 1, name |-> name]
      <3>1. new \in Tenant /\ new.id = lastId + 1 /\ new.name = name
        BY <1>3 DEF Tenant
      <3> HIDE DEF new
      <3>2. tenant' = tenant \cup {new}
        BY <2>2 DEF new
      <3>3. \A t \in tenant' : t \in Tenant
        BY <1>2, <3>1, <3>2
      <3>4. \A t \in tenant : t.id < lastId + 1 /\ t.name # name
        <4> SUFFICES ASSUME NEW t \in tenant PROVE t.id < lastId + 1 /\ t.name # name
          OBVIOUS
        <4>1. t.id < lastId + 1
          BY <1>1, <1>2 DEF Id
        <4>2. t.name # name
          BY <2>2
        <4> QED
          BY <4>1, <4>2
      <3>5. \A t \in tenant' : t.id <= lastId'
        <4> SUFFICES ASSUME NEW t \in tenant' PROVE t.id <= lastId + 1
          BY <1>1
        <4>1. CASE t \in tenant
          BY <1>1, <1>2, <4>1 DEF Id
        <4>2. CASE t = new
          BY <1>1, <3>1, <4>2
        <4> QED
          BY <3>2, <4>1, <4>2
      <3>6. \A t \in tenant : t.id # new.id /\ t.name # new.name
        <4> SUFFICES ASSUME NEW t \in tenant PROVE t.id # new.id /\ t.name # new.name
          OBVIOUS
        <4>1. t.id \in Nat /\ lastId \in Nat
          BY <1>1, <1>2 DEF Id
        <4> QED
          BY <3>1, <3>4, <4>1
      <3>7. \A t, u \in tenant' : t.id = u.id \/ t.name = u.name => t = u
        <4> SUFFICES ASSUME NEW t \in tenant', NEW u \in tenant', t.id = u.id \/ t.name = u.name
                     PROVE  t = u
          OBVIOUS
        <4>1. CASE t \in tenant /\ u \in tenant
          BY <2>0, <4>1
        <4>2. CASE t = new /\ u = new
          BY <4>2
        <4>3. CASE t \in tenant /\ u = new
          BY <3>6, <4>3
        <4>4. CASE t = new /\ u \in tenant
          BY <3>6, <4>4
        <4> QED
          BY <3>2, <4>1, <4>2, <4>3, <4>4
      <3>8. Ids(tenant) \subseteq Ids(tenant')
        BY <3>2 DEF Ids
      <3> QED
        BY <3>3, <3>5, <3>7, <3>8
    <2> QED
      BY <1>4, <2>1, <2>2
  <1>6. PICK label \in {"idle", "add_create"}, loc \in Local :
          /\ label = "idle" => loc = Idle
          /\ label = "add_create" => loc.id # 0
          /\ pc' = [pc EXCEPT ![r] = label] /\ req' = [req EXCEPT ![r] = loc]
    <2>1. CASE Return(r)
      <3>1. pc' = [pc EXCEPT ![r] = "idle"] /\ req' = [req EXCEPT ![r] = Idle]
        BY <2>1 DEF Return, Goto
      <3> QED
        BY <3>1, IdleType
    <2>2. CASE req' = [req EXCEPT ![r].id = lastId + 1] /\ Goto(r, "add_create")
      <3> DEFINE loc == [req[r] EXCEPT !.id = lastId + 1]
      <3>1. loc \in Local /\ loc.id # 0
        BY <1>2, <1>3 DEF Local, Id
      <3>2. req' = [req EXCEPT ![r] = loc]
        BY <2>2
      <3>3. pc' = [pc EXCEPT ![r] = "add_create"]
        BY <2>2 DEF Goto
      <3> HIDE DEF loc
      <3> QED
        BY <3>1, <3>2, <3>3
    <2> QED
      BY <1>4, <2>1, <2>2
  <1>7. /\ pc' \in [Request \cup {Walker} -> {"idle", "add_create", "billing_tenant"}]
        /\ req' \in [Request \cup {Walker} -> Local]
        /\ \A q \in (Request \cup {Walker}) \ {r} : pc'[q] = pc[q] /\ req'[q] = req[q]
        /\ LocalsFit'
    BY <1>1, <1>6, Moves
  <1>8. TypeOK'
    <2>1. tenant' \subseteq Tenant /\ lastId' \in 0..MaxId
      BY <1>1, <1>3, <1>5
    <2>2. /\ tenantDB' \subseteq Id /\ faults' \in 0..MaxFaults
          /\ walk' \in [before : Nat, seen : Seq(Id), known : SUBSET Id, asked : BOOLEAN,
                        done : BOOLEAN]
      BY <1>1 DEF IInv, TypeOK
    <2> QED
      BY <1>5, <1>7, <2>1, <2>2 DEF TypeOK, Local
  <1>9. IdsUsed'
    BY <1>5 DEF IdsUsed
  <1>10. WalkSoFar' /\ PageSoFar'
    BY <1>1, <1>5, <1>7, WalkerStill
  <1> QED
    BY <1>7, <1>8, <1>9, <1>10 DEF IInv

(* The other handlers' steps leave the rows: what is left to show of them. *)
LEMMA RowsStay ==
  ASSUME IInv, NEW r \in Request \cup {Walker}, NEW loc \in Local,
         NEW label \in {"idle", "add_create", "billing_tenant"},
         label = "idle" => loc = Idle, label = "add_create" => loc.id # 0,
         pc' = [pc EXCEPT ![r] = label], req' = [req EXCEPT ![r] = loc],
         tenant' = tenant, lastId' = lastId, tenantDB' \subseteq Id, faults' \in 0..MaxFaults,
         walk' \in [before : Nat, seen : Seq(Id), known : SUBSET Id, asked : BOOLEAN,
                    done : BOOLEAN],
         WalkSoFar', PageSoFar'
  PROVE  IInv'
  <1>1. /\ pc' \in [Request \cup {Walker} -> {"idle", "add_create", "billing_tenant"}]
        /\ req' \in [Request \cup {Walker} -> Local]
        /\ LocalsFit'
    BY Moves
  <1>2. TypeOK'
    BY <1>1, TypesKept DEF IInv
  <1>3. IdsUsed'
    BY DEF IInv, IdsUsed
  <1> QED
    BY <1>1, <1>2, <1>3 DEF IInv

(* A request that is not the walker's, or that ends without an answer. *)
LEMMA StepAside ==
  ASSUME IInv, NEW r \in Request \cup {Walker}, NEW loc \in Local,
         NEW label \in {"idle", "add_create", "billing_tenant"},
         label = "idle" => loc = Idle, label = "add_create" => loc.id # 0, r # Walker \/ label = "idle",
         pc' = [pc EXCEPT ![r] = label], req' = [req EXCEPT ![r] = loc],
         tenant' = tenant, lastId' = lastId, tenantDB' \subseteq Id, faults' \in 0..MaxFaults,
         walk' = walk
  PROVE  IInv'
  <1>1. /\ pc'[r] = label
        /\ \A q \in (Request \cup {Walker}) \ {r} : pc'[q] = pc[q] /\ req'[q] = req[q]
    BY Moves
  <1>2. WalkSoFar' /\ PageSoFar'
    <2>1. CASE r = Walker
      BY <1>1, <2>1, WalkerStill
    <2>2. CASE r # Walker
      BY <1>1, <2>2, WalkerStill
    <2> QED
      BY <2>1, <2>2
  <1>3. walk' \in [before : Nat, seen : Seq(Id), known : SUBSET Id, asked : BOOLEAN,
                   done : BOOLEAN]
    BY DEF IInv, TypeOK
  <1> QED
    BY <1>2, <1>3, RowsStay

LEMMA StepAddCreate ==
  ASSUME IInv, NEW r \in Request \cup {Walker}, AddCreate(r)
  PROVE  IInv'
  <1>1. /\ pc[r] = "add_create" /\ tenantDB' = tenantDB \cup {req[r].id}
        /\ pc' = [pc EXCEPT ![r] = "idle"] /\ req' = [req EXCEPT ![r] = Idle]
        /\ tenant' = tenant /\ lastId' = lastId /\ walk' = walk /\ faults' = faults
    BY DEF AddCreate, Return, Goto
  <1>2. req[r].id \in Id
    <2>1. req[r].id # 0
      BY <1>1 DEF IInv, LocalsFit
    <2>2. req[r].id \in 0..MaxId /\ MaxId \in Nat
      BY Typing DEF IInv
    <2> QED
      BY <2>1, <2>2 DEF Id
  <1>3. tenantDB' \subseteq Id /\ faults' \in 0..MaxFaults
    BY <1>1, <1>2 DEF IInv, TypeOK
  <1> QED
    BY <1>1, <1>3, IdleType, StepAside

LEMMA StepOtherBilling ==
  ASSUME IInv, NEW r \in Request, OtherBilling(r)
  PROVE  IInv'
  <1>1. PICK before \in Id \cup {0} : BillingSelect(r, before)
    BY DEF OtherBilling
  <1> DEFINE loc == [req[r] EXCEPT !.todo = Listed(before)]
  <1>2. /\ r \in Request \cup {Walker} /\ r # Walker
        /\ tenant' = tenant /\ lastId' = lastId /\ tenantDB' = tenantDB /\ walk' = walk
        /\ faults' = faults
    BY RegistryAssumption DEF OtherBilling
  <1>3. loc \in Local
    <2>1. Listed(before) \in SUBSET Id
      BY Typing DEF IInv, Listed
    <2>2. req[r] \in Local
      BY <1>2, Typing DEF IInv
    <2> QED
      BY <2>1, <2>2 DEF Local
  <1>4. req' = [req EXCEPT ![r] = loc] /\ pc' = [pc EXCEPT ![r] = "billing_tenant"]
    BY <1>1 DEF BillingSelect, Goto
  <1>5. tenantDB' \subseteq Id /\ faults' \in 0..MaxFaults
    BY <1>2 DEF IInv, TypeOK
  <1> HIDE DEF loc
  <1> QED
    BY <1>2, <1>3, <1>4, <1>5, StepAside

LEMMA StepStatementFails ==
  ASSUME IInv, NEW r \in Request \cup {Walker}, StatementFails(r)
  PROVE  IInv'
  <1>1. /\ pc' = [pc EXCEPT ![r] = "idle"] /\ req' = [req EXCEPT ![r] = Idle]
        /\ tenant' = tenant /\ lastId' = lastId /\ tenantDB' = tenantDB /\ walk' = walk
        /\ faults < MaxFaults /\ faults' = faults + 1
    BY DEF StatementFails, Return, Goto
  <1>2. tenantDB' \subseteq Id /\ faults' \in 0..MaxFaults
    BY <1>1, RegistryAssumption DEF IInv, TypeOK
  <1> QED
    BY <1>1, <1>2, IdleType, StepAside

LEMMA StepCrash ==
  ASSUME IInv, Crash
  PROVE  IInv'
  <1>1. /\ tenant' = tenant /\ lastId' = lastId /\ tenantDB' = tenantDB /\ walk' = walk
        /\ faults < MaxFaults /\ faults' = faults + 1
    BY DEF Crash
  <1>2. pc \in [Request \cup {Walker} -> {"idle", "add_create", "billing_tenant"}]
        /\ req \in [Request \cup {Walker} -> Local]
    BY DEF IInv, TypeOK, Local
  <1>3. /\ pc' = [r \in Request \cup {Walker} |-> "idle"]
        /\ req' = [r \in Request \cup {Walker} |-> Idle]
    BY <1>2 DEF Crash
  <1>4. /\ pc' \in [Request \cup {Walker} -> {"idle", "add_create", "billing_tenant"}]
        /\ req' \in [Request \cup {Walker} -> Local]
    BY <1>3, IdleType
  <1>5. TypeOK'
    <2>1. tenantDB' \subseteq Id /\ faults' \in 0..MaxFaults
      BY <1>1, RegistryAssumption DEF IInv, TypeOK
    <2>2. walk' \in [before : Nat, seen : Seq(Id), known : SUBSET Id, asked : BOOLEAN,
                     done : BOOLEAN]
      BY <1>1 DEF IInv, TypeOK
    <2> QED
      BY <1>1, <1>4, <2>1, <2>2, TypesKept DEF IInv
  <1>6. IdsUsed'
    BY <1>1 DEF IInv, IdsUsed
  <1>7. LocalsFit'
    BY <1>3 DEF LocalsFit
  <1>8. WalkSoFar' /\ PageSoFar'
    BY <1>1, <1>3, WalkerStill
  <1> QED
    BY <1>5, <1>6, <1>7, <1>8 DEF IInv

LEMMA StepWalkAgain ==
  ASSUME IInv, WalkAgain
  PROVE  IInv'
  <1>1. /\ tenant' = tenant /\ lastId' = lastId /\ tenantDB' = tenantDB /\ pc' = pc
        /\ req' = req /\ faults' = faults /\ walk.done /\ walk' = WalkFrom(0)
    BY DEF WalkAgain
  <1>2. /\ walk'.before = 0 /\ walk'.seen = <<>> /\ walk'.known = {}
        /\ walk'.asked = FALSE /\ walk'.done = FALSE
    BY <1>1 DEF WalkFrom
  <1>3. pc[Walker] = "idle"
    BY <1>1 DEF IInv, WalkSoFar
  <1>4. TypeOK'
    <2>1. walk' \in [before : Nat, seen : Seq(Id), known : SUBSET Id, asked : BOOLEAN,
                     done : BOOLEAN]
      <3>1. <<>> \in Seq(Id) /\ 0 \in Nat
        OBVIOUS
      <3> QED
        BY <1>1, <3>1 DEF WalkFrom
    <2>2. /\ tenantDB' \subseteq Id /\ faults' \in 0..MaxFaults
          /\ pc' \in [Request \cup {Walker} -> {"idle", "add_create", "billing_tenant"}]
          /\ req' \in [Request \cup {Walker} -> Local]
      BY <1>1 DEF IInv, TypeOK, Local
    <2> QED
      BY <1>1, <2>1, <2>2, TypesKept DEF IInv
  <1>5. IdsUsed' /\ LocalsFit'
    BY <1>1 DEF IInv, IdsUsed, LocalsFit
  <1>6. WalkSoFar'
    BY <1>1, <1>2, <1>3 DEF WalkSoFar, Descends
  <1>7. PageSoFar'
    BY <1>1, <1>3 DEF PageSoFar
  <1> QED
    BY <1>4, <1>5, <1>6, <1>7 DEF IInv

LEMMA StepWalkRequest ==
  ASSUME IInv, WalkRequest
  PROVE  IInv'
  <1> DEFINE loc == [req[Walker] EXCEPT !.todo = Listed(walk.before)]
  <1>1. /\ ~walk.done /\ pc[Walker] = "idle"
        /\ req' = [req EXCEPT ![Walker] = loc] /\ pc' = [pc EXCEPT ![Walker] = "billing_tenant"]
        /\ tenant' = tenant /\ lastId' = lastId /\ tenantDB' = tenantDB /\ faults' = faults
    BY DEF WalkRequest, BillingSelect, Goto
  <1>2. /\ walk.before \in Nat /\ walk.known \in SUBSET Id /\ Ids(tenant) \subseteq Id
        /\ req[Walker] \in Local /\ req[Walker] = Idle
    BY <1>1, Typing DEF IInv, LocalsFit
  <1>3. /\ Listed(walk.before) \in SUBSET Id
        /\ \A id : id \in Listed(walk.before) <=> id \in Ids(tenant) /\ After(walk.before, id)
    BY <1>2 DEF Listed, After
  <1>4. loc \in Local /\ loc.todo = Listed(walk.before) /\ loc.page = <<>>
    <2>1. loc \in Local /\ loc.todo = Listed(walk.before)
      BY <1>2, <1>3 DEF Local
    <2>2. loc.page = req[Walker].page
      BY <1>2 DEF Local
    <2> QED
      BY <1>2, <2>1, <2>2, IdleType
  <1> HIDE DEF loc
  <1>5. /\ pc'[Walker] = "billing_tenant" /\ req'[Walker] = loc
    BY <1>1, <1>4, Moves
  <1>6. walk \in [before : Nat, seen : Seq(Id), known : SUBSET Id, asked : BOOLEAN, done : BOOLEAN]
    BY DEF IInv, TypeOK
  <1>7. /\ walk'.before = walk.before /\ walk'.seen = walk.seen /\ walk'.done = walk.done
        /\ walk'.known = IF walk.asked THEN walk.known ELSE Listed(walk.before)
        /\ walk' \in [before : Nat, seen : Seq(Id), known : SUBSET Id, asked : BOOLEAN,
                      done : BOOLEAN]
    <2>1. CASE walk.asked
      BY <1>6, <2>1 DEF WalkRequest
    <2>2. CASE ~walk.asked
      <3>1. walk' = [walk EXCEPT !.asked = TRUE, !.known = Listed(walk.before)]
        BY <2>2 DEF WalkRequest
      <3>2. walk' \in [before : Nat, seen : Seq(Id), known : SUBSET Id, asked : BOOLEAN,
                       done : BOOLEAN]
        BY <1>3, <1>6, <3>1
      <3> QED
        BY <1>6, <2>2, <3>1, <3>2
    <2> QED
      BY <2>1, <2>2
  <1>8. \A id \in walk'.known : /\ id \in Ids(tenant)
                                /\ id \in Shown(walk.seen) \/ id \in Listed(walk.before)
    <2>1. CASE walk.asked
      <3>1. /\ walk.known \subseteq Ids(tenant)
            /\ \A id \in walk.known : id \in Shown(walk.seen) \/ After(walk.before, id)
        BY DEF IInv, WalkSoFar
      <3> QED
        BY <1>3, <1>7, <2>1, <3>1
    <2>2. CASE ~walk.asked
      BY <1>3, <1>7, <2>2
    <2> QED
      BY <2>1, <2>2
  <1>9. WalkSoFar'
    <2>1. Descends(walk'.seen)
      BY <1>7 DEF IInv, WalkSoFar
    <2>2. walk'.seen # <<>> => walk'.before = walk'.seen[Len(walk'.seen)]
      BY <1>7 DEF IInv, WalkSoFar
    <2>3. /\ walk'.known \subseteq Ids(tenant')
          /\ \A id \in walk'.known : id \in Shown(walk'.seen) \/ After(walk'.before, id)
      BY <1>1, <1>3, <1>7, <1>8
    <2>4. ~walk'.done
      BY <1>1, <1>7
    <2> QED
      BY <1>5, <2>1, <2>2, <2>3, <2>4 DEF WalkSoFar, Descends, Shown, After, Ids
  <1>10. PageSoFar'
    <2>1. Descends(loc.page) /\ DOMAIN loc.page = {}
      BY <1>4 DEF Descends
    <2>2. \A id \in loc.todo : After(walk'.before, id)
      BY <1>3, <1>4, <1>7
    <2>3. \A id \in walk'.known : id \in Shown(walk'.seen) \/ id \in loc.todo
      BY <1>4, <1>7, <1>8
    <2> QED
      BY <1>5, <2>1, <2>2, <2>3 DEF PageSoFar, Descends, Shown, After
  <1>11. tenantDB' \subseteq Id /\ faults' \in 0..MaxFaults
    BY <1>1 DEF IInv, TypeOK
  <1> QED
    BY <1>1, <1>4, <1>7, <1>9, <1>10, <1>11, RowsStay

(* The next tenant of a page, and what it leaves a walker to do. *)
NextOf(r, id, page) ==
    /\ id \in req[r].todo /\ id \in Id /\ page \in Seq(Id) /\ page # <<>>
    /\ r = Walker =>
          /\ Descends(page) /\ page[Len(page)] = id
          /\ \A i \in DOMAIN page : After(walk.before, page[i])
          /\ \A y \in req[r].todo \ {id} : \A i \in DOMAIN page : y < page[i]
          /\ \A y \in walk.known : \/ y \in Shown(walk.seen) \/ y \in Shown(page)
                                   \/ y \in req[r].todo \ {id}

LEMMA NextOnPage ==
  ASSUME IInv, NEW r \in Request \cup {Walker}, pc[r] = "billing_tenant", req[r].todo # {},
         NEW id, id = Max(req[r].todo), NEW page, page = Append(req[r].page, id)
  PROVE  NextOf(r, id, page)
  <1>1. /\ MaxId \in Nat /\ req[r].todo \in SUBSET Id /\ req[r].page \in Seq(Id)
    BY Typing DEF IInv
  <1>2. id \in req[r].todo /\ \A y \in req[r].todo : y <= id
    <2>1. req[r].todo \in SUBSET (0..MaxId)
      BY <1>1 DEF Id
    <2> QED
      BY <1>1, <2>1, MaxOf
  <1>3. id \in Id
    BY <1>1, <1>2
  <1>4. page \in Seq(Id) /\ page # <<>>
    <2>1. page \in Seq(Id) /\ Len(page) = Len(req[r].page) + 1 /\ Len(req[r].page) \in Nat
      BY <1>1, <1>3, AppendProperties, LenProperties
    <2> QED
      BY <2>1, EmptySeq
  <1>5. ASSUME r = Walker
        PROVE  /\ Descends(page) /\ page[Len(page)] = id
               /\ \A i \in DOMAIN page : After(walk.before, page[i])
               /\ \A y \in req[r].todo \ {id} : \A i \in DOMAIN page : y < page[i]
               /\ \A y \in walk.known : \/ y \in Shown(walk.seen) \/ y \in Shown(page)
                                        \/ y \in req[r].todo \ {id}
    <2> DEFINE s == req[r].page
    <2>1. /\ Descends(s)
          /\ \A i \in DOMAIN s : After(walk.before, s[i])
          /\ \A y \in req[r].todo : After(walk.before, y) /\ \A i \in DOMAIN s : y < s[i]
          /\ \A y \in walk.known : y \in Shown(walk.seen) \/ y \in Shown(s) \/ y \in req[r].todo
      BY <1>5 DEF IInv, PageSoFar
    <2>2. s \in Seq(Id) /\ Id \in SUBSET Nat /\ page = Append(s, id)
      BY <1>1 DEF Id
    <2> HIDE DEF s
    <2>3. /\ Len(page) = Len(s) + 1 /\ page[Len(page)] = id
          /\ Descends(page) /\ Shown(page) = Shown(s) \cup {id}
          /\ \A i \in DOMAIN page : /\ id <= page[i]
                                    /\ page[i] = id \/ \E j \in DOMAIN s : page[i] = s[j]
      BY <1>2, <1>3, <2>1, <2>2, AppendLower
    <2>4. \A i \in DOMAIN page : After(walk.before, page[i])
      BY <1>2, <2>1, <2>3
    <2>5. \A y \in req[r].todo \ {id} : \A i \in DOMAIN page : y < page[i]
      <3> SUFFICES ASSUME NEW y \in req[r].todo \ {id}, NEW i \in DOMAIN page PROVE y < page[i]
        OBVIOUS
      <3>1. y <= id /\ y # id /\ y \in Nat /\ id \in Nat
        BY <1>1, <1>2, <2>2
      <3>2. CASE page[i] = id
        BY <3>1, <3>2
      <3>3. CASE \E j \in DOMAIN s : page[i] = s[j]
        BY <2>1, <3>3
      <3> QED
        BY <2>3, <3>2, <3>3
    <2>6. \A y \in walk.known : \/ y \in Shown(walk.seen) \/ y \in Shown(page)
                                \/ y \in req[r].todo \ {id}
      BY <2>1, <2>3
    <2> QED
      BY <2>3, <2>4, <2>5, <2>6
  <1> QED
    BY <1>2, <1>3, <1>4, <1>5 DEF NextOf

LEMMA StepBillingTenant ==
  ASSUME IInv, NEW r \in Request \cup {Walker}, BillingTenant(r)
  PROVE  IInv'
  <1>1. PICK id : id = Max(req[r].todo)
    OBVIOUS
  <1>2. PICK page : page = Append(req[r].page, id)
    OBVIOUS
  <1>3. /\ pc[r] = "billing_tenant" /\ req[r].todo # {}
        /\ tenant' = tenant /\ lastId' = lastId /\ tenantDB' = tenantDB /\ faults' = faults
    BY DEF BillingTenant
  <1>4. \/ /\ req' = [req EXCEPT ![r].todo = @ \ {id}, ![r].page = page]
           /\ pc' = pc /\ walk' = walk
        \/ Return(r) /\ Answered(r, page)
        \/ Return(r) /\ walk' = walk
    BY <1>1, <1>2 DEF BillingTenant
  <1>0. NextOf(r, id, page)
    BY <1>1, <1>2, <1>3, NextOnPage
  <1>5. /\ id \in req[r].todo /\ id \in Id /\ page \in Seq(Id) /\ page # <<>>
        /\ r = Walker =>
              /\ Descends(page) /\ page[Len(page)] = id
              /\ \A i \in DOMAIN page : After(walk.before, page[i])
              /\ \A y \in req[r].todo \ {id} : \A i \in DOMAIN page : y < page[i]
              /\ \A y \in walk.known : \/ y \in Shown(walk.seen) \/ y \in Shown(page)
                                       \/ y \in req[r].todo \ {id}
    BY <1>0 DEF NextOf
  <1>6. tenantDB' \subseteq Id /\ faults' \in 0..MaxFaults
    BY <1>3 DEF IInv, TypeOK
  <1>7. walk \in [before : Nat, seen : Seq(Id), known : SUBSET Id, asked : BOOLEAN, done : BOOLEAN]
        /\ pc \in [Request \cup {Walker} -> {"idle", "add_create", "billing_tenant"}]
    BY DEF IInv, TypeOK
  <1>8. CASE /\ req' = [req EXCEPT ![r].todo = @ \ {id}, ![r].page = page]
             /\ pc' = pc /\ walk' = walk
    <2> DEFINE loc == [req[r] EXCEPT !.todo = @ \ {id}, !.page = page]
    <2>1. req[r] \in Local
      BY Typing DEF IInv
    <2>2. loc \in Local /\ loc.todo = req[r].todo \ {id} /\ loc.page = page
      BY <1>5, <2>1 DEF Local
    <2>3. req' = [req EXCEPT ![r] = loc] /\ pc' = [pc EXCEPT ![r] = "billing_tenant"]
      <3>1. req' = [req EXCEPT ![r] = loc]
        BY <1>8
      <3>2. pc' = [pc EXCEPT ![r] = "billing_tenant"]
        BY <1>3, <1>7, <1>8
      <3> QED
        BY <3>1, <3>2
    <2> HIDE DEF loc
    <2>4. CASE r # Walker
      BY <1>3, <1>6, <1>8, <2>2, <2>3, <2>4, StepAside
    <2>5. CASE r = Walker
      <3>1. pc'[Walker] = "billing_tenant" /\ req'[Walker] = loc
        BY <2>2, <2>3, <2>5, Moves
      <3>2. WalkSoFar'
        <4>1. /\ walk'.known \subseteq Ids(tenant') /\ pc'[Walker] = pc[Walker]
          BY <1>3, <1>8 DEF IInv, WalkSoFar
        <4> QED
          BY <1>3, <1>8, <4>1 DEF IInv, WalkSoFar, Descends, Shown, After, Ids
      <3>3. /\ Descends(loc.page)
            /\ \A i \in DOMAIN loc.page : After(walk.before, loc.page[i])
            /\ \A y \in loc.todo : \A i \in DOMAIN loc.page : y < loc.page[i]
            /\ \A y \in walk.known : \/ y \in Shown(walk.seen) \/ y \in Shown(loc.page)
                                     \/ y \in loc.todo
        BY <1>5, <2>2, <2>5
      <3>4. \A y \in loc.todo : After(walk.before, y)
        BY <1>3, <2>2, <2>5 DEF IInv, PageSoFar
      <3>5. PageSoFar'
        BY <1>8, <3>1, <3>3, <3>4 DEF PageSoFar, Descends, Shown, After
      <3> QED
        BY <1>3, <1>6, <1>7, <1>8, <2>2, <2>3, <3>2, <3>5, RowsStay
    <2> QED
      BY <2>4, <2>5
  <1>9. CASE Return(r) /\ walk' = walk
    <2>1. pc' = [pc EXCEPT ![r] = "idle"] /\ req' = [req EXCEPT ![r] = Idle]
      BY <1>9 DEF Return, Goto
    <2> QED
      BY <1>3, <1>6, <1>9, <2>1, IdleType, StepAside
  <1>10. CASE Return(r) /\ Answered(r, page)
    <2>1. pc' = [pc EXCEPT ![r] = "idle"] /\ req' = [req EXCEPT ![r] = Idle]
      BY <1>10 DEF Return, Goto
    <2>2. CASE r # Walker
      <3>1. walk' = walk
        BY <1>10, <2>2 DEF Answered
      <3> QED
        BY <1>3, <1>6, <2>1, <3>1, IdleType, StepAside
    <2>3. CASE r = Walker
      <3>1. walk' = [walk EXCEPT !.seen = @ \o page, !.before = page[Len(page)]]
        BY <1>5, <1>10, <2>3 DEF Answered
      <3>2. \A y \in walk.known : \/ y \in Shown(walk.seen) \/ y \in Shown(page)
                                  \/ y < page[Len(page)]
        <4>1. Len(page) \in DOMAIN page
          BY <1>5, EmptySeq, LenProperties
        <4> QED
          BY <1>5, <2>3, <4>1
      <3>3. pc'[Walker] = "idle"
        BY <1>7, <2>1, <2>3
      <3>4. /\ WalkSoFar' /\ PageSoFar'
            /\ walk' \in [before : Nat, seen : Seq(Id), known : SUBSET Id, asked : BOOLEAN,
                          done : BOOLEAN]
        BY <1>3, <1>5, <2>3, <3>1, <3>2, <3>3, PageAdded
      <3> QED
        BY <1>3, <1>6, <2>1, <3>4, IdleType, RowsStay
    <2> QED
      BY <2>2, <2>3
  <1> QED
    BY <1>4, <1>8, <1>9, <1>10

LEMMA StepBillingReturn ==
  ASSUME IInv, NEW r \in Request \cup {Walker}, BillingReturn(r)
  PROVE  IInv'
  <1>1. PICK page : page = req[r].page
    OBVIOUS
  <1>2. /\ pc[r] = "billing_tenant" /\ req[r].todo = {} /\ Answered(r, page)
        /\ pc' = [pc EXCEPT ![r] = "idle"] /\ req' = [req EXCEPT ![r] = Idle]
        /\ tenant' = tenant /\ lastId' = lastId /\ tenantDB' = tenantDB /\ faults' = faults
    BY <1>1 DEF BillingReturn, Return, Goto
  <1>3. tenantDB' \subseteq Id /\ faults' \in 0..MaxFaults
    BY <1>2 DEF IInv, TypeOK
  <1>4. page \in Seq(Id)
    BY <1>1, Typing DEF IInv
  <1>5. CASE r # Walker
    <2>1. walk' = walk
      BY <1>2, <1>5 DEF Answered
    <2> QED
      BY <1>2, <1>3, <2>1, IdleType, StepAside
  <1>6. CASE r = Walker
    <2>1. walk \in [before : Nat, seen : Seq(Id), known : SUBSET Id, asked : BOOLEAN, done : BOOLEAN]
          /\ pc \in [Request \cup {Walker} -> {"idle", "add_create", "billing_tenant"}]
      BY DEF IInv, TypeOK
    <2>2. pc'[Walker] = "idle"
      BY <1>2, <1>6, <2>1
    <2>3. /\ Descends(page)
          /\ \A i \in DOMAIN page : After(walk.before, page[i])
          /\ \A y \in walk.known : y \in Shown(walk.seen) \/ y \in Shown(page)
      BY <1>1, <1>2, <1>6 DEF IInv, PageSoFar
    <2>4. CASE page = <<>>
      <3>1. walk' = [walk EXCEPT !.done = TRUE]
        BY <1>2, <1>6, <2>4 DEF Answered
      <3>2. /\ walk'.before = walk.before /\ walk'.seen = walk.seen /\ walk'.known = walk.known
            /\ walk' \in [before : Nat, seen : Seq(Id), known : SUBSET Id, asked : BOOLEAN,
                          done : BOOLEAN]
        BY <2>1, <3>1
      <3>3. walk.known \subseteq Shown(walk.seen)
        <4>1. DOMAIN page = {}
          BY <2>4
        <4> QED
          BY <2>3, <4>1 DEF Shown
      <3>4. WalkSoFar'
        <4>1. /\ Descends(walk.seen)
              /\ walk.seen # <<>> => walk.before = walk.seen[Len(walk.seen)]
              /\ walk.known \subseteq Ids(tenant)
              /\ \A id \in walk.known : id \in Shown(walk.seen) \/ After(walk.before, id)
          BY DEF IInv, WalkSoFar
        <4> QED
          BY <1>2, <2>2, <3>2, <3>3, <4>1 DEF WalkSoFar, Descends, Shown, After, Ids
      <3>5. PageSoFar'
        BY <2>2 DEF PageSoFar
      <3> QED
        BY <1>2, <1>3, <3>2, <3>4, <3>5, IdleType, RowsStay
    <2>5. CASE page # <<>>
      <3>1. walk' = [walk EXCEPT !.seen = @ \o page, !.before = page[Len(page)]]
        BY <1>2, <1>6, <2>5 DEF Answered
      <3>2. /\ WalkSoFar' /\ PageSoFar'
            /\ walk' \in [before : Nat, seen : Seq(Id), known : SUBSET Id, asked : BOOLEAN,
                          done : BOOLEAN]
        BY <1>2, <1>4, <1>6, <2>2, <2>3, <2>5, <3>1, PageAdded
      <3> QED
        BY <1>2, <1>3, <3>2, IdleType, RowsStay
    <2> QED
      BY <2>4, <2>5
  <1> QED
    BY <1>5, <1>6

LEMMA StepInv == IInv /\ [Next]_vars => IInv'
  <1> SUFFICES ASSUME IInv, [Next]_vars PROVE IInv'
    OBVIOUS
  <1>1. ASSUME NEW r \in Request, AddInsert(r) PROVE IInv'
    BY <1>1, StepAddInsert
  <1>2. ASSUME NEW r \in Request, OtherBilling(r) PROVE IInv'
    BY <1>2, StepOtherBilling
  <1>3. ASSUME NEW r \in Request \cup {Walker}, AddCreate(r) PROVE IInv'
    BY <1>3, StepAddCreate
  <1>4. ASSUME NEW r \in Request \cup {Walker}, BillingTenant(r) PROVE IInv'
    BY <1>4, StepBillingTenant
  <1>5. ASSUME NEW r \in Request \cup {Walker}, BillingReturn(r) PROVE IInv'
    BY <1>5, StepBillingReturn
  <1>6. ASSUME NEW r \in Request \cup {Walker}, StatementFails(r) PROVE IInv'
    BY <1>6, StepStatementFails
  <1>7. CASE WalkRequest
    BY <1>7, StepWalkRequest
  <1>8. CASE WalkAgain
    BY <1>8, StepWalkAgain
  <1>9. CASE Crash
    BY <1>9, StepCrash
  <1>10. CASE UNCHANGED vars
    <2>1. /\ tenant' = tenant /\ lastId' = lastId /\ tenantDB' = tenantDB /\ pc' = pc
          /\ req' = req /\ walk' = walk /\ faults' = faults
      BY <1>10 DEF vars
    <2>2. TypeOK'
      BY <2>1 DEF IInv, TypeOK
    <2>3. IdsUsed' /\ LocalsFit'
      BY <2>1 DEF IInv, IdsUsed, LocalsFit
    <2>4. WalkSoFar' /\ PageSoFar'
      BY <2>1, WalkerStill
    <2> QED
      BY <2>2, <2>3, <2>4 DEF IInv
  <1>11. ASSUME NEW r \in Request \cup {Walker}, HandlerStep(r) PROVE IInv'
    BY <1>3, <1>4, <1>5, <1>11 DEF HandlerStep
  <1>12. CASE WalkStep
    BY <1>7, <1>8, <1>12 DEF WalkStep
  <1> HIDE DEF IInv
  <1> QED
    BY <1>1, <1>2, <1>6, <1>9, <1>10, <1>11, <1>12 DEF Next

LEMMA Invariant == Spec => []IInv
  BY InitInv, StepInv, PTL DEF Spec

-----------------------------------------------------------------------------
(* Theorems *)

(* The rows, the files, the locals of every request and the walk have their    *)
(* types, and no two tenants share an id or a name, as tenantsAddHandler and   *)
(* the UNIQUE KEY promise.                                                     *)
THEOREM TypeCorrect == Spec => []TypeOK
  <1>1. IInv => TypeOK
    BY DEF IInv
  <1> QED
    BY <1>1, Invariant, PTL

(* However many tenants there are and are added, whatever the page size and    *)
(* whatever fails or crashes, a walk over the pages of tenantsBillingHandler   *)
(* shows ids in descending order and, when it is over, every tenant it knew.   *)
THEOREM WalkComplete == Spec => []WalkShowsEachTenantOnce
  <1>1. IInv => WalkShowsEachTenantOnce
    BY DEF IInv, WalkSoFar, WalkShowsEachTenantOnce, Descends, Shown
  <1> QED
    BY <1>1, Invariant, PTL
=============================================================================
