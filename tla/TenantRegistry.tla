--------------------------- MODULE TenantRegistry ---------------------------
(***************************************************************************)
(* The admin API (webapp/go/isuports.go): tenantsAddHandler writes a row   *)
(* to the shared MySQL and then has sqlite3 create the tenant's own file,  *)
(* and tenantsBillingHandler walks over the rows and opens every file, ten *)
(* tenants a page.  A client of it, the benchmarker's AdminBillingScenario *)
(* (bench/scenario_admin_billing.go), follows the pages to the end while   *)
(* other clients add tenants.  What a tenant owes is TenantApi's Bill.     *)
(***************************************************************************)
EXTENDS Integers, Sequences, FiniteSets, FiniteSetsExt

CONSTANTS
    Request,        \* goroutines serving other clients
    Walker,         \* the goroutine serving AdminBillingScenario
    Name,           \* tenant names clients ask for
    InitTenant,     \* rows that exist, with their files
    FirstBefore,    \* where the first walk starts: "100" in the scenario
    PageSize,       \* tenants in a page: 10
    MaxId,          \* bound on AUTO_INCREMENT
    Faults,         \* subset of {"statement", "crash"}
    MaxFaults       \* bound on the faults of a behaviour

Id == 1..MaxId
Tenant == [id : Id, name : Name]

ASSUME RegistryAssumption ==
    /\ Walker \notin Request
    /\ MaxId \in Nat /\ MaxFaults \in Nat /\ FirstBefore \in Nat
    /\ PageSize \in Nat \ {0}
    /\ InitTenant \subseteq Tenant      \* its PRIMARY KEY and its UNIQUE KEY:
    /\ \A t, u \in InitTenant : t.id = u.id \/ t.name = u.name => t = u

VARIABLES
    tenant,     \* table tenant
    lastId,     \* its AUTO_INCREMENT
    tenantDB,   \* tenants whose file has its tables
    pc, req,    \* what each goroutine does next, and its locals
    walk,       \* the scenario: where its next request starts and what it saw
    faults      \* faults so far

vars == <<tenant, lastId, tenantDB, pc, req, walk, faults>>

Ids(rows) == {t.id : t \in rows}
Idle == [id |-> 0, todo |-> {}, page |-> <<>>]
WalkFrom(before) == [before |-> before, seen |-> <<>>, known |-> {}, asked |-> FALSE,
                     done |-> FALSE]      \* known: history, the rows at the first request

Init ==
    /\ tenant = InitTenant
    /\ lastId = Max(Ids(InitTenant) \cup {0})
    /\ tenantDB = Ids(InitTenant)
    /\ pc = [r \in Request \cup {Walker} |-> "idle"]
    /\ req = [r \in Request \cup {Walker} |-> Idle]
    /\ walk = WalkFrom(FirstBefore)
    /\ faults = 0

-----------------------------------------------------------------------------
Goto(r, label) == pc' = [pc EXCEPT ![r] = label]
Return(r) == Goto(r, "idle") /\ req' = [req EXCEPT ![r] = Idle]

(* POST /api/admin/tenants/add: the row first.  A duplicate name is refused by *)
(* the unique key, after InnoDB has taken an id for it.                        *)
AddInsert(r) ==
    /\ pc[r] = "idle" /\ lastId < MaxId
    /\ lastId' = lastId + 1
    /\ \E name \in Name :
          \/ /\ name \notin {t.name : t \in tenant}
             /\ tenant' = tenant \cup {[id |-> lastId + 1, name |-> name]}
             /\ req' = [req EXCEPT ![r].id = lastId + 1]
             /\ Goto(r, "add_create")
          \/ /\ name \in {t.name : t \in tenant}
             /\ Return(r)
             /\ UNCHANGED tenant
    /\ UNCHANGED <<tenantDB, walk, faults>>

(* createTenantDB *)
AddCreate(r) ==
    /\ pc[r] = "add_create"
    /\ tenantDB' = tenantDB \cup {req[r].id}
    /\ Return(r)
    /\ UNCHANGED <<tenant, lastId, walk, faults>>

-----------------------------------------------------------------------------
(* Mutant: a tenant whose id is before itself is not skipped. *)
ListedUpTo(before) == {id \in Ids(tenant) : before = 0 \/ id <= before}

(* The tenants the loop does not skip. *)
Listed(before) == {id \in Ids(tenant) : before = 0 \/ id < before}

(* GET /api/admin/tenants/billing?before=...: SELECT * FROM tenant, once. *)
BillingSelect(r, before) ==
    /\ pc[r] = "idle"
    /\ req' = [req EXCEPT ![r].todo = Listed(before)]
    /\ Goto(r, "billing_tenant")

OtherBilling(r) ==
    /\ \E before \in Id \cup {0} : BillingSelect(r, before)
    /\ UNCHANGED <<tenant, lastId, tenantDB, walk, faults>>

(* What the scenario does with the answer: an empty page ends the walk, an     *)
(* error is retried from the same place.                                       *)
Answered(r, page) ==
    walk' = IF r # Walker THEN walk
            ELSE IF page = <<>> THEN [walk EXCEPT !.done = TRUE]
            ELSE [walk EXCEPT !.seen = @ \o page, !.before = page[Len(page)]]

(* The loop over the tenants, by descending id: each is opened and its         *)
(* competitions are read.  mode=rw creates no file: without one the whole      *)
(* request fails.                                                              *)
BillingTenant(r) ==
    /\ pc[r] = "billing_tenant"
    /\ req[r].todo # {}
    /\ LET id == Max(req[r].todo)
           page == Append(req[r].page, id)
       IN \/ /\ id \in tenantDB
             /\ Len(page) < PageSize
             /\ req' = [req EXCEPT ![r].todo = @ \ {id}, ![r].page = page]
             /\ UNCHANGED <<pc, walk>>
          \/ /\ id \in tenantDB
             /\ Len(page) >= PageSize
             /\ Return(r)
             /\ Answered(r, page)
          \/ /\ id \notin tenantDB                          \* 500
             /\ Return(r)
             /\ UNCHANGED walk
    /\ UNCHANGED <<tenant, lastId, tenantDB, faults>>

BillingReturn(r) ==
    /\ pc[r] = "billing_tenant"
    /\ req[r].todo = {}
    /\ Return(r)
    /\ Answered(r, req[r].page)
    /\ UNCHANGED <<tenant, lastId, tenantDB, faults>>

-----------------------------------------------------------------------------
(* Mutant: no loop around the request. *)
WalkRequestOnce ==
    /\ ~walk.asked
    /\ BillingSelect(Walker, walk.before)
    /\ walk' = [walk EXCEPT !.asked = TRUE, !.known = Listed(walk.before)]
    /\ UNCHANGED <<tenant, lastId, tenantDB, faults>>

(* AdminBillingScenario: requests until a page is empty. *)
WalkRequest ==
    /\ ~walk.done
    /\ BillingSelect(Walker, walk.before)
    /\ walk' = IF walk.asked THEN walk
               ELSE [walk EXCEPT !.asked = TRUE, !.known = Listed(walk.before)]
    /\ UNCHANGED <<tenant, lastId, tenantDB, faults>>

(* The next round starts at the newest tenant.  The tenant the scenario adds   *)
(* in between is added by a Request, and this does not wait for it.            *)
WalkAgain ==
    /\ walk.done
    /\ walk' = WalkFrom(0)
    /\ UNCHANGED <<tenant, lastId, tenantDB, pc, req, faults>>

-----------------------------------------------------------------------------
(* A statement or sqlite3 fails: the handler answers 500. *)
StatementFails(r) ==
    /\ "statement" \in Faults /\ faults < MaxFaults
    /\ pc[r] # "idle"
    /\ faults' = faults + 1
    /\ Return(r)
    /\ UNCHANGED <<tenant, lastId, tenantDB, walk>>

(* The server dies and is restarted. *)
Crash ==
    /\ "crash" \in Faults /\ faults < MaxFaults
    /\ faults' = faults + 1
    /\ pc' = [r \in DOMAIN pc |-> "idle"]
    /\ req' = [r \in DOMAIN req |-> Idle]
    /\ UNCHANGED <<tenant, lastId, tenantDB, walk>>

HandlerStep(r) == AddCreate(r) \/ BillingTenant(r) \/ BillingReturn(r)
WalkStep == WalkRequest \/ WalkAgain

Next ==
    \/ \E r \in Request : AddInsert(r) \/ OtherBilling(r)
    \/ \E r \in Request \cup {Walker} : HandlerStep(r) \/ StatementFails(r)
    \/ WalkStep
    \/ Crash

Spec == Init /\ [][Next]_vars

(* Started handlers run on, and the scenario loops for as long as the load     *)
(* lasts; nobody need add a tenant.                                            *)
FairSpec ==
    /\ Spec
    /\ \A r \in Request \cup {Walker} : WF_vars(HandlerStep(r))
    /\ WF_vars(WalkStep)

-----------------------------------------------------------------------------
(* Properties *)

(* The tables, the locals of every request and the walk have their types, and  *)
(* no two tenants share an id or a name.                                       *)
TypeOK ==
    /\ tenant \subseteq Tenant /\ lastId \in 0..MaxId /\ tenantDB \subseteq Id
    /\ \A t, u \in tenant : t.id = u.id \/ t.name = u.name => t = u
    /\ pc \in [Request \cup {Walker} -> {"idle", "add_create", "billing_tenant"}]
    /\ req \in [Request \cup {Walker} -> [id : 0..MaxId, todo : SUBSET Id, page : Seq(Id)]]
    /\ walk \in [before : Nat, seen : Seq(Id), known : SUBSET Id, asked : BOOLEAN,
                 done : BOOLEAN]
    /\ faults \in 0..MaxFaults

(* A walk through the pages of tenantsBillingHandler shows ids in descending   *)
(* order, none twice, and when it is over every tenant that was there when it  *)
(* began, whatever tenants are added and whatever pages fail meanwhile.        *)
WalkShowsEachTenantOnce ==
    /\ \A i, j \in DOMAIN walk.seen : i < j => walk.seen[i] > walk.seen[j]
    /\ walk.done => walk.known \subseteq {walk.seen[i] : i \in DOMAIN walk.seen}

(* A tenant without its file whose add is no longer in progress. *)
Orphaned ==
    \E id \in Ids(tenant) \ tenantDB :
        ~ \E r \in Request : pc[r] = "add_create" /\ req[r].id = id

(* Unless an add broke off between the row and the file, the billing pages can *)
(* be walked to the end again and again, whatever fails or crashes meanwhile.  *)
WalkEndsUnlessOrphaned == []<>(walk.done \/ Orphaned)
============================================================================
