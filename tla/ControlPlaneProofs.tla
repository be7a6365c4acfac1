-------------------------- MODULE ControlPlaneProofs --------------------------
(***************************************************************************)
(* Theorems about ControlPlane, for any processes, directories and inputs. *)
(***************************************************************************)
EXTENDS ControlPlane, FiniteFacts

-----------------------------------------------------------------------------
(* The migrator.  Unless a version was undone since it began, what an Up   *)
(* has not recorded is in its selection.                                   *)
UpInv ==
  \A p \in Proc :
    /\ op[p] = "up" /\ fresh[p] => Version \subseteq table \union todo[p]
    /\ last[p] = "up" /\ fresh[p] => Version \subseteq table

(* Unless an Up and a Down overlapped: the selection of an Up is what is   *)
(* missing above some version, nothing below it is missing, and that of a  *)
(* Down is not below any version that is recorded.                         *)
Ordered == \A v \in table, u \in Version : u < v => u \in table

PrefixInv ==
  ~mixed =>
    /\ Ordered
    /\ \A p, q \in Proc : ~(op[p] = "up" /\ op[q] = "down")
    /\ \A p \in Proc : op[p] = "up" =>
         /\ Version \subseteq table \union todo[p]
         /\ \A v \in todo[p], u \in Version : v < u => u \in todo[p]
    /\ \A p \in Proc : op[p] = "down" => \A v \in todo[p], u \in table : u <= v

MigratorInv == MigratorTypeOK /\ VersionTableExact /\ UpInv /\ PrefixInv

MStep(p) == Up(p) \/ Down(p) \/ StartDown(p)

LEMMA VersionNat == MigratorTypeOK => Version \subseteq Nat
<1> SUFFICES ASSUME MigratorTypeOK, NEW v \in Version PROVE v \in Nat
  OBVIOUS
<1>1. PICK f \in dir : v = f.version
  BY DEF Version
<1>2. dir \in Directory
  BY DEF MigratorTypeOK
<1> QED
  BY <1>1, <1>2, MigrationsAssumption

(* The directory does not change, so that its versions do not.             *)
LEMMA SameVersions ==
  ASSUME dir' = dir
  PROVE  Version' = Version /\ UpSQL' = UpSQL /\ DownSQL' = DownSQL
  BY DEF Version, UpSQL, DownSQL, HasScript

LEMMA StepKeepsDir ==
  ASSUME NEW p \in Proc, MStep(p)
  PROVE  dir' = dir
  BY DEF MStep, Up, Down, StartFail, StartUp, UpCommit, UpConflict, UpFail, UpDone,
         StartDown, DownCommit, DownFail

(* What StartDown selects: the highest version recorded, or nothing.       *)
LEMMA ChoiceOfDown ==
  ASSUME NEW p \in Proc, StartDown(p)
  PROVE  \/ \E v \in Version : /\ Begin(p, "down", {v})
                               /\ \A u \in table \intersect Version : u <= v
         \/ /\ UNCHANGED <<op, todo, fresh, mixed>>
            /\ \E r \in {"down", "error"} : last' = [last EXCEPT ![p] = r]
<1> DEFINE known == table \intersect Version
<1>1. CASE \E v \in Greatest(known) \intersect DownSQL : Begin(p, "down", {v})
  <2>1. PICK v \in Greatest(known) \intersect DownSQL : Begin(p, "down", {v})
    BY <1>1
  <2>2. v \in known /\ \A u \in known : u <= v
    BY <2>1 DEF Greatest
  <2> QED
    BY <2>1, <2>2
<1>2. CASE /\ UNCHANGED <<op, todo, fresh, mixed>>
           /\ last' = [last EXCEPT ![p] = IF known = {} THEN "down" ELSE "error"]
  BY <1>2
<1> QED
  BY <1>1, <1>2 DEF StartDown, AppliedVersions

LEMMA StepType ==
  ASSUME MigratorTypeOK, NEW p \in Proc, MStep(p)
  PROVE  MigratorTypeOK'
<1> USE DEF Begin, End, MigratorTypeOK
<1> MaxDowns \in Nat /\ MaxFaults \in Nat
  BY MigrationsAssumption
<1>0. Version' = Version
  BY StepKeepsDir, SameVersions
<1>1. CASE StartFail(p)
  BY <1>0, <1>1 DEF StartFail, Fault
<1>2. CASE StartUp(p)
  BY <1>0, <1>2 DEF StartUp
<1>3. CASE UpCommit(p)
  BY <1>0, <1>3 DEF UpCommit, Least
<1>4. CASE UpConflict(p)
  BY <1>0, <1>4 DEF UpConflict
<1>5. CASE UpFail(p)
  BY <1>0, <1>5 DEF UpFail, Least, Fault
<1>6. CASE UpDone(p)
  BY <1>0, <1>6 DEF UpDone
<1>7. CASE StartDown(p)
  <2>1. ASSUME NEW v \in Version, Begin(p, "down", {v})
        PROVE  MigratorTypeOK'
    BY <1>0, <1>7, <2>1 DEF StartDown
  <2>2. ASSUME UNCHANGED <<op, todo, fresh, mixed>>,
               \E r \in {"down", "error"} : last' = [last EXCEPT ![p] = r]
        PROVE  MigratorTypeOK'
    BY <1>0, <1>7, <2>2 DEF StartDown
  <2> QED
    BY <1>7, <2>1, <2>2, ChoiceOfDown
<1>8. CASE DownCommit(p)
  BY <1>0, <1>8 DEF DownCommit, Undo
<1>9. CASE DownFail(p)
  <2>1. CASE Undo(p)
    BY <1>0, <1>9, <2>1 DEF DownFail, Undo, Fault
  <2>2. CASE UNCHANGED <<table, objects, fresh>>
    BY <1>0, <1>9, <2>2 DEF DownFail, Fault
  <2> QED
    BY <1>9, <2>1, <2>2 DEF DownFail
<1> QED
  BY <1>1, <1>2, <1>3, <1>4, <1>5, <1>6, <1>7, <1>8, <1>9 DEF MStep, Up, Down

(* A script and the record of its version commit or fail together.         *)
LEMMA StepExact ==
  ASSUME MigratorTypeOK, VersionTableExact, NEW p \in Proc, MStep(p)
  PROVE  VersionTableExact'
<1> USE DEF VersionTableExact
<1>0. UpSQL' = UpSQL
  BY StepKeepsDir, SameVersions
<1>1. CASE StartFail(p) \/ StartUp(p) \/ UpConflict(p) \/ UpDone(p) \/ StartDown(p)
  BY <1>0, <1>1 DEF StartFail, StartUp, UpConflict, UpDone, StartDown
<1>2. CASE UpCommit(p)
  BY <1>0, <1>2 DEF UpCommit
<1>3. CASE UpFail(p)
  BY <1>0, <1>3 DEF UpFail
<1>4. CASE DownCommit(p)
  BY <1>0, <1>4 DEF DownCommit, Undo
<1>5. CASE DownFail(p)
  BY <1>0, <1>5 DEF DownFail, Undo
<1> QED
  BY <1>1, <1>2, <1>3, <1>4, <1>5 DEF MStep, Up, Down

LEMMA StepUp ==
  ASSUME MigratorTypeOK, UpInv, NEW p \in Proc, MStep(p)
  PROVE  UpInv'
<1> USE DEF UpInv, MigratorTypeOK, Begin, End
<1>0. Version' = Version
  BY StepKeepsDir, SameVersions
<1>1. CASE StartFail(p)
  BY <1>0, <1>1 DEF StartFail
<1>2. CASE StartUp(p)
  BY <1>0, <1>2 DEF StartUp, AppliedVersions
<1>3. CASE UpCommit(p)
  BY <1>0, <1>3 DEF UpCommit
<1>4. CASE UpConflict(p)
  BY <1>0, <1>4 DEF UpConflict
<1>5. CASE UpFail(p)
  BY <1>0, <1>5 DEF UpFail
<1>6. CASE UpDone(p)
  BY <1>0, <1>6 DEF UpDone
<1>7. CASE StartDown(p)
  BY <1>0, <1>7 DEF StartDown
<1>8. CASE DownCommit(p)
  BY <1>0, <1>8 DEF DownCommit, Undo
<1>9. CASE DownFail(p)
  BY <1>0, <1>9 DEF DownFail, Undo
<1> QED
  BY <1>1, <1>2, <1>3, <1>4, <1>5, <1>6, <1>7, <1>8, <1>9 DEF MStep, Up, Down

LEMMA StepPrefix ==
  ASSUME MigratorTypeOK, PrefixInv, NEW p \in Proc, MStep(p)
  PROVE  PrefixInv'
<1> USE DEF PrefixInv, Ordered, MigratorTypeOK, Begin, End
<1>0. Version' = Version /\ Version \subseteq Nat
  BY StepKeepsDir, SameVersions, VersionNat
<1>1. CASE StartFail(p)
  BY <1>0, <1>1 DEF StartFail
<1>2. CASE StartUp(p)
  BY <1>0, <1>2 DEF StartUp, AppliedVersions
<1>3. CASE UpCommit(p)
  BY <1>0, <1>3 DEF UpCommit, Least
<1>4. CASE UpConflict(p)
  BY <1>0, <1>4 DEF UpConflict
<1>5. CASE UpFail(p)
  <2>1. CASE UNCHANGED <<table, objects>>
    BY <1>0, <1>5, <2>1 DEF UpFail
  <2>2. ASSUME NEW v \in Least(todo[p]) \ table, table' = table \union {v}
        PROVE  PrefixInv'
    BY <1>0, <1>5, <2>2 DEF UpFail, Least
  <2> QED
    BY <1>5, <2>1, <2>2 DEF UpFail
<1>6. CASE UpDone(p)
  BY <1>0, <1>6 DEF UpDone
<1>7. CASE StartDown(p)
  <2>1. ASSUME NEW v \in Version, Begin(p, "down", {v}),
               \A u \in table \intersect Version : u <= v
        PROVE  PrefixInv'
    <3>1. UNCHANGED table /\ op[p] = "idle"
      BY <1>7 DEF StartDown
    <3>2. ~mixed' => ~mixed /\ \A q \in Proc : op[q] # "up"
      <4>1. mixed' = (mixed \/ \E q \in Proc : {"down", op[q]} = {"up", "down"})
        BY <2>1
      <4>2. \A q \in Proc : op[q] = "up" => {"down", op[q]} = {"up", "down"}
        OBVIOUS
      <4> QED
        BY <4>1, <4>2
    <3>3. \A q \in Proc : q # p => op'[q] = op[q] /\ todo'[q] = todo[q]
      BY <2>1
    <3>4. op'[p] = "down" /\ todo'[p] = {v}
      BY <2>1
    <3> QED
      <4>1. ~mixed' => Ordered' /\ \A q \in Proc : op[q] # "up" /\ op'[q] # "up"
        BY <1>0, <3>1, <3>2, <3>3, <3>4
      <4>2. \A u \in table' : u <= v
        BY <2>1, <3>1
      <4>3. \A q \in Proc : op'[q] = "down" /\ ~mixed' => \A w \in todo'[q], u \in table' : u <= w
        BY <3>1, <3>2, <3>3, <3>4, <4>2
      <4> QED
        BY <4>1, <4>3
  <2>2. ASSUME UNCHANGED <<op, todo, fresh, mixed>>
        PROVE  PrefixInv'
    BY <1>0, <1>7, <2>2 DEF StartDown
  <2> QED
    BY <1>7, <2>1, <2>2, ChoiceOfDown
<1>8. CASE DownCommit(p)
  BY <1>0, <1>8 DEF DownCommit, Undo
<1>9. CASE DownFail(p)
  <2>1. CASE Undo(p)
    BY <1>0, <1>9, <2>1 DEF DownFail, Undo
  <2>2. CASE UNCHANGED <<table, objects, fresh>>
    BY <1>0, <1>9, <2>2 DEF DownFail
  <2> QED
    BY <1>9, <2>1, <2>2 DEF DownFail
<1> QED
  BY <1>1, <1>2, <1>3, <1>4, <1>5, <1>6, <1>7, <1>8, <1>9 DEF MStep, Up, Down

LEMMA MigratorStep ==
  ASSUME MigratorInv, NEW p \in Proc, MStep(p)
  PROVE  MigratorInv'
  BY StepType, StepExact, StepUp, StepPrefix DEF MigratorInv

(* The repositories and the clock leave the migrator alone.                *)
LEMMA MigratorStutter ==
  ASSUME MigratorInv, UNCHANGED migratorVars
  PROVE  MigratorInv'
<1>1. dir' = dir
  BY DEF migratorVars
<1>2. Version' = Version /\ UpSQL' = UpSQL
  BY <1>1, SameVersions
<1> QED
  BY <1>2 DEF migratorVars, MigratorInv, MigratorTypeOK, VersionTableExact, UpInv,
              PrefixInv, Ordered

LEMMA MigratorStart == MigratorInit => MigratorInv
<1> SUFFICES ASSUME MigratorInit PROVE MigratorInv
  OBVIOUS
<1>1. MigratorTypeOK
  <2>1. MaxDowns \in Nat /\ MaxFaults \in Nat
    BY MigrationsAssumption
  <2>2. todo \in [Proc -> SUBSET Version] /\ \A p \in Proc : todo[p] = {}
    BY DEF MigratorInit
  <2>3. fresh \in [Proc -> BOOLEAN] /\ mixed \in BOOLEAN
    BY DEF MigratorInit
  <2>4. op \in [Proc -> {"idle", "up", "down"}] /\ last \in [Proc -> {"none", "up", "down", "error"}]
    BY DEF MigratorInit
  <2> QED
    BY <2>1, <2>2, <2>3, <2>4 DEF MigratorInit, MigratorTypeOK
<1>2. VersionTableExact /\ UpInv /\ PrefixInv
  BY DEF MigratorInit, VersionTableExact, UpInv, PrefixInv, Ordered
<1> QED
  BY <1>1, <1>2 DEF MigratorInv

LEMMA MigratorNext == MigratorInv /\ [Next]_vars => MigratorInv'
<1> SUFFICES ASSUME MigratorInv, [Next]_vars PROVE MigratorInv'
  OBVIOUS
<1>1. CASE Migrate \/ Rollback
  <2>1. \E p \in Proc : MStep(p)
    BY <1>1 DEF Migrate, Rollback, MStep
  <2> QED
    BY <2>1, MigratorStep
<1>2. CASE Repositories \/ Clock \/ UNCHANGED vars
  <2>1. UNCHANGED migratorVars
    BY <1>2 DEF Repositories, Clock, vars, Call, CreateTenant, UpdateTenant, DeleteTenant,
                CreateKey, RevokeKey, CreateService, DeleteService, CreatePolicy, UpdatePolicy
  <2> QED
    BY <2>1, MigratorStutter
<1> QED
  BY <1>1, <1>2 DEF Next

LEMMA MigratorInvariant == Spec => []MigratorInv
<1>1. Init => MigratorInv
  BY MigratorStart DEF Init
<1> QED
  BY <1>1, MigratorNext, PTL DEF Spec

(* Up and Down of migrator.go keep the version table and the schema in     *)
(* step, whoever migrates at the same time and whatever fails.             *)
THEOREM VersionsExact == Spec => []VersionTableExact
<1>1. MigratorInv => VersionTableExact
  BY DEF MigratorInv
<1> QED
  BY <1>1, MigratorInvariant, PTL

(* Concurrent and failing calls of Up never skip a version.                *)
THEOREM PrefixApplied == Spec => []AppliedPrefix
<1>1. MigratorInv => AppliedPrefix
  BY DEF MigratorInv, PrefixInv, Ordered, AppliedPrefix
<1> QED
  BY <1>1, MigratorInvariant, PTL

(* An Up that succeeds leaves the schema complete until a Down.            *)
THEOREM UpCompletes == Spec => []UpComplete
<1>1. MigratorInv => UpComplete
  BY DEF MigratorInv, UpInv, UpComplete
<1> QED
  BY <1>1, MigratorInvariant, PTL

-----------------------------------------------------------------------------
(* The store. *)
StoreInv == StoreTypeOK /\ TenantIntegrity

(* Either a call fails and changes no row, or it succeeds.                 *)
LEMMA TenantCreated ==
  ASSUME StoreInv, CreateTenant
  PROVE  \/ UNCHANGED <<pg, issued>>
         \/ \E t \in Tenant :
              /\ t.id = issued + 1 /\ ValidTenant(t) /\ GetBySlug(pg, t.slug) = {}
              /\ pg' = [pg EXCEPT !.tenants = @ \union {TenantStored(t)}]
              /\ issued' = issued + 1
<1>1. PICK t \in Tenant : /\ t.id = issued + 1 /\ Call(TenantCreate(pg, t))
                          /\ issued' = IF TenantCreate(pg, t).res = "ok" THEN t.id ELSE issued
  BY DEF CreateTenant
<1>2. CASE ~ValidTenant(t) \/ GetBySlug(pg, t.slug) # {}
  BY <1>1, <1>2 DEF TenantCreate, Returns, Call
<1>3. CASE ValidTenant(t) /\ GetBySlug(pg, t.slug) = {}
  BY <1>1, <1>3 DEF TenantCreate, Returns, Call
<1> QED
  BY <1>2, <1>3

LEMMA StoredFacts ==
  ASSUME NEW t \in Tenant
  PROVE  /\ TenantStored(t).id = t.id /\ TenantStored(t).slug = t.slug
         /\ Status(t.status) \in {"active", "suspended"}
<1>1. t.status \in {"", "suspended"}
  BY DEF Tenant
<1> QED
  BY <1>1 DEF TenantStored, Status

LEMMA IssuedFacts ==
  ASSUME StoreTypeOK
  PROVE  MaxTenants \in Nat /\ issued \in Nat /\ issued <= MaxTenants
<1>1. issued \in 0 .. MaxTenants
  BY DEF StoreTypeOK
<1>2. MaxTenants \in Nat
  BY StoreAssumption
<1> QED
  BY <1>1, <1>2

LEMMA CreateTenantKeeps ==
  ASSUME StoreInv, CreateTenant
  PROVE  StoreInv'
<1> USE DEF StoreInv
<1>0. UNCHANGED <<now, objects>> /\ SchemaVersion \in objects
  BY DEF CreateTenant, Call, migratorVars
<1>1. CASE UNCHANGED <<pg, issued>>
  BY <1>0, <1>1 DEF StoreTypeOK, TenantIntegrity, HasTenant, GetByID
<1>2. ASSUME NEW t \in Tenant, t.id = issued + 1, ValidTenant(t), GetBySlug(pg, t.slug) = {},
             pg' = [pg EXCEPT !.tenants = @ \union {TenantStored(t)}],
             issued' = issued + 1
      PROVE  StoreInv'
  <2> DEFINE u == [id |-> t.id, slug |-> t.slug, status |-> Status(t.status),
                   stamped |-> TRUE]
  <2>1. pg' = [pg EXCEPT !.tenants = @ \union {u}]
    BY <1>2 DEF TenantStored
  <2>2. StoreTypeOK'
    <3>1. issued \in Nat /\ MaxTenants \in Nat /\ issued <= MaxTenants /\ t.id \in 1 .. MaxTenants
      <4>1. t.id \in -1 .. MaxTenants
        BY DEF Tenant, GivenId
      <4>2. issued \in Nat /\ MaxTenants \in Nat /\ issued <= MaxTenants
        BY IssuedFacts
      <4> QED
        BY <1>2, <4>1, <4>2
    <3>2. issued' \in 0 .. MaxTenants /\ 1 .. issued \subseteq 1 .. issued' /\ u.id \in 1 .. issued'
      BY <1>2, <3>1
    <3>3. u \in [id : 1 .. issued', slug : Slug \ {""}, status : {"active", "suspended"},
                 stamped : {TRUE}]
      BY <1>2, <3>2, StoredFacts DEF Tenant, ValidTenant
    <3> HIDE DEF u
    <3>4. pg' = [tenants |-> pg.tenants \union {u}, keys |-> pg.keys,
                 services |-> pg.services, policies |-> pg.policies]
      BY <2>1 DEF StoreTypeOK
    <3>5. pg.tenants \subseteq [id : 1 .. issued', slug : Slug \ {""},
                                status : {"active", "suspended"}, stamped : {TRUE}]
      BY <3>2 DEF StoreTypeOK
    <3> QED
      BY <1>0, <3>2, <3>3, <3>4, <3>5 DEF StoreTypeOK
  <2>3. \A x \in pg.tenants : x.id # u.id /\ x.slug # u.slug
    <3>1. \A x \in pg.tenants : x.id \in 1 .. issued
      BY DEF StoreTypeOK
    <3>2. issued \in Nat
      BY IssuedFacts
    <3> QED
      BY <1>2, <3>1, <3>2 DEF GetBySlug
  <2>4. TenantIntegrity'
    <3>1. pg'.tenants = pg.tenants \union {u} /\ pg'.keys = pg.keys
          /\ pg'.services = pg.services /\ pg'.policies = pg.policies
      BY <2>1 DEF StoreTypeOK
    <3>2. \A x, y \in pg'.tenants : x.id = y.id \/ x.slug = y.slug => x = y
      BY <2>3, <3>1 DEF TenantIntegrity
    <3> QED
      BY <1>0, <3>1, <3>2 DEF TenantIntegrity, HasTenant, GetByID
  <2> QED
    BY <2>2, <2>4
<1> QED
  BY <1>1, <1>2, TenantCreated

(* The types of the four tables, one by one.                               *)
TenantRow(n) == [id : 1 .. n, slug : Slug \ {""}, status : {"active", "suspended"},
                 stamped : {TRUE}]
KeyRow == [tenant : TenantId, hash : Hash \ {""}, status : {"active", "revoked"},
           expires : Expiry]
ServiceRow == [tenant : TenantId, name : Name \ {""}]
PolicyRow == [tenant : TenantId, days : Days \ {0}, stamped : {TRUE}]

TablesOf(db, T, K, S, P) == db = [tenants |-> T, keys |-> K, services |-> S, policies |-> P]

LEMMA TablesFacts ==
  ASSUME StoreTypeOK
  PROVE  /\ TablesOf(pg, pg.tenants, pg.keys, pg.services, pg.policies)
         /\ pg.tenants \subseteq TenantRow(issued) /\ pg.keys \subseteq KeyRow
         /\ pg.services \subseteq ServiceRow /\ pg.policies \subseteq PolicyRow
<1>1. pg \in [tenants : SUBSET TenantRow(issued), keys : SUBSET KeyRow,
              services : SUBSET ServiceRow, policies : SUBSET PolicyRow]
  BY DEF StoreTypeOK, TenantRow, KeyRow, ServiceRow, PolicyRow
<1>2. pg = [tenants |-> pg.tenants, keys |-> pg.keys, services |-> pg.services,
            policies |-> pg.policies]
  BY <1>1, Zenon
<1> QED
  BY <1>1, <1>2 DEF TablesOf

(* A call that gives tables of the right types keeps the types.            *)
LEMMA TypesKept ==
  ASSUME StoreTypeOK, UNCHANGED <<issued, now>>,
         NEW T \in SUBSET TenantRow(issued), NEW K \in SUBSET KeyRow,
         NEW S \in SUBSET ServiceRow, NEW P \in SUBSET PolicyRow,
         TablesOf(pg', T, K, S, P)
  PROVE  StoreTypeOK'
<1>1. pg' \in [tenants : SUBSET TenantRow(issued), keys : SUBSET KeyRow,
               services : SUBSET ServiceRow, policies : SUBSET PolicyRow]
  BY DEF TablesOf
<1>2. pg' \in [tenants : SUBSET TenantRow(issued'), keys : SUBSET KeyRow,
               services : SUBSET ServiceRow, policies : SUBSET PolicyRow]
  BY <1>1, Zenon
<1>3. issued' \in 0 .. MaxTenants /\ now' \in 1 .. MaxTime
  BY Zenon DEF StoreTypeOK
<1> QED
  BY <1>2, <1>3, Zenon DEF StoreTypeOK, TenantRow, KeyRow, ServiceRow, PolicyRow

(* A tenant that is in the table has an id of the right type.              *)
LEMMA KnownTenant ==
  ASSUME StoreTypeOK, NEW id, HasTenant(pg, id)
  PROVE  id \in TenantId
<1>1. PICK t \in pg.tenants : t.id = id
  BY DEF HasTenant, GetByID
<1>2. id \in 1 .. issued
  BY <1>1 DEF StoreTypeOK
<1> QED
  BY <1>2, IssuedFacts DEF TenantId

(* A new key is active.                                                    *)
LEMMA KeyStatus ==
  ASSUME NEW k \in APIKey
  PROVE  [k EXCEPT !.status = Status(@)] =
           [tenant |-> k.tenant, hash |-> k.hash, status |-> "active", expires |-> k.expires]
<1>1. k.status = "" /\ k = [tenant |-> k.tenant, hash |-> k.hash, status |-> k.status,
                            expires |-> k.expires]
  BY Zenon DEF APIKey
<1>2. \A s : [[tenant |-> k.tenant, hash |-> k.hash, status |-> k.status, expires |-> k.expires]
               EXCEPT !.status = s]
        = [tenant |-> k.tenant, hash |-> k.hash, status |-> s, expires |-> k.expires]
  OBVIOUS
<1> QED
  BY <1>1, <1>2 DEF Status

(* What a call that finds the tables leaves alone.                         *)
LEMMA CallFrame ==
  ASSUME NEW result, Call(result)
  PROVE  /\ pg' = result.db
         /\ UNCHANGED <<migratorVars, now, objects>> /\ SchemaVersion \in objects
BY DEF Call, migratorVars

(* Each call keeps the types and the constraints, action by action.       *)
LEMMA UpdateTenantKeeps ==
  ASSUME StoreInv, UpdateTenant
  PROVE  StoreInv'
<1> USE DEF StoreInv
<1>1. PICK t \in Tenant : Call(TenantUpdate(pg, t)) /\ UNCHANGED issued
  BY DEF UpdateTenant
<1>2. pg' = TenantUpdate(pg, t).db /\ UNCHANGED <<now, objects>> /\ SchemaVersion \in objects
  BY <1>1, CallFrame DEF migratorVars
<1>3. CASE pg' = pg
  BY <1>1, <1>2, <1>3 DEF StoreTypeOK, TenantIntegrity, HasTenant, GetByID
<1>4. CASE /\ ValidTenant(t) /\ HasTenant(pg, t.id)
           /\ ~\E u \in pg.tenants : u.slug = t.slug /\ u.id # t.id
           /\ pg' = [pg EXCEPT !.tenants =
                       {u \in @ : u.id # t.id} \union {TenantStored(t)}]
  <2> DEFINE u == [id |-> t.id, slug |-> t.slug, status |-> Status(t.status),
                   stamped |-> TRUE]
             rest == {x \in pg.tenants : x.id # t.id}
  <2>1. TablesOf(pg', rest \union {u}, pg.keys, pg.services, pg.policies)
    BY <1>4, TablesFacts DEF TablesOf, TenantStored
  <2>2. pg'.tenants = rest \union {u} /\ pg'.keys = pg.keys
        /\ pg'.services = pg.services /\ pg'.policies = pg.policies
    BY <2>1 DEF TablesOf
  <2>3. u \in TenantRow(issued)
    <3>1. PICK x \in pg.tenants : x.id = t.id
      BY <1>4 DEF HasTenant, GetByID
    <3>2. t.id \in 1 .. issued
      BY <3>1, TablesFacts DEF TenantRow
    <3>3. t.slug \in Slug \ {""}
      BY <1>4 DEF Tenant, ValidTenant
    <3> QED
      BY <3>2, <3>3, StoredFacts DEF TenantRow
  <2>4. StoreTypeOK'
    BY <1>1, <1>2, <2>1, <2>3, TablesFacts, TypesKept
  <2>5. \A x, y \in pg'.tenants : x.id = y.id \/ x.slug = y.slug => x = y
    BY <1>4, <2>2 DEF TenantIntegrity
  <2>6. ASSUME NEW id, HasTenant(pg, id) PROVE HasTenant(pg', id)
    <3>1. PICK x \in pg.tenants : x.id = id
      BY <2>6 DEF HasTenant, GetByID
    <3>2. CASE id = t.id
      <4>1. u \in pg'.tenants /\ u.id = id
        BY <2>2, <3>2
      <4> HIDE DEF u
      <4> QED
        BY <4>1 DEF HasTenant, GetByID
    <3>3. CASE id # t.id
      BY <2>2, <3>1, <3>3 DEF HasTenant, GetByID
    <3> QED
      BY <3>2, <3>3
  <2> QED
    BY <1>2, <2>2, <2>4, <2>5, <2>6 DEF TenantIntegrity
<1> QED
  BY <1>2, <1>3, <1>4 DEF TenantUpdate, Returns

LEMMA DeleteTenantKeeps ==
  ASSUME StoreInv, DeleteTenant
  PROVE  StoreInv'
<1> USE DEF StoreInv
<1>1. PICK id \in GivenId : Call(TenantDelete(pg, id)) /\ UNCHANGED issued
  BY DEF DeleteTenant
<1>2. pg' = TenantDelete(pg, id).db /\ UNCHANGED <<now, objects>> /\ SchemaVersion \in objects
  BY <1>1, CallFrame DEF migratorVars
<1>3. CASE pg' = pg
  BY <1>1, <1>2, <1>3 DEF StoreTypeOK, TenantIntegrity, HasTenant, GetByID
<1>4. CASE pg' = Cascade(pg, id)
  <2>1. StoreTypeOK'
    BY <1>1, <1>2, <1>4, TablesFacts, TypesKept DEF Cascade, TablesOf
  <2>2. \A x : HasTenant(pg, x) /\ x # id => HasTenant(pg', x)
    BY <1>4 DEF HasTenant, GetByID, Cascade
  <2> QED
    BY <1>2, <1>4, <2>1, <2>2 DEF TenantIntegrity, Cascade
<1> QED
  BY <1>2, <1>3, <1>4 DEF TenantDelete, Returns

LEMMA CreateKeyKeeps ==
  ASSUME StoreInv, CreateKey
  PROVE  StoreInv'
<1> USE DEF StoreInv
<1>1. PICK k \in APIKey : Call(KeyCreate(pg, k)) /\ UNCHANGED issued
  BY DEF CreateKey
<1>2. pg' = KeyCreate(pg, k).db /\ UNCHANGED <<now, objects>> /\ SchemaVersion \in objects
  BY <1>1, CallFrame DEF migratorVars
<1>3. CASE pg' = pg
  BY <1>1, <1>2, <1>3 DEF StoreTypeOK, TenantIntegrity, HasTenant, GetByID
<1>4. CASE /\ ValidKey(k) /\ HasTenant(pg, k.tenant) /\ GetByHash(pg, k.hash) = {}
           /\ pg' = [pg EXCEPT !.keys = @ \union {[k EXCEPT !.status = Status(@)]}]
  <2> DEFINE l == [tenant |-> k.tenant, hash |-> k.hash, status |-> "active", expires |-> k.expires]
  <2>1. TablesOf(pg', pg.tenants, pg.keys \union {l}, pg.services, pg.policies)
    BY <1>4, KeyStatus, TablesFacts DEF TablesOf
  <2>2. pg'.keys = pg.keys \union {l} /\ pg'.tenants = pg.tenants
        /\ pg'.services = pg.services /\ pg'.policies = pg.policies
    BY <2>1 DEF TablesOf
  <2>3. l \in KeyRow
    BY <1>4, KnownTenant DEF APIKey, ValidKey, KeyRow
  <2>4. StoreTypeOK'
    BY <1>1, <1>2, <2>1, <2>3, TablesFacts, TypesKept
  <2>5. \A x, y \in pg'.keys : x.hash = y.hash => x = y
    BY <1>4, <2>2 DEF TenantIntegrity, GetByHash
  <2> QED
    BY <1>2, <1>4, <2>2, <2>4, <2>5 DEF TenantIntegrity, HasTenant, GetByID
<1> QED
  BY <1>2, <1>3, <1>4 DEF KeyCreate, Returns

LEMMA RevokeKeyKeeps ==
  ASSUME StoreInv, RevokeKey
  PROVE  StoreInv'
<1> USE DEF StoreInv
<1>1. PICK hash \in Hash : Call(Revoke(pg, hash)) /\ UNCHANGED issued
  BY DEF RevokeKey
<1>2. pg' = Revoke(pg, hash).db /\ UNCHANGED <<now, objects>> /\ SchemaVersion \in objects
  BY <1>1, CallFrame DEF migratorVars
<1>3. CASE pg' = pg
  BY <1>1, <1>2, <1>3 DEF StoreTypeOK, TenantIntegrity, HasTenant, GetByID
<1>4. CASE pg' = [pg EXCEPT !.keys =
                   {IF k.hash = hash THEN [k EXCEPT !.status = "revoked"] ELSE k : k \in @}]
  <2> DEFINE after(k) == IF k.hash = hash THEN [k EXCEPT !.status = "revoked"] ELSE k
             K == {after(k) : k \in pg.keys}
  <2>1. TablesOf(pg', pg.tenants, K, pg.services, pg.policies)
    BY <1>4, TablesFacts DEF TablesOf
  <2>2. pg'.keys = K /\ pg'.tenants = pg.tenants
        /\ pg'.services = pg.services /\ pg'.policies = pg.policies
    BY <2>1 DEF TablesOf
  <2>3. \A k \in pg.keys : after(k) \in KeyRow /\ after(k).hash = k.hash
                            /\ after(k).tenant = k.tenant
    BY TablesFacts DEF KeyRow
  <2> HIDE DEF after
  <2>4. StoreTypeOK'
    BY <1>1, <1>2, <2>1, <2>3, TablesFacts, TypesKept
  <2>5. \A x, y \in pg'.keys : x.hash = y.hash => x = y
    BY <2>2, <2>3 DEF TenantIntegrity
  <2>6. \A x \in pg'.keys : HasTenant(pg', x.tenant)
    BY <2>2, <2>3 DEF TenantIntegrity, HasTenant, GetByID
  <2> QED
    BY <1>2, <2>2, <2>4, <2>5, <2>6 DEF TenantIntegrity, HasTenant, GetByID
<1> QED
  BY <1>2, <1>3, <1>4 DEF Revoke, Returns

LEMMA ServicesKeep ==
  ASSUME StoreInv, CreateService \/ DeleteService
  PROVE  StoreInv'
<1> USE DEF StoreInv
<1>1. PICK s \in Service : /\ Call(ServiceCreate(pg, s)) \/ Call(ServiceDelete(pg, s))
                           /\ UNCHANGED issued
  BY DEF CreateService, DeleteService
<1>2. /\ pg' = ServiceCreate(pg, s).db \/ pg' = ServiceDelete(pg, s).db
      /\ UNCHANGED <<now, objects>> /\ SchemaVersion \in objects
  BY <1>1, CallFrame DEF migratorVars
<1>3. CASE pg' = pg
  BY <1>1, <1>2, <1>3 DEF StoreTypeOK, TenantIntegrity, HasTenant, GetByID
<1>4. ASSUME NEW S \in SUBSET ServiceRow, pg' = [pg EXCEPT !.services = S],
             \A x \in S : HasTenant(pg, x.tenant)
      PROVE  StoreInv'
  <2>1. TablesOf(pg', pg.tenants, pg.keys, S, pg.policies)
    BY <1>4, TablesFacts DEF TablesOf
  <2>2. pg'.keys = pg.keys /\ pg'.tenants = pg.tenants
        /\ pg'.services = S /\ pg'.policies = pg.policies
    BY <2>1 DEF TablesOf
  <2>3. StoreTypeOK'
    BY <1>1, <1>2, <1>4, <2>1, TablesFacts, TypesKept
  <2> QED
    BY <1>2, <1>4, <2>2, <2>3 DEF TenantIntegrity, HasTenant, GetByID
<1>5. CASE ValidService(s) /\ HasTenant(pg, s.tenant)
           /\ pg' = [pg EXCEPT !.services = @ \union {s}]
  <2>1. s \in ServiceRow
    BY <1>5, KnownTenant DEF Service, ValidService, ServiceRow
  <2> QED
    <3> DEFINE S == pg.services \union {s}
    <3>1. S \in SUBSET ServiceRow /\ pg' = [pg EXCEPT !.services = S]
      BY <1>5, <2>1, TablesFacts
    <3>2. \A x \in S : HasTenant(pg, x.tenant)
      BY <1>5 DEF TenantIntegrity
    <3> HIDE DEF S
    <3> QED
      BY <1>4, <3>1, <3>2
<1>6. CASE pg' = [pg EXCEPT !.services = @ \ {s}]
  <2> DEFINE S == pg.services \ {s}
  <2>1. S \in SUBSET ServiceRow /\ pg' = [pg EXCEPT !.services = S]
    BY <1>6, TablesFacts
  <2>2. \A x \in S : HasTenant(pg, x.tenant)
    BY DEF TenantIntegrity
  <2> HIDE DEF S
  <2> QED
    BY <1>4, <2>1, <2>2
<1> QED
  BY <1>2, <1>3, <1>5, <1>6 DEF ServiceCreate, ServiceDelete, Returns

LEMMA PoliciesKeep ==
  ASSUME StoreInv, CreatePolicy \/ UpdatePolicy
  PROVE  StoreInv'
<1> USE DEF StoreInv
<1>1. PICK r \in RetentionPolicy : /\ Call(PolicyCreate(pg, r)) \/ Call(PolicyUpdate(pg, r))
                                   /\ UNCHANGED issued
  BY DEF CreatePolicy, UpdatePolicy
<1>2. /\ pg' = PolicyCreate(pg, r).db \/ pg' = PolicyUpdate(pg, r).db
      /\ UNCHANGED <<now, objects>> /\ SchemaVersion \in objects
  BY <1>1, CallFrame DEF migratorVars
<1>3. CASE pg' = pg
  BY <1>1, <1>2, <1>3 DEF StoreTypeOK, TenantIntegrity, HasTenant, GetByID
<1>4. CASE /\ ValidPolicy(r) /\ HasTenant(pg, r.tenant)
           /\ pg' = [pg EXCEPT !.policies =
                       (@ \ GetByTenant(pg, r.tenant)) \union {PolicyStored(r)}]
  <2> DEFINE P == (pg.policies \ GetByTenant(pg, r.tenant)) \union {PolicyStored(r)}
  <2>1. TablesOf(pg', pg.tenants, pg.keys, pg.services, P)
    BY <1>4, TablesFacts DEF TablesOf
  <2>2. pg'.keys = pg.keys /\ pg'.tenants = pg.tenants
        /\ pg'.services = pg.services /\ pg'.policies = P
    BY <2>1 DEF TablesOf
  <2>3. PolicyStored(r) \in PolicyRow /\ PolicyStored(r).tenant = r.tenant
    <3>1. r.days \in Days \ {0}
      BY <1>4, StoreAssumption DEF RetentionPolicy, ValidPolicy
    <3>2. r.tenant \in TenantId
      BY <1>4, KnownTenant
    <3> QED
      BY <3>1, <3>2 DEF PolicyStored, PolicyRow
  <2> HIDE DEF P
  <2>4. StoreTypeOK'
    <3>1. P \in SUBSET PolicyRow
      BY <2>3, TablesFacts DEF P
    <3> QED
      BY <1>1, <1>2, <2>1, <3>1, TablesFacts, TypesKept
  <2>5. \A x, y \in P : x.tenant = y.tenant => x = y
    BY <2>3 DEF TenantIntegrity, GetByTenant, P
  <2>6. \A x \in P : HasTenant(pg, x.tenant)
    BY <1>4, <2>3 DEF TenantIntegrity, P
  <2> QED
    BY <1>2, <2>2, <2>4, <2>5, <2>6 DEF TenantIntegrity, HasTenant, GetByID
<1>5. CASE /\ ValidPolicy(r) /\ HasTenant(pg, r.tenant) /\ GetByTenant(pg, r.tenant) = {}
           /\ pg' = [pg EXCEPT !.policies = @ \union {PolicyStored(r)}]
  BY <1>4, <1>5
<1>6. CASE /\ ValidPolicy(r) /\ GetByTenant(pg, r.tenant) # {}
           /\ pg' = [pg EXCEPT !.policies =
                       (@ \ GetByTenant(pg, r.tenant)) \union {PolicyStored(r)}]
  BY <1>4, <1>6 DEF TenantIntegrity, GetByTenant
<1> QED
  BY <1>2, <1>3, <1>5, <1>6 DEF PolicyCreate, PolicyUpdate, Returns

LEMMA RepositoriesKeep ==
  ASSUME StoreInv, Repositories
  PROVE  StoreInv'
BY CreateTenantKeeps, UpdateTenantKeeps, DeleteTenantKeeps, CreateKeyKeeps, RevokeKeyKeeps,
   ServicesKeep, PoliciesKeep DEF Repositories

(* The migrator drops all rows with the tables, or leaves them.            *)
LEMMA MigrationKeeps ==
  ASSUME MigratorInv, MigratorInv', StoreInv, Migrate \/ Rollback
  PROVE  StoreInv'
<1> USE DEF StoreInv
<1>1. CASE Rollback
  <2>1. UNCHANGED <<pg, issued, now, objects>>
    BY <1>1 DEF Rollback, StartDown
  <2> QED
    BY <2>1 DEF StoreTypeOK, TenantIntegrity, HasTenant, GetByID
<1>2. CASE Migrate /\ SchemaVersion \in objects'
  <2>1. UNCHANGED <<pg, issued, now>>
    BY <1>2 DEF Migrate, Schema
  <2> QED
    BY <1>2, <2>1 DEF StoreTypeOK, TenantIntegrity, HasTenant, GetByID
<1>3. CASE Migrate /\ SchemaVersion \notin objects'
  <2>1. pg' = NoRows /\ UNCHANGED <<issued, now>>
    BY <1>3 DEF Migrate, Schema
  <2>2. TablesOf(pg', {}, {}, {}, {})
    BY <2>1 DEF TablesOf, NoRows
  <2>3. StoreTypeOK'
    BY <2>1, <2>2, TypesKept
  <2> QED
    BY <2>1, <2>3 DEF TenantIntegrity, NoRows
<1> QED
  BY <1>1, <1>2, <1>3

LEMMA StoreStart == Init => StoreInv
<1> SUFFICES ASSUME Init PROVE StoreInv
  OBVIOUS
<1>1. pg = NoRows /\ issued = 0 /\ now = 1
  BY DEF Init
<1>2. StoreTypeOK
  BY <1>1, StoreAssumption DEF StoreTypeOK, NoRows
<1> QED
  BY <1>1, <1>2 DEF StoreInv, TenantIntegrity, NoRows

LEMMA StoreNext == MigratorInv /\ MigratorInv' /\ StoreInv /\ [Next]_vars => StoreInv'
<1> SUFFICES ASSUME MigratorInv, MigratorInv', StoreInv, [Next]_vars PROVE StoreInv'
  OBVIOUS
<1>1. CASE Clock
  <2>1. UNCHANGED <<pg, issued, objects>> /\ now' = now + 1 /\ now < MaxTime
    BY <1>1 DEF Clock, migratorVars
  <2>2. now \in 1 .. MaxTime
    BY DEF StoreInv, StoreTypeOK
  <2>3. MaxTime \in Nat
    BY StoreAssumption
  <2>4. now' \in 1 .. MaxTime
    BY <2>1, <2>2, <2>3
  <2> QED
    BY <2>1, <2>4 DEF StoreInv, StoreTypeOK, TenantIntegrity, HasTenant, GetByID
<1>2. CASE UNCHANGED vars
  BY <1>2 DEF vars, migratorVars, StoreInv, StoreTypeOK, TenantIntegrity, HasTenant, GetByID
<1> QED
  BY <1>1, <1>2, RepositoriesKeep, MigrationKeeps DEF Next

LEMMA StoreInvariant == Spec => []StoreInv
<1>1. Init => StoreInv
  BY StoreStart
<1> QED
  BY <1>1, StoreNext, MigratorInvariant, PTL DEF Spec

(* Every variable of the migrator and of the store keeps its type.         *)
THEOREM TypeCorrect == Spec => []TypeOK
<1>1. MigratorInv /\ StoreInv => TypeOK
  BY DEF MigratorInv, StoreInv, TypeOK
<1> QED
  BY <1>1, MigratorInvariant, StoreInvariant, PTL

(* Whatever is called, slugs, hashes and policies stay unique and no row   *)
(* outlives its tenant or the schema (postgres.go, the migration).         *)
THEOREM IntegrityKept == Spec => []TenantIntegrity
<1>1. StoreInv => TenantIntegrity
  BY DEF StoreInv
<1> QED
  BY <1>1, StoreInvariant, PTL

-----------------------------------------------------------------------------
(* Keys. *)

LEMMA ClockForward ==
  ASSUME StoreInv, [Next]_vars
  PROVE  now \in Nat /\ now' \in Nat /\ now <= now'
<1>1. now \in Nat
  <2>1. now \in 1 .. MaxTime
    BY DEF StoreInv, StoreTypeOK
  <2>2. MaxTime \in Nat
    BY StoreAssumption
  <2> QED
    BY <2>1, <2>2
<1>2. CASE Clock
  BY <1>1, <1>2 DEF Clock
<1>3. CASE UNCHANGED now
  BY <1>1, <1>3
<1> QED
  BY <1>2, <1>3 DEF Next, Migrate, Rollback, Repositories, Call, CreateTenant, UpdateTenant,
     DeleteTenant, CreateKey, RevokeKey, CreateService, DeleteService, CreatePolicy,
     UpdatePolicy, vars

(* Calls of the other repositories only delete keys.                       *)
LEMMA OtherCalls ==
  ASSUME StoreInv,
         \/ CreateTenant \/ UpdateTenant \/ DeleteTenant \/ CreateService \/ DeleteService
         \/ CreatePolicy \/ UpdatePolicy
  PROVE  pg'.keys \subseteq pg.keys
<1>1. ASSUME NEW result, Call(result) PROVE pg' = result.db
  BY <1>1 DEF Call
<1>2. ASSUME NEW T, pg' = [pg EXCEPT !.tenants = T] PROVE pg'.keys = pg.keys
  BY <1>2, TablesFacts DEF StoreInv, TablesOf
<1>3. ASSUME NEW S, pg' = [pg EXCEPT !.services = S] PROVE pg'.keys = pg.keys
  BY <1>3, TablesFacts DEF StoreInv, TablesOf
<1>4. ASSUME NEW P, pg' = [pg EXCEPT !.policies = P] PROVE pg'.keys = pg.keys
  BY <1>4, TablesFacts DEF StoreInv, TablesOf
<1>5. CASE CreateTenant
  BY <1>2, <1>5, TenantCreated
<1>6. CASE UpdateTenant
  <2>1. PICK t \in Tenant : pg' = TenantUpdate(pg, t).db
    BY <1>1, <1>6 DEF UpdateTenant
  <2>2. pg' = pg \/ \E T : pg' = [pg EXCEPT !.tenants = T]
    BY <2>1 DEF TenantUpdate, Returns
  <2> QED
    BY <1>2, <2>2
<1>7. CASE DeleteTenant
  <2>1. PICK id \in GivenId : pg' = TenantDelete(pg, id).db
    BY <1>1, <1>7 DEF DeleteTenant
  <2>2. pg' = pg \/ pg' = Cascade(pg, id)
    BY <2>1 DEF TenantDelete, Returns
  <2> QED
    BY <2>2 DEF Cascade
<1>8. CASE CreateService \/ DeleteService
  <2>1. PICK s \in Service : pg' = ServiceCreate(pg, s).db \/ pg' = ServiceDelete(pg, s).db
    BY <1>1, <1>8 DEF CreateService, DeleteService
  <2>2. pg' = pg \/ \E S : pg' = [pg EXCEPT !.services = S]
    BY <2>1 DEF ServiceCreate, ServiceDelete, Returns
  <2> QED
    BY <1>3, <2>2
<1>9. CASE CreatePolicy \/ UpdatePolicy
  <2>1. PICK r \in RetentionPolicy : pg' = PolicyCreate(pg, r).db \/ pg' = PolicyUpdate(pg, r).db
    BY <1>1, <1>9 DEF CreatePolicy, UpdatePolicy
  <2>2. pg' = pg \/ \E P : pg' = [pg EXCEPT !.policies = P]
    BY <2>1 DEF PolicyCreate, PolicyUpdate, Returns
  <2> QED
    BY <1>4, <2>2
<1> QED
  BY <1>5, <1>6, <1>7, <1>8, <1>9

(* What a step does to the keys: it creates one under a new hash, revokes  *)
(* one, or drops some.                                                     *)
LEMMA KeysAfter ==
  ASSUME StoreInv, [Next]_vars, NEW l \in pg'.keys
  PROVE  \/ l \in pg.keys
         \/ GetByHash(pg, l.hash) = {}
         \/ l.status = "revoked"
<1>1. CASE UNCHANGED pg
  BY <1>1
<1>2. ASSUME NEW result, Call(result) PROVE pg' = result.db
  BY <1>2 DEF Call
<1>3. CASE CreateKey
  <2>1. PICK k \in APIKey : pg' = KeyCreate(pg, k).db
    BY <1>2, <1>3 DEF CreateKey
  <2>2. CASE pg' = pg
    BY <2>2
  <2>3. CASE /\ GetByHash(pg, k.hash) = {}
             /\ pg' = [pg EXCEPT !.keys = @ \union {[k EXCEPT !.status = Status(@)]}]
    <3>1. pg'.keys = pg.keys \union
                      {[tenant |-> k.tenant, hash |-> k.hash, status |-> "active",
                        expires |-> k.expires]}
      BY <2>3, KeyStatus, TablesFacts DEF StoreInv, TablesOf
    <3> QED
      BY <2>3, <3>1
  <2> QED
    BY <2>1, <2>2, <2>3 DEF KeyCreate, Returns
<1>4. CASE RevokeKey
  <2>1. PICK hash \in Hash : pg' = Revoke(pg, hash).db
    BY <1>2, <1>4 DEF RevokeKey
  <2>2. CASE pg' = pg
    BY <2>2
  <2>3. CASE pg' = [pg EXCEPT !.keys =
                     {IF k.hash = hash THEN [k EXCEPT !.status = "revoked"] ELSE k : k \in @}]
    <3>1. pg'.keys = {IF k.hash = hash THEN [k EXCEPT !.status = "revoked"] ELSE k :
                        k \in pg.keys}
      BY <2>3, TablesFacts DEF StoreInv, TablesOf
    <3>2. PICK k \in pg.keys :
            l = IF k.hash = hash THEN [k EXCEPT !.status = "revoked"] ELSE k
      BY <3>1
    <3>3. k \in KeyRow
      BY TablesFacts DEF StoreInv
    <3> QED
      BY <3>2, <3>3 DEF KeyRow
  <2> QED
    BY <2>1, <2>2, <2>3 DEF Revoke, Returns
<1>5. CASE CreateTenant \/ UpdateTenant \/ DeleteTenant \/ CreateService \/ DeleteService
           \/ CreatePolicy \/ UpdatePolicy
  <2>1. pg'.keys \subseteq pg.keys
    BY <1>2, <1>5, OtherCalls
  <2> QED
    BY <2>1
<1>6. CASE Migrate
  BY <1>6 DEF Migrate, Schema, NoRows
<1> QED
  BY <1>1, <1>3, <1>4, <1>5, <1>6 DEF Next, Repositories, Rollback, Clock, vars

LEMMA KeysStep ==
  ASSUME StoreInv, [Next]_vars
  PROVE  \A k \in pg.keys, l \in pg'.keys :
           k.hash = l.hash /\ ~IsValid(k, now) => ~IsValid(l, now')
<1> SUFFICES ASSUME NEW k \in pg.keys, NEW l \in pg'.keys, k.hash = l.hash, ~IsValid(k, now)
             PROVE  ~IsValid(l, now')
  OBVIOUS
<1>1. CASE l.status = "revoked"
  BY <1>1 DEF IsValid
<1>2. CASE l \in pg.keys
  <2>1. l = k
    BY <1>2 DEF StoreInv, TenantIntegrity
  <2>2. now \in Nat /\ now' \in Nat /\ now <= now' /\ k.expires \in Nat
    BY ClockForward, StoreAssumption, TablesFacts DEF StoreInv, KeyRow
  <2> QED
    BY <2>1, <2>2 DEF IsValid
<1>3. CASE GetByHash(pg, l.hash) = {}
  BY <1>3 DEF GetByHash
<1> QED
  BY <1>1, <1>2, <1>3, KeysAfter

(* A key that is revoked or has expired stays invalid, whatever is called  *)
(* (IsValid of models.go, Create and Revoke of postgres.go).               *)
THEOREM InvalidStays == Spec => InvalidForGood
<1>1. StoreInv /\ [Next]_vars =>
        [\A k \in pg.keys, l \in pg'.keys :
           k.hash = l.hash /\ ~IsValid(k, now) => ~IsValid(l, now')]_vars
  BY KeysStep
<1> QED
  BY <1>1, StoreInvariant, PTL DEF Spec, InvalidForGood

-----------------------------------------------------------------------------
(***************************************************************************)
(* The mock.  Two answers agree if the results and the rows do, so each    *)
(* operation needs that the cases differ in one of the two, and that the   *)
(* constraints rule out the other ways to tell the stores apart.           *)
(***************************************************************************)
LEMMA ReturnsAgree ==
  \A a, b, r, s : Returns(a, r) = Returns(b, s) <=> a = b /\ r = s
BY DEF Returns

LEMMA TenantCreateAgrees ==
  ASSUME NEW t \in Tenant
  PROVE  TenantCreate(pg, t) = MockTenantCreate(pg, t)
<1>1. GetBySlug(pg, t.slug) # {} <=> \E u \in pg.tenants : u.slug = t.slug
  BY DEF GetBySlug
<1> QED
  BY <1>1, Zenon DEF TenantCreate, MockTenantCreate

(* The rows of tenants after one was put in the place of another.          *)
LEMMA PutTenant ==
  ASSUME StoreInv, NEW t
  PROVE  TenantPut(pg, t).tenants = {u \in pg.tenants : u.id # t.id} \union {t}
BY TablesFacts DEF StoreInv, TablesOf, TenantPut

(* A struct that was filled in is stored as it is, another without stamp.  *)
LEMMA ValidatedFacts ==
  ASSUME NEW t \in Tenant
  PROVE  /\ Validated(t).id = t.id /\ Validated(t).slug = t.slug
         /\ Validated(t).stamped = t.stamped
         /\ t.stamped => Validated(t) = TenantStored(t)
<1>1. t.stamped \in BOOLEAN /\ t = [id |-> t.id, slug |-> t.slug, status |-> t.status,
                                  stamped |-> t.stamped]
  BY Zenon DEF Tenant
<1>2. \A s : [[id |-> t.id, slug |-> t.slug, status |-> t.status, stamped |-> t.stamped]
               EXCEPT !.status = s]
        = [id |-> t.id, slug |-> t.slug, status |-> s, stamped |-> t.stamped]
  OBVIOUS
<1>3. Validated(t) = [id |-> t.id, slug |-> t.slug, status |-> Status(t.status),
                      stamped |-> t.stamped]
  BY <1>1, <1>2, Zenon DEF Validated
<1>4. ASSUME t.stamped PROVE Validated(t) = TenantStored(t)
  <2>1. t.stamped = TRUE
    BY <1>1, <1>4
  <2> QED
    BY <1>3, <2>1, Zenon DEF TenantStored
<1>5. /\ Validated(t).id = t.id /\ Validated(t).slug = t.slug
      /\ Validated(t).stamped = t.stamped
  BY <1>3
<1> QED
  BY <1>4, <1>5

LEMMA TenantUpdateAgrees ==
  ASSUME StoreInv, NEW t \in Tenant
  PROVE  AgreeUnless(\/ ValidTenant(t) /\ ~IsUUID(t.id)
                     \/ ValidTenant(t) /\ ~HasTenant(pg, t.id) /\ GetBySlug(pg, t.slug) # {}
                     \/ HasTenant(pg, t.id) /\ t.stamped # (TenantUpdate(pg, t).res = "ok"),
                     TenantUpdate(pg, t), MockTenantUpdate(pg, t))
<1> DEFINE real == TenantUpdate(pg, t)
           mock == MockTenantUpdate(pg, t)
           taken == \E u \in pg.tenants : u.slug = t.slug /\ u.id # t.id
           v == Validated(t)
           rows == [pg EXCEPT !.tenants = {u \in @ : u.id # t.id} \union {TenantStored(t)}]
<1>1. t.stamped \in BOOLEAN
  BY DEF Tenant
<1>2. /\ v.id = t.id /\ v.slug = t.slug /\ v.stamped = t.stamped
      /\ t.stamped => v = TenantStored(t)
  BY ValidatedFacts
<1>3. HasTenant(pg, t.id) => IsUUID(t.id)
  <2>1. ASSUME HasTenant(pg, t.id) PROVE t.id \in TenantId
    BY <2>1, KnownTenant DEF StoreInv
  <2>2. MaxTenants \in Nat
    BY StoreAssumption
  <2> QED
    BY <2>1, <2>2 DEF TenantId, IsUUID
<1>4. \A u \in pg.tenants : u.slug # "" /\ u.stamped = TRUE
  BY TablesFacts DEF StoreInv, TenantRow
<1>5. ~HasTenant(pg, t.id) => (taken <=> GetBySlug(pg, t.slug) # {})
  BY DEF HasTenant, GetByID, GetBySlug
<1>6. \A db, r : Returns(db, r).res = r
  BY DEF Returns
<1>8. CASE ~ValidTenant(t)
  <2>1. real = Returns(pg, "invalid") /\ mock = Returns(TenantChanged(pg, t), "invalid")
    BY <1>8 DEF TenantUpdate, MockTenantUpdate
  <2>2. real.res # "ok"
    BY <1>6, <2>1
  <2>3. TenantPut(pg, t) # pg
    <3>1. t \in TenantPut(pg, t).tenants
      BY PutTenant
    <3> QED
      BY <1>4, <1>8, <3>1 DEF ValidTenant
  <2>4. TenantChanged(pg, t) = pg <=> ~(HasTenant(pg, t.id) /\ t.stamped)
    BY <2>3 DEF TenantChanged
  <2>5. real = mock <=> ~(HasTenant(pg, t.id) /\ t.stamped)
    BY <2>1, <2>4, ReturnsAgree
  <2> HIDE DEF real, mock
  <2>6. HasTenant(pg, t.id) /\ t.stamped <=> HasTenant(pg, t.id) /\ t.stamped # (real.res = "ok")
    BY <1>1, <2>2
  <2> QED
    BY <1>8, <2>5, <2>6 DEF AgreeUnless, real, mock
<1>9. CASE ValidTenant(t) /\ ~HasTenant(pg, t.id)
  <2>1. real = IF IsUUID(t.id) THEN Returns(pg, "not found") ELSE Returns(pg, "error")
    BY <1>9 DEF TenantUpdate
  <2>2. TenantChanged(pg, v) = pg
    BY <1>2, <1>9 DEF TenantChanged
  <2>3. mock = IF taken THEN Returns(pg, "exists") ELSE Returns(pg, "not found")
    BY <1>9, <2>2 DEF MockTenantUpdate
  <2>4. real = mock <=> IsUUID(t.id) /\ ~taken
    <3>1. /\ Returns(pg, "error") # Returns(pg, "exists")
          /\ Returns(pg, "error") # Returns(pg, "not found")
          /\ Returns(pg, "not found") # Returns(pg, "exists")
      BY DEF Returns
    <3> HIDE DEF real, mock, taken
    <3> QED
      BY <2>1, <2>3, <3>1
  <2> HIDE DEF real, mock, taken
  <2> QED
    BY <1>5, <1>9, <2>4 DEF AgreeUnless, real, mock
<1>10. CASE ValidTenant(t) /\ HasTenant(pg, t.id) /\ taken
  <2>1. real = Returns(pg, "exists") /\ mock = Returns(TenantChanged(pg, v), "exists")
    BY <1>3, <1>10 DEF TenantUpdate, MockTenantUpdate
  <2>2. real.res # "ok"
    BY <1>6, <2>1
  <2>3. TenantPut(pg, v) # pg
    <3>1. v \in TenantPut(pg, v).tenants
      BY PutTenant
    <3>2. v \notin pg.tenants
      BY <1>2, <1>10 DEF StoreInv, TenantIntegrity
    <3> QED
      BY <3>1, <3>2
  <2>4. TenantChanged(pg, v) = pg <=> ~t.stamped
    BY <1>2, <1>10, <2>3 DEF TenantChanged
  <2>5. real = mock <=> ~t.stamped
    BY <2>1, <2>4, ReturnsAgree
  <2> HIDE DEF real, mock
  <2>6. t.stamped <=> t.stamped # (real.res = "ok")
    BY <1>1, <2>2
  <2> QED
    BY <1>3, <1>10, <2>5, <2>6 DEF AgreeUnless, real, mock
<1>11. CASE ValidTenant(t) /\ HasTenant(pg, t.id) /\ ~taken
  <2>1. real = Returns(rows, "ok") /\ mock = Returns(TenantPut(pg, v), "ok")
    BY <1>3, <1>11 DEF TenantUpdate, MockTenantUpdate
  <2>2. real.res = "ok"
    BY <1>6, <2>1
  <2>3. rows = TenantPut(pg, v) <=> t.stamped
    <3>1. CASE t.stamped
      BY <1>2, <3>1 DEF TenantPut
    <3>2. CASE ~t.stamped
      <4>1. v \in TenantPut(pg, v).tenants
        BY PutTenant
      <4>2. rows.tenants = {u \in pg.tenants : u.id # t.id} \union {TenantStored(t)}
        BY TablesFacts DEF StoreInv, TablesOf
      <4>3. TenantStored(t).stamped = TRUE
        BY DEF TenantStored
      <4> HIDE DEF rows, v
      <4>4. \A u \in rows.tenants : u.stamped = TRUE
        BY <1>4, <4>2, <4>3
      <4> QED
        BY <1>2, <3>2, <4>1, <4>4
    <3> QED
      BY <3>1, <3>2
  <2>4. real = mock <=> t.stamped
    BY <2>1, <2>3, ReturnsAgree
  <2> HIDE DEF real, mock
  <2>5. ~t.stamped <=> t.stamped # (real.res = "ok")
    BY <1>1, <2>2
  <2> QED
    BY <1>3, <1>11, <2>4, <2>5 DEF AgreeUnless, real, mock
<1> QED
  BY <1>8, <1>9, <1>10, <1>11

LEMMA TenantDeleteAgrees ==
  ASSUME StoreInv, NEW id \in GivenId
  PROVE  AgreeUnless(\/ ~IsUUID(id)
                     \/ KeysByTenant(pg, id) \union ServicesByTenant(pg, id)
                          \union GetByTenant(pg, id) # {},
                     TenantDelete(pg, id), MockTenantDelete(pg, id))
<1> DEFINE owned == KeysByTenant(pg, id) \union ServicesByTenant(pg, id)
                      \union GetByTenant(pg, id)
           left == {t \in pg.tenants : t.id # id}
<1>1. owned # {} => HasTenant(pg, id)
  BY DEF StoreInv, TenantIntegrity, KeysByTenant, ServicesByTenant, GetByTenant
<1>2. ASSUME HasTenant(pg, id)
      PROVE  Cascade(pg, id) = [pg EXCEPT !.tenants = {t \in @ : t.id # id}] <=> owned = {}
  <2>1. TablesOf(pg, pg.tenants, pg.keys, pg.services, pg.policies)
    BY TablesFacts DEF StoreInv
  <2>2. [pg EXCEPT !.tenants = {t \in @ : t.id # id}]
          = [tenants |-> left, keys |-> pg.keys, services |-> pg.services,
             policies |-> pg.policies]
    BY <2>1 DEF TablesOf
  <2>3. Cascade(pg, id)
          = [tenants |-> left,
             keys |-> {k \in pg.keys : k.tenant # id},
             services |-> {s \in pg.services : s.tenant # id},
             policies |-> {p \in pg.policies : p.tenant # id}]
    BY DEF Cascade
  <2>4. owned = {} <=> /\ {k \in pg.keys : k.tenant # id} = pg.keys
                       /\ {s \in pg.services : s.tenant # id} = pg.services
                       /\ {p \in pg.policies : p.tenant # id} = pg.policies
    BY DEF KeysByTenant, ServicesByTenant, GetByTenant
  <2>5. ASSUME owned = {}
        PROVE  Cascade(pg, id) = [pg EXCEPT !.tenants = {t \in @ : t.id # id}]
    BY <2>2, <2>3, <2>4, <2>5, Zenon
  <2>6. ASSUME Cascade(pg, id) = [pg EXCEPT !.tenants = {t \in @ : t.id # id}]
        PROVE  owned = {}
    <3>1. /\ Cascade(pg, id).keys = {k \in pg.keys : k.tenant # id}
          /\ Cascade(pg, id).services = {s \in pg.services : s.tenant # id}
          /\ Cascade(pg, id).policies = {p \in pg.policies : p.tenant # id}
      BY DEF Cascade
    <3>2. /\ [pg EXCEPT !.tenants = {t \in @ : t.id # id}].keys = pg.keys
          /\ [pg EXCEPT !.tenants = {t \in @ : t.id # id}].services = pg.services
          /\ [pg EXCEPT !.tenants = {t \in @ : t.id # id}].policies = pg.policies
      BY <2>2
    <3> QED
      BY <2>4, <2>6, <3>1, <3>2, Zenon
  <2> QED
    BY <2>5, <2>6, Zenon
<1>3. CASE ~HasTenant(pg, id)
  <2>1. TenantDelete(pg, id) = IF IsUUID(id) THEN Returns(pg, "not found")
                                            ELSE Returns(pg, "error")
    BY <1>3 DEF TenantDelete
  <2>2. MockTenantDelete(pg, id) = Returns(pg, "not found")
    BY <1>3 DEF MockTenantDelete
  <2>3. Returns(pg, "not found") # Returns(pg, "error")
    BY DEF Returns
  <2> HIDE DEF owned
  <2>4. TenantDelete(pg, id) = MockTenantDelete(pg, id) <=> IsUUID(id)
    BY <2>1, <2>2, <2>3
  <2> QED
    BY <1>1, <1>3, <2>4 DEF AgreeUnless, owned
<1>4. CASE HasTenant(pg, id)
  <2>0. IsUUID(id)
    <3>1. id \in TenantId /\ MaxTenants \in Nat
      BY <1>4, KnownTenant, StoreAssumption DEF StoreInv
    <3> QED
      BY <3>1 DEF TenantId, IsUUID
  <2>1. /\ TenantDelete(pg, id) = Returns(Cascade(pg, id), "ok")
        /\ MockTenantDelete(pg, id)
             = Returns([pg EXCEPT !.tenants = {t \in @ : t.id # id}], "ok")
    BY <1>4, <2>0 DEF TenantDelete, MockTenantDelete
  <2> QED
    <3> HIDE DEF owned
    <3>1. TenantDelete(pg, id) = MockTenantDelete(pg, id) <=> owned = {}
      <4> DEFINE kept == [pg EXCEPT !.tenants = {t \in @ : t.id # id}]
                 gone == Cascade(pg, id)
      <4>1. gone = kept <=> owned = {}
        BY <1>2, <1>4
      <4>2. TenantDelete(pg, id) = Returns(gone, "ok") /\ MockTenantDelete(pg, id) = Returns(kept, "ok")
        BY <2>1
      <4> HIDE DEF kept, gone
      <4>3. Returns(gone, "ok") = Returns(kept, "ok") <=> gone = kept
        BY ReturnsAgree
      <4> QED
        BY <4>1, <4>2, <4>3
    <3> QED
      BY <2>0, <3>1 DEF AgreeUnless, owned
<1> QED
  BY <1>3, <1>4

LEMMA KeyCreateAgrees ==
  ASSUME NEW k \in APIKey
  PROVE  AgreeUnless(ValidKey(k) /\ (~HasTenant(pg, k.tenant) \/ GetByHash(pg, k.hash) # {}),
                     KeyCreate(pg, k), MockKeyCreate(pg, k))
<1> DEFINE refused == ~HasTenant(pg, k.tenant) \/ GetByHash(pg, k.hash) # {}
<1>1. CASE ~ValidKey(k)
  BY <1>1 DEF AgreeUnless, KeyCreate, MockKeyCreate
<1>2. CASE ValidKey(k) /\ refused
  <2>1. /\ KeyCreate(pg, k) = Returns(pg, "error")
        /\ \E db : MockKeyCreate(pg, k) = Returns(db, "ok")
    BY <1>2 DEF KeyCreate, MockKeyCreate
  <2>2. KeyCreate(pg, k) # MockKeyCreate(pg, k)
    BY <2>1, ReturnsAgree
  <2> QED
    BY <1>2, <2>2 DEF AgreeUnless
<1>3. CASE ValidKey(k) /\ ~refused
  <2>1. {l \in pg.keys : l.hash # k.hash} = pg.keys
    BY <1>3 DEF GetByHash
  <2>2. /\ KeyCreate(pg, k)
             = Returns([pg EXCEPT !.keys = pg.keys \union {[k EXCEPT !.status = Status(@)]}],
                       "ok")
        /\ MockKeyCreate(pg, k)
             = Returns([pg EXCEPT !.keys = {l \in pg.keys : l.hash # k.hash}
                                             \union {[k EXCEPT !.status = Status(@)]}], "ok")
    BY <1>3 DEF KeyCreate, MockKeyCreate
  <2>3. KeyCreate(pg, k) = MockKeyCreate(pg, k)
    BY <2>1, <2>2, Zenon
  <2> QED
    BY <1>3, <2>3 DEF AgreeUnless
<1> QED
  BY <1>1, <1>2, <1>3

LEMMA KeyCallsAgree ==
  ASSUME NEW hash \in Hash
  PROVE  /\ AgreeUnless(FALSE, Revoke(pg, hash), MockRevoke(pg, hash))
         /\ AgreeUnless(GetByHash(pg, hash) = {},
                        UpdateLastUsed(pg, hash), MockUpdateLastUsed(pg, hash))
<1>1. GetByHash(pg, hash) # {} <=> \E k \in pg.keys : k.hash = hash
  BY DEF GetByHash
<1>2. Revoke(pg, hash) = MockRevoke(pg, hash)
  BY <1>1, Zenon DEF Revoke, MockRevoke
<1>3. Returns(pg, "ok") # Returns(pg, "not found")
  BY DEF Returns
<1>4. UpdateLastUsed(pg, hash) = MockUpdateLastUsed(pg, hash) <=> GetByHash(pg, hash) # {}
  <2>1. CASE GetByHash(pg, hash) # {}
    BY <1>1, <2>1 DEF UpdateLastUsed, MockUpdateLastUsed
  <2>2. CASE GetByHash(pg, hash) = {}
    <3>1. MockUpdateLastUsed(pg, hash) = Returns(pg, "not found")
      BY <1>1, <2>2 DEF MockUpdateLastUsed
    <3> QED
      BY <1>3, <2>2, <3>1 DEF UpdateLastUsed
  <2> QED
    BY <2>1, <2>2
<1> QED
  BY <1>2, <1>4 DEF AgreeUnless

LEMMA ServiceCreateAgrees ==
  ASSUME StoreInv, NEW s \in Service
  PROVE  AgreeUnless(ValidService(s) /\ ~HasTenant(pg, s.tenant),
                     ServiceCreate(pg, s), MockServiceCreate(pg, s))
<1>1. GetByName(pg, s.tenant, s.name) # {} <=> s \in pg.services
  <2>1. \A r \in pg.services : r.tenant = s.tenant /\ r.name = s.name => r = s
    <3> SUFFICES ASSUME NEW r \in pg.services, r.tenant = s.tenant, r.name = s.name
                 PROVE  r = s
      OBVIOUS
    <3>1. r \in ServiceRow
      BY TablesFacts DEF StoreInv
    <3>2. r = [tenant |-> r.tenant, name |-> r.name]
      BY <3>1, Zenon DEF ServiceRow
    <3>3. s = [tenant |-> s.tenant, name |-> s.name]
      BY Zenon DEF Service
    <3> QED
      BY <3>2, <3>3
  <2> QED
    BY <2>1 DEF GetByName
<1>2. s \in pg.services => HasTenant(pg, s.tenant)
  BY DEF StoreInv, TenantIntegrity
<1>3. CASE ~ValidService(s)
  BY <1>3 DEF AgreeUnless, ServiceCreate, MockServiceCreate
<1>4. CASE ValidService(s) /\ s \in pg.services
  BY <1>1, <1>2, <1>4 DEF AgreeUnless, ServiceCreate, MockServiceCreate
<1>5. CASE ValidService(s) /\ s \notin pg.services /\ HasTenant(pg, s.tenant)
  BY <1>1, <1>5 DEF AgreeUnless, ServiceCreate, MockServiceCreate
<1>6. CASE ValidService(s) /\ s \notin pg.services /\ ~HasTenant(pg, s.tenant)
  <2>1. /\ ServiceCreate(pg, s) = Returns(pg, "error")
        /\ \E db : MockServiceCreate(pg, s) = Returns(db, "ok")
    BY <1>1, <1>6 DEF ServiceCreate, MockServiceCreate
  <2>2. ServiceCreate(pg, s) # MockServiceCreate(pg, s)
    BY <2>1, ReturnsAgree
  <2> QED
    BY <1>6, <2>2 DEF AgreeUnless
<1> QED
  BY <1>3, <1>4, <1>5, <1>6

LEMMA PolicyCreateAgrees ==
  ASSUME NEW r \in RetentionPolicy
  PROVE  AgreeUnless(ValidPolicy(r) /\ (~HasTenant(pg, r.tenant)
                                          \/ GetByTenant(pg, r.tenant) # {}),
                     PolicyCreate(pg, r), MockPolicyCreate(pg, r))
<1> DEFINE refused == ~HasTenant(pg, r.tenant) \/ GetByTenant(pg, r.tenant) # {}
<1>1. CASE ~ValidPolicy(r)
  BY <1>1 DEF AgreeUnless, PolicyCreate, MockPolicyCreate
<1>2. CASE ValidPolicy(r) /\ refused
  <2>1. /\ PolicyCreate(pg, r) = Returns(pg, "error")
        /\ \E db : MockPolicyCreate(pg, r) = Returns(db, "ok")
    BY <1>2 DEF PolicyCreate, MockPolicyCreate
  <2>2. PolicyCreate(pg, r) # MockPolicyCreate(pg, r)
    BY <2>1, ReturnsAgree
  <2> QED
    BY <1>2, <2>2 DEF AgreeUnless
<1>3. CASE ValidPolicy(r) /\ ~refused
  <2>1. {q \in pg.policies : q.tenant # r.tenant} = pg.policies
    BY <1>3 DEF GetByTenant
  <2>2. /\ PolicyCreate(pg, r)
             = Returns([pg EXCEPT !.policies = pg.policies \union {PolicyStored(r)}], "ok")
        /\ MockPolicyCreate(pg, r)
             = Returns([pg EXCEPT !.policies = {q \in pg.policies : q.tenant # r.tenant}
                                                 \union {PolicyStored(r)}], "ok")
    <3>1. PolicyStored(r).tenant = r.tenant
      BY DEF PolicyStored
    <3> QED
      BY <1>3, <3>1 DEF PolicyCreate, MockPolicyCreate, PolicyPut
  <2>3. PolicyCreate(pg, r) = MockPolicyCreate(pg, r)
    BY <2>1, <2>2, Zenon
  <2> QED
    BY <1>3, <2>3 DEF AgreeUnless
<1> QED
  BY <1>1, <1>2, <1>3

LEMMA PolicyUpdateAgrees ==
  ASSUME StoreInv, NEW r \in RetentionPolicy
  PROVE  AgreeUnless(\/ ValidPolicy(r) /\ ~IsUUID(r.tenant)
                     \/ /\ GetByTenant(pg, r.tenant) # {}
                        /\ r.stamped # (PolicyUpdate(pg, r).res = "ok"),
                     PolicyUpdate(pg, r), MockPolicyUpdate(pg, r))
<1> DEFINE real == PolicyUpdate(pg, r)
           mock == MockPolicyUpdate(pg, r)
           has == GetByTenant(pg, r.tenant) # {}
           rows == [pg EXCEPT !.policies =
                      (@ \ GetByTenant(pg, r.tenant)) \union {PolicyStored(r)}]
<1>1. r.stamped \in BOOLEAN /\ r.days \in Nat
  BY StoreAssumption DEF RetentionPolicy
<1>2. \A p \in pg.policies : p.days \in Nat /\ p.days > 0 /\ p.stamped = TRUE
  <2>1. \A p \in pg.policies : p.days \in Days \ {0} /\ p.stamped = TRUE
    BY TablesFacts DEF StoreInv, PolicyRow
  <2>2. \A d \in Days \ {0} : d \in Nat /\ d > 0
    BY StoreAssumption
  <2> QED
    BY <2>1, <2>2
<1>3. has => IsUUID(r.tenant)
  <2>1. ASSUME has PROVE r.tenant \in TenantId /\ MaxTenants \in Nat
    <3>1. PICK p \in pg.policies : p.tenant = r.tenant
      BY <2>1 DEF GetByTenant
    <3> QED
      BY <3>1, TablesFacts, StoreAssumption DEF StoreInv, PolicyRow
  <2> QED
    BY <2>1 DEF TenantId, IsUUID
<1>4. \A db, x : Returns(db, x).res = x
  BY DEF Returns
<1>5. PolicyPut(pg, r).policies = {q \in pg.policies : q.tenant # r.tenant} \union {r}
  BY TablesFacts DEF StoreInv, TablesOf, PolicyPut
<1>6. r.stamped => PolicyStored(r) = r
  <2>1. r = [tenant |-> r.tenant, days |-> r.days, stamped |-> r.stamped]
    BY Zenon DEF RetentionPolicy
  <2> QED
    BY <1>1, <2>1 DEF PolicyStored
<1>7. CASE ~ValidPolicy(r)
  <2>1. real = Returns(pg, "invalid") /\ mock = Returns(PolicyChanged(pg, r), "invalid")
    BY <1>7 DEF PolicyUpdate, MockPolicyUpdate
  <2>2. real.res # "ok"
    BY <1>4, <2>1
  <2>3. ASSUME has PROVE PolicyPut(pg, r) # pg
    <3>1. r.tenant # 0
      BY <1>3, <2>3 DEF IsUUID
    <3>2. ~(r.days > 0)
      BY <1>7, <3>1 DEF ValidPolicy
    <3>3. r \in PolicyPut(pg, r).policies
      BY <1>5
    <3> QED
      BY <1>2, <3>2, <3>3
  <2>4. PolicyChanged(pg, r) = pg <=> ~(has /\ r.stamped)
    BY <2>3 DEF PolicyChanged
  <2>5. real = mock <=> ~(has /\ r.stamped)
    BY <2>1, <2>4, ReturnsAgree
  <2> HIDE DEF real, mock, has
  <2>6. has /\ r.stamped <=> has /\ r.stamped # (real.res = "ok")
    BY <1>1, <2>2
  <2> QED
    BY <1>7, <2>5, <2>6 DEF AgreeUnless, real, mock, has
<1>8. CASE ValidPolicy(r) /\ ~has
  <2>1. real = IF IsUUID(r.tenant) THEN Returns(pg, "not found") ELSE Returns(pg, "error")
    BY <1>8 DEF PolicyUpdate
  <2>2. mock = Returns(pg, "not found")
    BY <1>8 DEF MockPolicyUpdate
  <2>3. Returns(pg, "not found") # Returns(pg, "error")
    BY DEF Returns
  <2> HIDE DEF real, mock, has
  <2>4. real = mock <=> IsUUID(r.tenant)
    BY <2>1, <2>2, <2>3
  <2> QED
    BY <1>8, <2>4 DEF AgreeUnless, real, mock, has
<1>9. CASE ValidPolicy(r) /\ has
  <2>1. real = Returns(rows, "ok") /\ mock = Returns(PolicyPut(pg, r), "ok")
    BY <1>3, <1>9 DEF PolicyUpdate, MockPolicyUpdate
  <2>2. real.res = "ok"
    BY <1>4, <2>1
  <2>3. rows = PolicyPut(pg, r) <=> r.stamped
    <3>1. pg.policies \ GetByTenant(pg, r.tenant) = {q \in pg.policies : q.tenant # r.tenant}
      BY DEF GetByTenant
    <3>2. CASE r.stamped
      BY <1>6, <3>1, <3>2 DEF PolicyPut
    <3>3. CASE ~r.stamped
      <4>1. r \in PolicyPut(pg, r).policies
        BY <1>5
      <4>2. rows.policies = (pg.policies \ GetByTenant(pg, r.tenant)) \union {PolicyStored(r)}
        BY TablesFacts DEF StoreInv, TablesOf
      <4>3. \A p \in rows.policies : p.stamped = TRUE
        BY <1>2, <4>2 DEF PolicyStored
      <4> QED
        BY <3>3, <4>1, <4>3
    <3> QED
      BY <3>2, <3>3
  <2>4. real = mock <=> r.stamped
    BY <2>1, <2>3, ReturnsAgree
  <2> HIDE DEF real, mock, has
  <2>5. ~r.stamped <=> r.stamped # (real.res = "ok")
    BY <1>1, <2>2
  <2> QED
    BY <1>3, <1>9, <2>4, <2>5 DEF AgreeUnless, real, mock, has
<1> QED
  BY <1>7, <1>8, <1>9

(* The list of the store is one of those the mock may give: there are      *)
(* finitely many tenants, as their ids differ and were all issued.         *)
LEMMA ListAgrees ==
  ASSUME StoreInv
  PROVE  List(pg) \in MockList(pg)
<1> DEFINE T == pg.tenants
           key == [t \in T |-> t.id]
<1>1. /\ \A t \in T : t.id \in 1 .. issued
      /\ issued \in Nat
  BY IssuedFacts DEF StoreInv, StoreTypeOK
<1>2. \A t, u \in T : t.id = u.id => t = u
  BY DEF StoreInv, TenantIntegrity
<1> HIDE DEF T
<1>3. key \in Injection(T, 1 .. issued) /\ key \in [T -> Nat]
  BY <1>1, <1>2 DEF Injection, IsInjective
<1>4. IsFiniteSet(T)
  BY <1>1, <1>3, FS_Interval, FS_Injection
<1>5. \A t, u \in T : key[t] = key[u] => t = u
  BY <1>2
<1>6. \E s \in [1 .. Cardinality(T) -> T] :
        \A i, j \in DOMAIN s : i < j => key[s[i]] < key[s[j]]
  <2> HIDE DEF key
  <2> QED
    BY <1>3, <1>4, <1>5, SortedList
<1>7. \A s \in [1 .. Cardinality(T) -> T] : \A i \in DOMAIN s : key[s[i]] = s[i].id
  OBVIOUS
<1>8. \E s \in [1 .. Cardinality(T) -> T] :
        \A i, j \in DOMAIN s : i < j => s[i].id < s[j].id
  BY <1>6, <1>7
<1>9. /\ List(pg) \in [1 .. Cardinality(T) -> T]
      /\ \A i, j \in DOMAIN List(pg) : i < j => List(pg)[i].id < List(pg)[j].id
  BY <1>8 DEF List, T
<1>10. \A i, j \in DOMAIN List(pg) : i < j => key[List(pg)[i]] < key[List(pg)[j]]
  BY <1>7, <1>9
<1>11. {List(pg)[i] : i \in DOMAIN List(pg)} = T
  <2> DEFINE L == List(pg)
  <2>1. /\ L \in [1 .. Cardinality(T) -> T]
        /\ \A i, j \in DOMAIN L : i < j => key[L[i]] < key[L[j]]
    BY <1>9, <1>10
  <2> HIDE DEF key, L
  <2>2. \A t \in T : \E i \in DOMAIN L : L[i] = t
    <3>1. key \in [T -> Nat]
      BY <1>3
    <3> QED
      BY <1>4, <2>1, <3>1, SortedListIsWhole, ZenonT(30)
  <2>3. {L[i] : i \in DOMAIN L} = T
    BY <2>1, <2>2
  <2> QED
    BY <2>3 DEF L
<1> QED
  BY <1>9, <1>11 DEF MockList, T

(* On every database the program can reach, and for every call by a caller *)
(* that keeps to the rules of MetadataMock, the mock answers as PostgreSQL *)
(* does except in the named cases, in each of which it does not: they      *)
(* include ids that are no UUIDs, structs that are replaced with their     *)
(* times and structs that change in the map (mock.go beside postgres.go).  *)
THEOREM MockAgreesAlways == Spec => []MockAgrees
<1>1. StoreInv => MockAgrees
  <2> SUFFICES ASSUME StoreInv
               PROVE  MockAgrees
    OBVIOUS
  <2>1. \A t \in Tenant : AgreeUnless(FALSE, TenantCreate(pg, t), MockTenantCreate(pg, t))
    BY TenantCreateAgrees DEF AgreeUnless
  <2>2. \A s \in Service : AgreeUnless(FALSE, ServiceDelete(pg, s), MockServiceDelete(pg, s))
    BY DEF AgreeUnless, ServiceDelete, MockServiceDelete
  <2> QED
    BY <2>1, <2>2, TenantUpdateAgrees, PolicyUpdateAgrees, TenantDeleteAgrees, KeyCreateAgrees,
       KeyCallsAgree, ServiceCreateAgrees, PolicyCreateAgrees, ListAgrees, Zenon
    DEF MockAgrees
<1> QED
  BY <1>1, StoreInvariant, PTL
=============================================================================
