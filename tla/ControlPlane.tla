----------------------------- MODULE ControlPlane -----------------------------
(***************************************************************************)
(* The schema migrator and the metadata store on one PostgreSQL database.  *)
(* A call of a repository is one statement, hence one step; it fails, and  *)
(* changes nothing, while the tables do not exist.  Undoing the migration  *)
(* that created the tables drops them with their rows.                     *)
(***************************************************************************)
EXTENDS Migrator, MetadataMock

CONSTANTS
  Slug, Hash, Name,      \* what callers pass; slugs include the blank one
  Expiry, Days,          \* 0 stands for none and for a value that is refused
  MaxTenants,            \* tenants ever created (bounds the model)
  MaxTime                \* end of time (bounds the model)

ASSUME StoreAssumption ==
  /\ Expiry \subseteq Nat /\ Days \subseteq Nat
  /\ MaxTenants \in Nat /\ MaxTime \in Nat \ {0}

VARIABLES
  pg,        \* the rows of the four tables
  issued,    \* ids given to tenants
  now        \* the clock

vars == <<migratorVars, pg, issued, now>>

TenantId == 1 .. MaxTenants

(* What a caller may give as an id: none, or one that is no UUID, beside those issued. *)
GivenId == -1 .. MaxTenants
Tenant == [id : GivenId, slug : Slug, status : {"", "suspended"}, stamped : BOOLEAN]
APIKey == [tenant : GivenId, hash : Hash, status : {""}, expires : Expiry]
Service == [tenant : GivenId, name : Name]
RetentionPolicy == [tenant : GivenId, days : Days, stamped : BOOLEAN]

Init == MigratorInit /\ pg = NoRows /\ issued = 0 /\ now = 1

-----------------------------------------------------------------------------
(* 000001_create_metadata_tables *)
SchemaVersion == 1
Schema(rows) == IF SchemaVersion \in objects' THEN rows ELSE NoRows

Migrate ==
  /\ \E p \in Proc : Up(p) \/ Down(p)
  /\ pg' = Schema(pg)
  /\ UNCHANGED <<issued, now>>

Rollback ==
  /\ \E p \in Proc : StartDown(p)
  /\ UNCHANGED <<pg, issued, now>>

Call(result) ==
  /\ SchemaVersion \in objects
  /\ pg' = result.db
  /\ UNCHANGED <<migratorVars, now>>

(* The database gives the id. *)
CreateTenant ==
  \E t \in Tenant :
    /\ t.id = issued + 1 /\ ~t.stamped
    /\ Call(TenantCreate(pg, t))
    /\ issued' = IF TenantCreate(pg, t).res = "ok" THEN t.id ELSE issued

UpdateTenant == UNCHANGED issued /\ \E t \in Tenant : Call(TenantUpdate(pg, t))
DeleteTenant == UNCHANGED issued /\ \E id \in GivenId : Call(TenantDelete(pg, id))
CreateKey == UNCHANGED issued /\ \E k \in APIKey : Call(KeyCreate(pg, k))
RevokeKey == UNCHANGED issued /\ \E hash \in Hash : Call(Revoke(pg, hash))
CreateService == UNCHANGED issued /\ \E s \in Service : Call(ServiceCreate(pg, s))
DeleteService == UNCHANGED issued /\ \E s \in Service : Call(ServiceDelete(pg, s))
CreatePolicy ==
  UNCHANGED issued /\ \E r \in RetentionPolicy : ~r.stamped /\ Call(PolicyCreate(pg, r))
UpdatePolicy == UNCHANGED issued /\ \E r \in RetentionPolicy : Call(PolicyUpdate(pg, r))

Clock ==
  /\ now < MaxTime
  /\ now' = now + 1
  /\ UNCHANGED <<migratorVars, pg, issued>>

Repositories ==
  CreateTenant \/ UpdateTenant \/ DeleteTenant \/ CreateKey \/ RevokeKey
    \/ CreateService \/ DeleteService \/ CreatePolicy \/ UpdatePolicy

Next == Migrate \/ Rollback \/ Repositories \/ Clock

Spec == Init /\ [][Next]_vars

-----------------------------------------------------------------------------
MigratorTypeOK ==
  /\ dir \in Directory
  /\ table \subseteq Version /\ objects \subseteq Version
  /\ op \in [Proc -> {"idle", "up", "down"}]
  /\ todo \in [Proc -> SUBSET Version]
  /\ last \in [Proc -> {"none", "up", "down", "error"}]
  /\ fresh \in [Proc -> BOOLEAN] /\ mixed \in BOOLEAN
  /\ downs \in 0 .. MaxDowns /\ faults \in 0 .. MaxFaults
  /\ \A p \in Proc : op[p] = "idle" => todo[p] = {}

StoreTypeOK ==
  /\ issued \in 0 .. MaxTenants /\ now \in 1 .. MaxTime
  /\ pg \in [tenants : SUBSET [id : 1 .. issued, slug : Slug \ {""},
                               status : {"active", "suspended"}, stamped : {TRUE}],
             keys : SUBSET [tenant : TenantId, hash : Hash \ {""},
                            status : {"active", "revoked"}, expires : Expiry],
             services : SUBSET [tenant : TenantId, name : Name \ {""}],
             policies : SUBSET [tenant : TenantId, days : Days \ {0}, stamped : {TRUE}]]

(* Every variable has its type, no row has a blank or a zero that Validate *)
(* should have refused or replaced, and a process that does nothing has    *)
(* nothing left to apply (migrator.go, models.go).                         *)
TypeOK == MigratorTypeOK /\ StoreTypeOK

(* Whatever fails and whoever migrates beside, the tables that exist are   *)
(* those of the recorded versions: a script and its record commit together *)
(* (Up and Down of migrator.go).                                           *)
VersionTableExact == objects = table \intersect UpSQL

(* Unless an Up and a Down overlap, the recorded versions are the first    *)
(* ones: a version is never skipped, by an Up that fails or by two at the  *)
(* same time (migrator.go, Up).                                            *)
AppliedPrefix ==
  ~mixed => \A v \in table : \A u \in Version : u < v => u \in table

(* An Up that returns nil leaves every version recorded, until one is      *)
(* undone, although it read the table only once (migrator.go, Up).         *)
UpComplete ==
  \A p \in Proc : last[p] = "up" /\ fresh[p] => Version \subseteq table

(* Slugs, hashes, the names of a tenant's services and its policy are      *)
(* unique, and no row outlives its tenant or the schema (postgres.go and   *)
(* the constraints of the migration).                                      *)
TenantIntegrity ==
  /\ \A t, u \in pg.tenants : t.id = u.id \/ t.slug = u.slug => t = u
  /\ \A k, l \in pg.keys : k.hash = l.hash => k = l
  /\ \A q, r \in pg.policies : q.tenant = r.tenant => q = r
  /\ \A row \in pg.keys \union pg.services \union pg.policies : HasTenant(pg, row.tenant)
  /\ SchemaVersion \notin objects => pg = NoRows

(* A key that is revoked or has expired does not become valid again while  *)
(* it is in the table (postgres.go, Create, Revoke and IsValid).           *)
InvalidForGood ==
  [][\A k \in pg.keys, l \in pg'.keys :
       k.hash = l.hash /\ ~IsValid(k, now) => ~IsValid(l, now')]_vars

(* On every database the program can reach, a call of the mock returns     *)
(* what PostgreSQL returns and leaves the same rows behind, except in the  *)
(* cases after AgreeUnless, in each of which it does not (mock.go): a test *)
(* that keeps to the rules of MetadataMock and of Metadata (the values fit *)
(* their columns) and runs into none of these cases tests the program.     *)
(* An id that is no UUID is an error of PostgreSQL.  Update stores a new   *)
(* struct with the times it has, and one that the mock had filled in was   *)
(* changed in the map even when Update fails.                              *)
AgreeUnless(deviates, real, mock) == (real = mock) <=> ~deviates

MockAgrees ==
  /\ \A t \in Tenant :
       /\ issued < t.id /\ ~t.stamped =>
            AgreeUnless(FALSE, TenantCreate(pg, t), MockTenantCreate(pg, t))
       /\ AgreeUnless(\/ ValidTenant(t) /\ ~IsUUID(t.id)
                      \/ ValidTenant(t) /\ ~HasTenant(pg, t.id) /\ GetBySlug(pg, t.slug) # {}
                      \/ HasTenant(pg, t.id) /\ t.stamped # (TenantUpdate(pg, t).res = "ok"),
                      TenantUpdate(pg, t), MockTenantUpdate(pg, t))
  /\ \A id \in GivenId :
       AgreeUnless(\/ ~IsUUID(id)
                   \/ KeysByTenant(pg, id) \union ServicesByTenant(pg, id)
                        \union GetByTenant(pg, id) # {},
                   TenantDelete(pg, id), MockTenantDelete(pg, id))
  /\ \A k \in APIKey :
       AgreeUnless(ValidKey(k) /\ (~HasTenant(pg, k.tenant) \/ GetByHash(pg, k.hash) # {}),
                   KeyCreate(pg, k), MockKeyCreate(pg, k))
  /\ \A hash \in Hash :
       /\ AgreeUnless(FALSE, Revoke(pg, hash), MockRevoke(pg, hash))
       /\ AgreeUnless(GetByHash(pg, hash) = {},
                      UpdateLastUsed(pg, hash), MockUpdateLastUsed(pg, hash))
  /\ \A s \in Service :
       /\ AgreeUnless(ValidService(s) /\ ~HasTenant(pg, s.tenant),
                      ServiceCreate(pg, s), MockServiceCreate(pg, s))
       /\ AgreeUnless(FALSE, ServiceDelete(pg, s), MockServiceDelete(pg, s))
  /\ \A r \in RetentionPolicy :
       /\ ~r.stamped =>
            AgreeUnless(/\ ValidPolicy(r)
                        /\ ~HasTenant(pg, r.tenant) \/ GetByTenant(pg, r.tenant) # {},
                        PolicyCreate(pg, r), MockPolicyCreate(pg, r))
       /\ AgreeUnless(\/ ValidPolicy(r) /\ ~IsUUID(r.tenant)
                      \/ /\ GetByTenant(pg, r.tenant) # {}
                         /\ r.stamped # (PolicyUpdate(pg, r).res = "ok"),
                      PolicyUpdate(pg, r), MockPolicyUpdate(pg, r))
  /\ List(pg) \in MockList(pg)
=============================================================================
