------------------------------- MODULE Metadata -------------------------------
(***************************************************************************)
(* The metadata store: the four repositories of                            *)
(* internal/metadata/postgres.go over the tables of                        *)
(* migrations/000001_create_metadata_tables.up.sql, with the checks of     *)
(* models.go.  A call is one SQL statement: it maps a database to a result *)
(* and a new database.                                                     *)
(*                                                                         *)
(* A key is identified by its hash, a service by its tenant and name, a    *)
(* policy by its tenant.  Names other than slugs, and the times of         *)
(* creation, update and last use, are left out.  Blank is "", times and    *)
(* days are numbers, and a key that expires at 0 does not.  The id of a    *)
(* tenant is a number, 0 when it is blank and negative when it is text     *)
(* that is no UUID; values fit the columns they go to.                     *)
(*                                                                         *)
(* A tenant or a policy is stamped if it carries the times, and a policy   *)
(* the id, of its row: the store filled it in, the caller did not make it. *)
(***************************************************************************)
EXTENDS Integers, FiniteSets

NoRows == [tenants |-> {}, keys |-> {}, services |-> {}, policies |-> {}]

Returns(db, res) == [db |-> db, res |-> res]

(* MUTATION of Status: the status stays as the caller left it. *)
StatusAsGiven(s) == s

(* Validate of Tenant sets an empty status to active. *)
Status(s) == IF s = "" THEN "active" ELSE s

(* What is stored of a tenant and of a policy. *)
TenantStored(t) ==
  [id |-> t.id, slug |-> t.slug, status |-> Status(t.status), stamped |-> TRUE]
PolicyStored(p) == [tenant |-> p.tenant, days |-> p.days, stamped |-> TRUE]

(* Another id is an error of the statement. *)
IsUUID(id) == id > 0

ValidTenant(t) == t.slug # ""
ValidService(s) == s.tenant # 0 /\ s.name # ""
ValidPolicy(p) == p.tenant # 0 /\ p.days > 0
ValidKey(k) == k.tenant # 0 /\ k.hash # ""

(* IsValid of APIKey: the status of the tenant plays no part. *)
IsValid(k, now) == k.status = "active" /\ ~(k.expires # 0 /\ now > k.expires)

GetByID(db, id) == {t \in db.tenants : t.id = id}
GetBySlug(db, slug) == {t \in db.tenants : t.slug = slug}

HasTenant(db, id) == GetByID(db, id) # {}

-----------------------------------------------------------------------------
(* PostgresTenantRepo; the slug is unique (SQLSTATE 23505).                *)
TenantCreate(db, t) ==
  IF ~ValidTenant(t) THEN Returns(db, "invalid")
  ELSE IF GetBySlug(db, t.slug) # {} THEN Returns(db, "exists")
  ELSE Returns([db EXCEPT !.tenants = @ \union {TenantStored(t)}], "ok")

(* The columns that are named are set, the others stay. *)
TenantUpdate(db, t) ==
  IF ~ValidTenant(t) THEN Returns(db, "invalid")
  ELSE IF ~IsUUID(t.id) THEN Returns(db, "error")
  ELSE IF ~HasTenant(db, t.id) THEN Returns(db, "not found")
  ELSE IF \E u \in db.tenants : u.slug = t.slug /\ u.id # t.id THEN Returns(db, "exists")
  ELSE Returns([db EXCEPT !.tenants = {u \in @ : u.id # t.id} \union {TenantStored(t)}],
               "ok")

(* MUTATION of Cascade: the policies refer to no tenant. *)
CascadeKeepsPolicies(db, id) ==
  [tenants |-> {t \in db.tenants : t.id # id},
   keys |-> {k \in db.keys : k.tenant # id},
   services |-> {s \in db.services : s.tenant # id},
   policies |-> db.policies]

(* ON DELETE CASCADE *)
Cascade(db, id) ==
  [tenants |-> {t \in db.tenants : t.id # id},
   keys |-> {k \in db.keys : k.tenant # id},
   services |-> {s \in db.services : s.tenant # id},
   policies |-> {p \in db.policies : p.tenant # id}]

TenantDelete(db, id) ==
  IF ~IsUUID(id) THEN Returns(db, "error")
  ELSE IF HasTenant(db, id) THEN Returns(Cascade(db, id), "ok")
  ELSE Returns(db, "not found")

(* ORDER BY created_at; ids are given in that order. *)
List(db) ==
  CHOOSE s \in [1 .. Cardinality(db.tenants) -> db.tenants] :
    \A i, j \in DOMAIN s : i < j => s[i].id < s[j].id

-----------------------------------------------------------------------------
(* MUTATION of KeyCreate: a key with the same hash is replaced, as by      *)
(* ON CONFLICT DO UPDATE.                                                  *)
KeyCreateUpsert(db, k) ==
  IF ~ValidKey(k) THEN Returns(db, "invalid")
  ELSE IF ~HasTenant(db, k.tenant) THEN Returns(db, "error")
  ELSE Returns([db EXCEPT !.keys = {l \in @ : l.hash # k.hash} \union
                                   {[k EXCEPT !.status = Status(@)]}], "ok")

GetByHash(db, hash) == {k \in db.keys : k.hash = hash}
KeysByTenant(db, id) == {k \in db.keys : k.tenant = id}

(* PostgresAPIKeyRepo; the hash is unique and the tenant exists, or the    *)
(* INSERT fails.                                                           *)
KeyCreate(db, k) ==
  IF ~ValidKey(k) THEN Returns(db, "invalid")
  ELSE IF ~HasTenant(db, k.tenant) \/ GetByHash(db, k.hash) # {}
  THEN Returns(db, "error")
  ELSE Returns([db EXCEPT !.keys = @ \union {[k EXCEPT !.status = Status(@)]}], "ok")

Revoke(db, hash) ==
  IF GetByHash(db, hash) = {} THEN Returns(db, "not found")
  ELSE Returns([db EXCEPT !.keys =
         {IF k.hash = hash THEN [k EXCEPT !.status = "revoked"] ELSE k : k \in @}], "ok")

(* The number of rows is not looked at. *)
UpdateLastUsed(db, hash) == Returns(db, "ok")

-----------------------------------------------------------------------------
(* PostgresServiceRepo; the name is unique within the tenant.              *)
GetByName(db, id, name) == {s \in db.services : s.tenant = id /\ s.name = name}
ServicesByTenant(db, id) == {s \in db.services : s.tenant = id}

ServiceCreate(db, s) ==
  IF ~ValidService(s) THEN Returns(db, "invalid")
  ELSE IF GetByName(db, s.tenant, s.name) # {} THEN Returns(db, "exists")
  ELSE IF ~HasTenant(db, s.tenant) THEN Returns(db, "error")
  ELSE Returns([db EXCEPT !.services = @ \union {s}], "ok")

ServiceDelete(db, s) ==
  IF s \in db.services THEN Returns([db EXCEPT !.services = @ \ {s}], "ok")
  ELSE Returns(db, "not found")

-----------------------------------------------------------------------------
(* PostgresRetentionPolicyRepo; a tenant has one policy.                   *)
GetByTenant(db, id) == {p \in db.policies : p.tenant = id}

PolicyCreate(db, p) ==
  IF ~ValidPolicy(p) THEN Returns(db, "invalid")
  ELSE IF ~HasTenant(db, p.tenant) \/ GetByTenant(db, p.tenant) # {}
  THEN Returns(db, "error")
  ELSE Returns([db EXCEPT !.policies = @ \union {PolicyStored(p)}], "ok")

PolicyUpdate(db, p) ==
  IF ~ValidPolicy(p) THEN Returns(db, "invalid")
  ELSE IF ~IsUUID(p.tenant) THEN Returns(db, "error")
  ELSE IF GetByTenant(db, p.tenant) = {} THEN Returns(db, "not found")
  ELSE Returns([db EXCEPT !.policies =
                  (@ \ GetByTenant(db, p.tenant)) \union {PolicyStored(p)}], "ok")
=============================================================================
