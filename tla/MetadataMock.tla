----------------------------- MODULE MetadataMock -----------------------------
(***************************************************************************)
(* The in-memory repositories of internal/metadata/mock.go, which tests    *)
(* use in the place of those of Metadata.  Four maps, each behind its      *)
(* lock: tenants and services by id, keys by hash, policies by tenant.     *)
(* Nothing ties one map to another.                                        *)
(*                                                                         *)
(* The maps hold the caller's pointers: a struct that the mock has filled  *)
(* in or handed out is the row.  The model assumes that a caller changes   *)
(* such a struct only to pass it to Update, and neither its id nor its     *)
(* tenant, that it makes no copies of it, and that it passes a new one to  *)
(* Create, whose ID is empty.  Lookups are not compared: they find the     *)
(* same, unless the id is no UUID.                                         *)
(***************************************************************************)
EXTENDS Metadata

TenantPut(db, t) == [db EXCEPT !.tenants = {u \in @ : u.id # t.id} \union {t}]
PolicyPut(db, p) == [db EXCEPT !.policies = {q \in @ : q.tenant # p.tenant} \union {p}]

(* What a change of the struct has done to the map before Update is called *)
(* or when Update has failed.                                              *)
TenantChanged(db, t) == IF t.stamped /\ HasTenant(db, t.id) THEN TenantPut(db, t) ELSE db
PolicyChanged(db, p) ==
  IF p.stamped /\ GetByTenant(db, p.tenant) # {} THEN PolicyPut(db, p) ELSE db

MockTenantCreate(db, t) ==
  IF ~ValidTenant(t) THEN Returns(db, "invalid")
  ELSE IF \E u \in db.tenants : u.slug = t.slug THEN Returns(db, "exists")
  ELSE Returns([db EXCEPT !.tenants = @ \union {TenantStored(t)}], "ok")

Validated(t) == [t EXCEPT !.status = Status(@)]

(* MUTATION of MockTenantUpdate: a tenant clashes with its own slug. *)
MockTenantUpdateOwnSlug(db, t) ==
  IF ~ValidTenant(t) THEN Returns(TenantChanged(db, t), "invalid")
  ELSE IF \E u \in db.tenants : u.slug = t.slug
  THEN Returns(TenantChanged(db, Validated(t)), "exists")
  ELSE IF ~HasTenant(db, t.id) THEN Returns(db, "not found")
  ELSE Returns(TenantPut(db, Validated(t)), "ok")

(* The slug is looked at before the id; the struct replaces the row.       *)
MockTenantUpdate(db, t) ==
  IF ~ValidTenant(t) THEN Returns(TenantChanged(db, t), "invalid")
  ELSE IF \E u \in db.tenants : u.slug = t.slug /\ u.id # t.id
  THEN Returns(TenantChanged(db, Validated(t)), "exists")
  ELSE IF ~HasTenant(db, t.id) THEN Returns(db, "not found")
  ELSE Returns(TenantPut(db, Validated(t)), "ok")

(* What belongs to the tenant stays. *)
MockTenantDelete(db, id) ==
  IF HasTenant(db, id)
  THEN Returns([db EXCEPT !.tenants = {t \in @ : t.id # id}], "ok")
  ELSE Returns(db, "not found")

(* The lists of the mock come in the order of a map, that is, in any. *)
MockList(db) ==
  {s \in [1 .. Cardinality(db.tenants) -> db.tenants] :
     {s[i] : i \in DOMAIN s} = db.tenants}

(* A key with the same hash is overwritten. *)
MockKeyCreate(db, k) ==
  IF ~ValidKey(k) THEN Returns(db, "invalid")
  ELSE Returns([db EXCEPT !.keys = {l \in @ : l.hash # k.hash} \union
                                   {[k EXCEPT !.status = Status(@)]}], "ok")

MockRevoke(db, hash) ==
  IF \E k \in db.keys : k.hash = hash
  THEN Returns([db EXCEPT !.keys =
         {IF k.hash = hash THEN [k EXCEPT !.status = "revoked"] ELSE k : k \in @}], "ok")
  ELSE Returns(db, "not found")

MockUpdateLastUsed(db, hash) ==
  Returns(db, IF \E k \in db.keys : k.hash = hash THEN "ok" ELSE "not found")

MockServiceCreate(db, s) ==
  IF ~ValidService(s) THEN Returns(db, "invalid")
  ELSE IF s \in db.services THEN Returns(db, "exists")
  ELSE Returns([db EXCEPT !.services = @ \union {s}], "ok")

MockServiceDelete(db, s) ==
  IF s \notin db.services THEN Returns(db, "not found")
  ELSE Returns([db EXCEPT !.services = @ \ {s}], "ok")

(* A policy of the same tenant is overwritten. *)
MockPolicyCreate(db, p) ==
  IF ~ValidPolicy(p) THEN Returns(db, "invalid")
  ELSE Returns(PolicyPut(db, PolicyStored(p)), "ok")

MockPolicyUpdate(db, p) ==
  IF ~ValidPolicy(p) THEN Returns(PolicyChanged(db, p), "invalid")
  ELSE IF GetByTenant(db, p.tenant) = {} THEN Returns(db, "not found")
  ELSE Returns(PolicyPut(db, p), "ok")
=============================================================================
