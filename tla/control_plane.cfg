\* Two processes migrate; one migrates while the repositories are called.
SPECIFICATION MCSpec
CONSTANTS
  Directory <- MCDirectory
  Proc = {"m1", "m2"}
  MaxDowns = 2
  MaxFaults = 2
  Slug = {"a", "b", ""}
  Hash = {"h", ""}
  Name = {"api", ""}
  Expiry = {0, 1}
  Days = {0, 7, 8}
  MaxTenants = 2
  MaxTime = 2
INVARIANTS
  TypeOK
  VersionTableExact
  AppliedPrefix
  UpComplete
  TenantIntegrity
  MockAgrees
PROPERTIES
  InvalidForGood
CHECK_DEADLOCK FALSE
