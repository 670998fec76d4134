SPECIFICATION Spec
CONSTANTS
  r1 = r1
  r2 = r2
  r3 = r3
  u1 = u1
  Nobody = Nobody
  Users = {u1}
  Runs = {r1}
  MaxVersions = 4
  MaxConcurrent = 3
  MaxFailures = 2
  MaxCancels = 1
  MaxLosses = 1
CHECK_DEADLOCK FALSE
INVARIANTS
  VersionsInv
  NoDanglingVersion
  ServedAsPushed
