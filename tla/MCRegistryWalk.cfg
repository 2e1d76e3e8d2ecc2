CONSTANTS
  r1 = r1  r2 = r2  w = w
  n1 = n1  n2 = n2  n3 = n3  n4 = n4
  Request = {r1, r2}
  Walker = w
  Name = {n1, n2, n3, n4}
  InitTenant <- ThreeTenants
  FirstBefore = 3
  PageSize = 2
  MaxId = 5
  Faults = {"statement", "crash"}
  MaxFaults = 2
SPECIFICATION FairSpec
INVARIANTS WalkShowsEachTenantOnce
PROPERTIES WalkEndsUnlessOrphaned
