SPECIFICATION Spec
CONSTANTS
  c1 = c1
  c2 = c2
  c3 = c3
  t1 = t1
  t2 = t2
  here = here
  there = there
  j1 = j1
  j2 = j2
  Connections = {c1, c2, c3}
  SourceOf <- Sources3
  TenantOf <- Tenants3
  MaxRequests = 2
  MaxPerSource = 1
  MaxRelays = 2
  MaxPerTenant = 1
  Tenants = {t1, t2}
  Quota = 3
  Sizes = {1, 2}
  TTLs = {2, 3}
  MaxTime = 3
  MaxRows = 3
  Jobs = {j1, j2}
  Scenarios <- AllScenarios
  MaxRestarts = 1
INVARIANTS SlotsMatchConnections StorePromises PausesAreKept
