CONSTANTS
  o1 = o1 o2 = o2 e1 = e1 e2 = e2 w1 = w1 w2 = w2
  i1 = i1 i2 = i2 i3 = i3 k1 = k1 k2 = k2 c1 = c1 c2 = c2 r1 = r1
  east = east west = west any = any
  Orgs = {o1}
  Environments = {e1}
  Workers = {w1}
  Regions = {east}
  Ids = {i1, i2}
  Keys = {k1, k2}
  Bodies <- ReconcileBodies
  Dims = {"cpu", "transfer"}
  WorkerDims = {"cpu"}
  Limits <- ReconcileLimits
  Capacities <- ReconcileCapacities
  Clients = {c1}
  Reconcilers = {r1}
  OrgOf <- RaceOrgOf
  RegionOf <- RaceRegionOf
  Healths = {"ready"}
  AnyWorker = any
  Ttl = 1
  HeartbeatMaxAge = 2
  DisconnectAfter = 2
  BatchLimit = 1
  MaxAmount = 2
  MaxTime = 1
SPECIFICATION FairSpec
CHECK_DEADLOCK FALSE
PROPERTIES LedgerRefinement StaleReleaseIsStale StaleEventuallyReleased
