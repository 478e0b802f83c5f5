CONSTANTS
  o1 = o1 o2 = o2 e1 = e1 e2 = e2 w1 = w1 w2 = w2
  i1 = i1 i2 = i2 i3 = i3 k1 = k1 k2 = k2 c1 = c1 c2 = c2 r1 = r1
  east = east west = west any = any
  Orgs = {o1}
  Environments = {e1}
  Workers = {w1}
  Regions = {east}
  Ids = {i1, i2}
  Keys = {k1, k2}
  Bodies <- RaceBodies
  Dims = {"cpu", "transfer"}
  WorkerDims = {"cpu"}
  Limits <- RaceLimits
  Capacities <- RaceCapacities
  Clients = {c1, c2}
  Reconcilers = {r1}
  OrgOf <- RaceOrgOf
  RegionOf <- RaceRegionOf
  Healths = {"ready"}
  AnyWorker = any
  Ttl = 1
  HeartbeatMaxAge = 2
  DisconnectAfter = 1
  BatchLimit = 1
  MaxAmount = 2
  MaxTime = 1
SPECIFICATION Spec
SYMMETRY RaceSymmetry
CHECK_DEADLOCK FALSE
INVARIANTS TypeOK CountersMatchReservations IdempotentReserve ActiveInActiveEnvironment OutboxTellsHistory
