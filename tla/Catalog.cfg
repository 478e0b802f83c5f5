CONSTANTS
  o1 = o1 e1 = e1 e2 = e2 w1 = w1 w2 = w2 i1 = i1 k1 = k1 c1 = c1
  east = east west = west any = any
  p1 = p1 p2 = p2 t1 = t1 t2 = t2 d1 = d1 d2 = d2
  Manifests = {1}
  Contents = {"first", "edited"}
  Drafts = {d1, d2}
  Tabs = {t1, t2}
  Values = {a, b}
  MaxVersion = 2
  Projects = {p1, p2}
  TreeEnvironments = {e1, e2}
  Slugs = {shop, blog}
  Types = {"production"}
  Handlers = {h1, h2}
  None = None
  Orgs = {o1}
  Environments = {e1}
  Workers = {w1, w2}
  Regions = {east, west}
  Ids = {i1}
  Keys = {k1}
  Bodies <- Placement
  Dims = {"cpu", "transfer"}
  WorkerDims = {"cpu"}
  Limits <- Quotas
  Capacities <- OneCore
  Healths = {"ready", "degraded", "draining"}
  Clients = {c1}
  Reconcilers = {}
  OrgOf <- Owner
  RegionOf <- Site
  AnyWorker = any
  Ttl = 1
  HeartbeatMaxAge = 1
  DisconnectAfter = 1
  BatchLimit = 1
  MaxAmount = 2
  MaxTime = 1
  Fields <- Steps
  Imports <- WizardManifests
SPECIFICATION MCSpec
SYMMETRY Symmetry
CHECK_DEADLOCK FALSE
INVARIANTS TypesOK BuiltFromTemplate OneDraftPerTab NoOrphans
PROPERTIES PlacementIsCurrent SaveSawWhatItChanges UpdateSawWhatItChanges PreviewIsStored
