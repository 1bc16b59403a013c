SPECIFICATION Spec
CONSTANTS
  Parts = {"messages"}
  c1 = c1
  c2 = c2
  r1 = r1
  r2 = r2
  u1 = u1
  u2 = u2
  u3 = u3
  k1 = k1
  k2 = k2
  p1 = p1
  p2 = p2
  Manifests <- MCManifests
  Callers = {c1, c2}
  MaxConcurrent = 1
  MaxCancels = 2
  Requests = {r1, r2}
  SessionLists <- MCLists
  Malformed = "bad"
  DiscoveryLimit = 4
  Bodies <- MCBodies
  Broken = {"y"}
  Window = 2
  RoutePermits = 1
  AggregateCap = 2
  ItemCap = 2
  Users = {u1, u2, u3}
  MaxTransforms = 2
  CatalogKeys = {"a", "b"}
  Readers = {k1, k2}
  Ttls = {0, 2}
  BodySizes = {1, 2, 3}
  MaxCached = 2
  MaxCachedBytes = 3
  MaxEntryBytes = 2
  MaxRestarts = 1
  Ids = {1, 2, 3}
  Undated = {1}
  Existing = 2
  PageLimit = 2
  Apps = {p1, p2}
  Incremental = {p1}
  Modes = {"none"}
  Bypass = TRUE
  MaxChanges = 2
  MaxGenerations = 2
  PageRows <- MCRows
  FullBytes <- MCBytes
  Pagers = {"list"}
  Directs = {"full", "expand"}
  DirectMid = "m1"
  MaxMessageBytes = 3
  MergedMaxBytes = 3
  MergedFanout = 2
  MaxFullsPerPage = 2
PROPERTY NoFalseRemoval
CHECK_DEADLOCK FALSE
