\* Sessions, copying and moving on a host, uploads and downloads, exports, tags.
CONSTANTS
  None = None
  c1 = c1
  c2 = c2
  c3 = c3
  k1 = k1
  k2 = k2
  s1 = s1
  s2 = s2
  s3 = s3
  src = src
  Calls <- MCCalls
  Sources <- MCSources
  Connections <- MCConnections
  Sessions <- MCSessions
  Trees <- MCTrees
  Targets <- MCTargets
  Guests <- MCGuests
  Places <- MCPlaces
  FilePlans <- MCPlans
  ExportPlans <- MCExports
  Tags <- MCTags
  Manifests <- MCManifests
  Registries <- MCRegistries
  TagPlans <- MCRequests
  MaxItems = 2
  MaxPath = 2
  MaxRuns = 2
SPECIFICATION AllSpec
SYMMETRY MCSymmetry
\* A transfer ends.
CHECK_DEADLOCK FALSE
INVARIANTS
  TypeOK
  NotClosedUnderUse
  RightConnection
  NoSessionLeak
  TransfersOK
  LossIsAnnounced
  DeliveredWhenDone
