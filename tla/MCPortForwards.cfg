CONSTANTS
  f1 = f1
  f2 = f2
  p = p
  q = q
  u1 = u1
  u2 = u2
  None = None
  Ids <- MCIds
  Addresses <- MCAddresses
  Imports <- MCImports
  Tunnels <- MCTunnels
  MaxRetries = 1
  MaxCalls = 3
CHECK_DEADLOCK FALSE
SPECIFICATION Spec
INVARIANTS
  TypeOK
  MapIsLive
  OrphansOnlyByRace
PROPERTIES
  DeletedForwardCloses
