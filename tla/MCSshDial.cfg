CONSTANTS
  d1 = d1
  d2 = d2
  jump = jump
  far = far
  target = target
  NoDialer = NoDialer
  Dialers <- MCDialers
  Hosts <- MCHosts
  Types <- MCTypes
  Offers <- MCOffers
  Route <- MCRoute
  FirstKnown <- MCFirstKnown
  Edits <- MCEdits
  GateLimit = 2
SPECIFICATION AttendedSpec
INVARIANTS
  TypeOK
  AskedOnlyWhenNeeded
  JumpSurvivesRetries
  CloseReleasesAll
PROPERTIES
  CancelInterrupts
CHECK_DEADLOCK FALSE
