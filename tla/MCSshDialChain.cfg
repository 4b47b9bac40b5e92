CONSTANTS
  d1 = d1
  d2 = d2
  jump = jump
  far = far
  target = target
  NoDialer = NoDialer
  Dialers <- MCChainDialers
  Hosts <- MCChainHosts
  Types <- MCChainTypes
  Offers <- MCChainOffers
  Route <- MCChainRoute
  FirstKnown <- MCChainFirstKnown
  Edits <- MCEdits
  GateLimit = 2
SPECIFICATION Spec
INVARIANTS
  CloseReleasesAll
CHECK_DEADLOCK FALSE
