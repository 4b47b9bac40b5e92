CONSTANTS
  None = None
  Tags <- MCTags
  Manifests <- MCManifests
  Registries <- MCRegistries
  Plans <- MCPlans
SPECIFICATION Spec
CHECK_DEADLOCK FALSE
INVARIANTS
  OnlySourceIsRemoved
