CONSTANTS
  t1 = t1
  t2 = t2
  Tasks <- MCTasks
  Kinds <- MCLiveKinds
  MaxRuns = 2
  LimitRequests <- MCLiveLimitRequests
SPECIFICATION Spec
PROPERTIES
  DoneContextSettles
