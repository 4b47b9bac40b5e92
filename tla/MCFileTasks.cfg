CONSTANTS
  t1 = t1
  t2 = t2
  Tasks <- MCTasks
  Kinds <- AllKinds
  MaxRuns = 3
  LimitRequests <- MCLimitRequests
SYMMETRY MCSymmetry
SPECIFICATION Spec
INVARIANTS
  TypeOK
  BusyIffOneRunner
  ConflictIsAnswerable
  NoSlotLeak
PROPERTIES
  ImplementsLifecycle
