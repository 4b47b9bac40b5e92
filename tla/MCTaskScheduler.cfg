CONSTANTS
  c1 = c1
  c2 = c2
  c3 = c3
  Callers <- MCCallers
  LimitRequests <- MCLimitRequests
SPECIFICATION Spec
INVARIANTS
  TypeOK
  NoLostWakeup
PROPERTIES
  ImplementsSlotPool
  SlotNotWithheld
  CanceledCallerLeaves
