SPECIFICATION Spec
CONSTANTS
  Requests = {r1, r2, r3, r4, r5}
  MaximumConcurrency = 2
  MaximumQueueSize = 1
SYMMETRY Symmetry
INVARIANTS
  TypeOK
  AdmissionCount
  UnitsConserved
  ThreadHoldsCapacity
  CapacityBounds
  NoLostWakeup
PROPERTIES
  NoOvertaking
  ImplementsAdmission
CHECK_DEADLOCK FALSE
