CONSTANTS
  FirstIndex = 0  LastIndex = 1
  Outside = {3}
  MaxGeneration = 2
  Values = {1, 2}
  Unset = Unset
  ChangedEntitiesShift = 0
  Components = {pos}
  LaneCount = 2
  Workloads <- AllWorkloads
  MaxReservations = 2
SPECIFICATION Spec
INVARIANTS
  ReservationsHonoured
  IndicesAccounted
  ValuesKept
  DeltasExact
PROPERTIES
  CommitInOrder
CHECK_DEADLOCK TRUE
