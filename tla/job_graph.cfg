CONSTANTS
  p1 = p1  p2 = p2  w1 = w1  w2 = w2  n1 = n1
  Publications = {p1, p2}
  Panicking = {p2}
  Workers = {w1, w2}
  Notifiers = {n1}
  Slots = 3
  EdgeSlots = 4
  MaxJobs = 3
  MaxDeps = 1
SPECIFICATION Spec
INVARIANTS
  StartsAfterDependencies
  RunsWithFedResult
  SignalNotEarly
  PoolsConserved
  NothingStranded
SYMMETRY WorkerSymmetry
CHECK_DEADLOCK TRUE
