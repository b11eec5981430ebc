CONSTANTS
  g1 = g1  g2 = g2  g3 = g3
  a = a  b = b
  Goroutines = {g1, g2, g3}
  Jobs <- FairJobs
  Resources = {a, b}
  Reads <- FairReads
  Writes <- FairWrites
  NoGoroutine = NoGoroutine
SPECIFICATION FairSpec
INVARIANTS
  TypeOK
  MutualExclusion
  LockStateExact
  NoRequestLeftBehind
  QuietWaitersAreBlocked
PROPERTIES
  WriterNotOvertaken
  ImplementsResourceLocks
  EveryRequestGranted
CHECK_DEADLOCK TRUE
