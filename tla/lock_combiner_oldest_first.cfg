\* A reader of two resources among writers of each.
CONSTANTS
  g1 = g1  g2 = g2  g3 = g3
  a = a  b = b
  Goroutines = {g1, g2}
  Jobs <- OvertakenJobs
  Resources = {a, b}
  Reads <- OvertakenReads
  Writes <- OvertakenWrites
  NoGoroutine = NoGoroutine
SPECIFICATION Spec
PROPERTIES
  ConflictsGrantedOldestFirst
CHECK_DEADLOCK TRUE
