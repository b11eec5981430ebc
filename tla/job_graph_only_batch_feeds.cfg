\* Two publications, one of which schedules after a job of the other.
CONSTANTS
  p1 = p1  p2 = p2  w1 = w1  w2 = w2  n1 = n1
  Publications = {p1, p2}
  Panicking = {}
  Workers = {w1}
  Notifiers = {}
  Slots = 2
  EdgeSlots = 2
  MaxJobs = 2
  MaxDeps = 0
SPECIFICATION Spec
INVARIANTS
  OnlyBatchFeeds
CHECK_DEADLOCK TRUE
