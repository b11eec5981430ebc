CONSTANTS
  Windows = {main}
  Orders = {1}
  MaxInFlight = 1
  MaxBeats = 3
  MaxLosses = 1
  MaxEvents = 2
SPECIFICATION Spec
PROPERTIES
  AcquiresConfigured
CHECK_DEADLOCK TRUE
