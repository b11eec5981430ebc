CONSTANTS
  Windows = {main}
  Orders = {1}
  MaxInFlight = 2
  MaxBeats = 3
  MaxLosses = 1
  MaxEvents = 2
SPECIFICATION Spec
INVARIANTS
  EncodersInTheirFrame
  CapturesAccounted
  StaleConfigurationsMarked
  ClosedWindowsForgotten
PROPERTIES
  SurfaceHeldUntilPresent
CHECK_DEADLOCK TRUE
