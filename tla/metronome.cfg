CONSTANTS
  update = update  render = render
  Tracks = {update, render}
  NoTrack = NoTrack
  Configs <- StrictOrLoose
  Durations = {1, 3}
  MaxCalls = 2
  MaxTime = 4
SPECIFICATION FairSpec
INVARIANTS
  StepsAddUp
  SignalsTellTheirBeat
PROPERTIES
  InterpolationMatches
  AdvanceKeepsPace
  CallsReturn
CHECK_DEADLOCK TRUE
