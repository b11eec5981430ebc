CONSTANTS
  w1 = w1  w2 = w2  main1 = main1
  plugin1 = plugin1  plugin2 = plugin2  outsider = outsider
  Workers = {w1, w2}
  Main = main1
  Plugins = {plugin1}
  Outsiders = {outsider}
  NoJob = NoJob
  Jobs <- RunnerJobs
  Pinned = {"pinned"}
  Batch <- RunnerBatch
  DependsOn <- RunnerDependsOn
SPECIFICATION FairSpec
INVARIANTS
  DrainWaitsUnlessCrossed
  NoLostWakeup
PROPERTIES
  EveryJobFinishes
  DrainReturns
CHECK_DEADLOCK TRUE
