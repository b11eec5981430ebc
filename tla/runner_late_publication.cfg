\* Two plugins, each publishing a single job before it stops, the late one pinned.
CONSTANTS
  w1 = w1  w2 = w2  main1 = main1
  plugin1 = plugin1  plugin2 = plugin2  outsider = outsider
  Workers = {w1}
  Main = main1
  Plugins = {plugin1, plugin2}
  Outsiders = {}
  NoJob = NoJob
  Jobs <- LateJobs
  Pinned = {"late"}
  Batch <- LateBatch
  DependsOn <- LateDependsOn
SPECIFICATION Spec
INVARIANTS
  DrainWaitsForAll
CHECK_DEADLOCK FALSE
