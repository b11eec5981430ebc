CONSTANTS
  k1 = k1  k2 = k2  w1 = w1  w2 = w2  main1 = main1  c1 = c1  c2 = c2
  Kernels = {k1, k2}
  PluginCount = 2
  Workers = {w1, w2}
  Main = main1
  Callers = {c1, c2}
  Workloads <- AllWorkloads
SPECIFICATION FairSpec
INVARIANTS
  LiveKernelsAreUp
  PluginsNest
  NoJobAfterPlugins
PROPERTIES
  QuitEnds
  KernelsGoAway
CHECK_DEADLOCK FALSE
