SPECIFICATION Spec
CONSTANTS
  Names = {1, 2}
  MaxQueues = 2
  Principals = {1, 2}
  CapabilitySets <- MCCapabilitySets
  Classes = {1}
  Pools = {1}
  MaxBackends = 0
  Incarnations = {1}
  Lives = {1}
  Levels = {1}
  Maxima = {0}
  Evidence <- NoEvidence
  MaxDrainRecords = 2
  RequireAck = TRUE
  MaxAge = 0
  MaxSkew = 0
  MaxGeneration = 2
  MaxEpoch = 2
  MaxSample = 1
  MaxTime = 0
  MaxToken = 2
  JournalFaults = TRUE
  Workload <- FenceWorkload
INVARIANTS FenceConsistent FenceTokensDistinct
PROPERTIES FencedFrozen LifecycleRefinement
CHECK_DEADLOCK FALSE
