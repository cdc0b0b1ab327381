SPECIFICATION Spec
CONSTANTS
  Names = {1}
  MaxQueues = 1
  Principals = {1}
  CapabilitySets <- MCCapabilitySets
  Classes = {1}
  Pools = {1}
  MaxBackends = 1
  Incarnations = {1}
  Lives = {1}
  Levels = {0, 1}
  Maxima = {0}
  Evidence <- MCEvidence
  MaxDrainRecords = 2
  RequireAck = TRUE
  MaxAge = 1
  MaxSkew = 1
  MaxGeneration = 2
  MaxEpoch = 2
  MaxSample = 2
  MaxTime = 1
  MaxToken = 1
  JournalFaults = FALSE
  Workload <- DrainWorkload
INVARIANTS AckBound RetiredBare DrainInProgress
PROPERTIES QuiesceProven LifecycleRefinement
CHECK_DEADLOCK FALSE
