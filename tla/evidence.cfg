SPECIFICATION Spec
CONSTANTS
  Names = {1}
  MaxQueues = 1
  Principals = {1}
  CapabilitySets <- MCCapabilitySets
  Classes = {1}
  Pools = {1}
  MaxBackends = 0
  Incarnations = {1}
  Lives = {1, 2}
  Levels = {1, 2}
  Maxima = {0, 1}
  Evidence <- NoEvidence
  MaxDrainRecords = 2
  RequireAck = TRUE
  MaxAge = 1
  MaxSkew = 1
  MaxGeneration = 2
  MaxEpoch = 3
  MaxSample = 1
  MaxTime = 2
  MaxToken = 1
  JournalFaults = FALSE
  Workload <- EvidenceWorkload
INVARIANTS TypeOK FreshEvidence OverflowReported
CHECK_DEADLOCK FALSE
