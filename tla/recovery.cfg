SPECIFICATION Spec
CONSTANTS
  n1 = n1
  n2 = n2
  Names <- MCNames
  Maxima = {1}
  MaxQueues = 2
  MaxGeneration = 2
  MaxEpoch = 3
  MaxAttempt = 3
  MaxMemo = 1
  MaxSize = 37
  MaxIncidents = 2
  TornWrites = TRUE
  SyncFaults = TRUE
  Workload = {"declare_queue", "set_thresholds", "acknowledge_backend", "grant_capabilities", "advance_epoch", "compact", "decay"}
SYMMETRY NameSymmetry
INVARIANT TypeOK
PROPERTIES RestoresCommitted RestartAdvancesEpoch
CHECK_DEADLOCK FALSE
