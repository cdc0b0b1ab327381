SPECIFICATION Spec
CONSTANTS
  Names = {1}
  Maxima = {1}
  MaxQueues = 1
  MaxGeneration = 1
  MaxEpoch = 2
  MaxAttempt = 6
  MaxMemo = 6
  MaxSize = 80
  MaxIncidents = 0
  TornWrites = FALSE
  SyncFaults = FALSE
  Workload = {"declare_queue", "validate_queue", "activate_queue", "request_drain", "submit_drain_evidence", "quiesce_queue"}
PROPERTY RestoresAlways
CHECK_DEADLOCK FALSE
