SPECIFICATION Spec
CONSTANTS
  MaxCalls = 4
  MaxConnections = 1
  MaxEpoch = 2
  MaxFlight = 2
INVARIANTS AppliedReported
CHECK_DEADLOCK FALSE
