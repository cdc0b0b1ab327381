SPECIFICATION Spec
CONSTANTS
  MaxCalls = 3
  MaxConnections = 2
  MaxEpoch = 2
  MaxFlight = 2
INVARIANTS TypeOK
PROPERTIES AnswersOwnCall AnswersThisConnection EpochFollows CallReturns
CHECK_DEADLOCK FALSE
