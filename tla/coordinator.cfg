SPECIFICATION Spec
CONSTANTS
  Nodes = {1}
  Queues = {1}
  Frames = {"hello", "occupancy_batch", "mutation"}
  Roles = {"worker"}
  MaxConnections = 2
  MaxFrames = 2
  MaxBuffered = 2
  MaxSubscribed = 1
  Deadline = 1
  MaxLinks = 2
  MaxBurst = 2
  MaxIncarnation = 2
  MaxSequence = 1
  MaxEpoch = 2
INVARIANTS TypeOK LossDistrusted
PROPERTIES NewestWins
CHECK_DEADLOCK FALSE
