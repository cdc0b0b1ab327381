SPECIFICATION Spec
CONSTANTS
  Nodes = {1}
  Queues = {1}
  Frames = {"hello", "occupancy_batch", "stats_request"}
  Roles = {"worker"}
  MaxConnections = 2
  MaxFrames = 2
  MaxBuffered = 2
  MaxSubscribed = 1
  Deadline = 1
  MaxLinks = 2
  MaxBurst = 2
  MaxIncarnation = 1
  MaxSequence = 1
  MaxEpoch = 1
INVARIANTS LossAlwaysDistrusted
CHECK_DEADLOCK FALSE
