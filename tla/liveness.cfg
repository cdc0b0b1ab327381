SPECIFICATION Spec
CONSTANTS
  Nodes = {1}
  Queues = {1, 2}
  Frames = {"hello", "heartbeat", "occupancy_batch", "stats_request", "malformed", "broken", "shutdown"}
  Roles = {"worker", "monitor"}
  MaxConnections = 2
  MaxFrames = 1
  MaxBuffered = 1
  MaxSubscribed = 1
  Deadline = 1
  MaxLinks = 2
  MaxBurst = 1
  MaxIncarnation = 1
  MaxSequence = 2
  MaxEpoch = 2
PROPERTIES CyclesEnd LossDetected
CHECK_DEADLOCK FALSE
