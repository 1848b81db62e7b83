\* One overflow, then nothing more to do.
SPECIFICATION Spec
CONSTANTS
  QueueSize  = 3
  MaxBatch   = 2
  MaxEvents  = 3
  Publishers = {p1}
  Flushers   = {}
  Worker     = w
  NoEvent    = NoEvent
  Unloads    = FALSE
PROPERTY ReschedOnlyIfPending
CHECK_DEADLOCK FALSE
