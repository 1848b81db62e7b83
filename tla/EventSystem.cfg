\* More events than the ring holds and exit_event_system at any moment,
\* against two publishers, or against one publisher and
\* process_pending_events.
SPECIFICATION MCSpec
CONSTANTS
  QueueSize  = 3
  MaxBatch   = 1
  MaxEvents  = 3
  Publishers = {p1, p2}
  Flushers   = {f}
  Worker     = w
  NoEvent    = NoEvent
  Unloads    = TRUE
INVARIANTS
  TypeOK
  CountIsPendingPlusDropped
  EventsAccountedFor
  EachEventInOnePlace
  ThreadOrder
  ProcessedNotOverstated
  StatsBalance
  NoLostWakeup
  WorkerStoppedBeforeFree
PROPERTIES
  RestIsFinal
  UnloadFinishes
  ImplementsFifo
\* A run ends when its events are used up and the module is unloaded.
CHECK_DEADLOCK FALSE
