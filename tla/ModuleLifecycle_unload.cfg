\* A flag cleared between insmod and rmmod.
SPECIFICATION Spec
CONSTANTS
  MonitorOrder  <- MCMonitorOrder
  Cpus          = {c1}
  MaxViolations = 1
INVARIANT AllMonitorsUnregistered
CHECK_DEADLOCK FALSE
