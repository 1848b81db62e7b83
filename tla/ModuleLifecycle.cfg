\* Every failure of insmod, rmmod at any moment, handlers on two CPUs, the
\* flags written at any time.
SPECIFICATION FairSpec
CONSTANTS
  MonitorOrder  <- MCMonitorOrder
  Cpus          = {c1, c2}
  MaxViolations = 2
INVARIANTS
  NoProbeLeftBehind
  RollbackComplete
  OnlyExitPullsTheSocket
PROPERTY LoadAndUnloadReturn
\* The module is gone, or the machine is.
CHECK_DEADLOCK FALSE
