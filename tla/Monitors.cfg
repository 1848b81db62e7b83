\* Two handlers report two violations while monitors come and go and root writes
\* the flags.
SPECIFICATION MCSpec
CONSTANTS
  Monitors = {"process", "network", "syscall"}
  Cpus = {c1, c2}
  MaxViolations = 2
  MaxLeaks = 1
SYMMETRY Symmetry
INVARIANTS
  MonitorAllOrNothing
  StatsBalance
  OnlyUnprivilegedLeak
PROPERTY UndisturbedResponse
CHECK_DEADLOCK FALSE
