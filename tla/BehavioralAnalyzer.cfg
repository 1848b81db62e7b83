\* Two handlers with events of two processes, and a window of three values.
SPECIFICATION MCSpec
CONSTANTS
  WindowSize = 3
  Thresholds = {0, 1}
  Pids = {1, 2}
  Handlers = {h1, h2}
  Limits = {0, 1}
SYMMETRY Symmetry
INVARIANTS
  OnlyDeadKeepTheLock
  WorkOnlyWhileStarted
PROPERTY UndisturbedAlarm
\* A handler that dies under tree_lock stops everything.
CHECK_DEADLOCK FALSE
