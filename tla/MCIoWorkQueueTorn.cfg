\* The shortest case: a completed command, and its entry refilled while the
\* worker stands on it.
SPECIFICATION Spec
CONSTANTS
  NR_MAX_PARALLEL_IO = 3
  MaxOps = 4
  MaxTime = 1
INVARIANT CompletedOnce
CHECK_DEADLOCK FALSE
