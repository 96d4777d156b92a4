\* Four entries, so that three requests are in flight and one is inserted
\* between two others; no request is refused.
SPECIFICATION Spec
CONSTANTS
  NR_MAX_PARALLEL_IO = 4
  MaxOps = 3
  MaxTime = 2
INVARIANTS
  ListsPartitionEntries
  SortedUnlessDue
CHECK_DEADLOCK FALSE
