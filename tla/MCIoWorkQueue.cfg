\* Three entries, so that the free list runs out and entries come round
\* while the worker still looks at them.
SPECIFICATION Spec
CONSTANTS
  NR_MAX_PARALLEL_IO = 3
  MaxOps = 4
  MaxTime = 1
INVARIANTS
  TypeOK
  ListsPartitionEntries
  CompletedOnceAndDone
  FreeEntriesAreDone
PROPERTIES
  DroppedOnlyWhenFull
  AcceptedIsCompleted
CHECK_DEADLOCK FALSE
