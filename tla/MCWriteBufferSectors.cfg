\* Any run of sectors.
SPECIFICATION Spec
CONSTANTS
  nr_parts = 3
  pgs_per_oneshotpg = 3
  secs_per_pg = 2
  size = 36
  nr_sq = 1
  None = None
  MaxPages = 6
  MaxSectors = 4
  Requests <- AnySectors
INVARIANT RemainingWithinSize
CHECK_DEADLOCK FALSE
