\* Whole pages. The sizes keep the proportions of the SAMSUNG configuration:
\* two wordlines for every die, and a largest command of a third of them.
SPECIFICATION Spec
CONSTANTS
  nr_parts = 3
  pgs_per_oneshotpg = 3
  secs_per_pg = 2
  size = 36
  nr_sq = 2
  None = None
  MaxPages = 6
  MaxSectors = 1
  Requests <- WholePages
INVARIANT SpaceAccounted
PROPERTY SomeWriteIsAdmitted
