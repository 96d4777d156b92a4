\* One logical page on lines of sixteen pages (2 channels, 2 LUNs, 2 wordlines
\* of 2 flash pages each), so that every turn of the write pointers and of the
\* GC's scan is taken; greedy victims.
SPECIFICATION SpecById
CONSTANTS
  Lines = {1, 2, 3, 4, 5, 6}
  Lpns = {a}
  nchs = 2
  luns_per_ch = 2
  pgs_per_oneshotpg = 2
  pgs_per_flashpg = 1
  pgs_per_blk = 4
  gc_thres_lines_high = 3
  GREEDY = TRUE
  NULL = NULL
  UNMAPPED_PPA = UNMAPPED_PPA
  INVALID_LPN = INVALID_LPN
INVARIANTS TypeOK MappingConsistent ProgrammedInOrder
PROPERTIES CreditsComeBack
