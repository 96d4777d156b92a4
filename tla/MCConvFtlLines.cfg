\* Three logical pages on six lines of two pages; scored victims; the least
\* threshold with which the lines do not run out.
SPECIFICATION Spec
CONSTANTS
  Lines = {l1, l2, l3, l4, l5, l6}
  Lpns = {a, b, c}
  nchs = 1
  luns_per_ch = 1
  pgs_per_oneshotpg = 2
  pgs_per_flashpg = 1
  pgs_per_blk = 2
  gc_thres_lines_high = 1
  GREEDY = FALSE
  NULL = NULL
  UNMAPPED_PPA = UNMAPPED_PPA
  INVALID_LPN = INVALID_LPN
SYMMETRY Symmetry
INVARIANTS MappingConsistent NoOrphanPage LineCountersExact EachLineInOnePlace QueuedLinesGainSpace NeverRunsDry
PROPERTIES GcMovesOnlyTheVisitedPage
