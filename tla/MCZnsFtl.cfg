\* Zones that end in the middle of a wordline, as those of the WD_ZN540 do (2 GB of
\* wordlines of 96 KB), one write buffer for all zones, and random write areas of a
\* wordline.
SPECIFICATION Spec
CONSTANTS
  nr_zones = 2
  zone_size = 3
  pgs_per_oneshotpg = 2
  write_unit = 1
  zone_wb_size = 0
  global_wb_size = 3
  zrwa_size = 2
  zrwafg_size = 1
  zrwa_buffer_size = 3
  Queues = {q1}
  MaxLength = 2
  MaxPending = 1
INVARIANT TypeOK ResourcesMatchStates WritePointerFits 
CHECK_DEADLOCK FALSE
