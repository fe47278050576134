SPECIFICATION FloppySpec
CONSTANTS
  CYLINDERS = 2
  head_count = 2
  sector_max = 3
  SECTOR = 2
  BUFFER = 8
  Counts = {0, 1, 3, 4, 5, 8}
  Texts = {1}
  Statuses = {2, 64, 128}
  Slow = FALSE
  MaxRequests = 2
INVARIANTS FloppyTypeOK WrittenThrough ReadAllButLast
PROPERTIES OnlyRequested TransfersEnd
\* After MaxRequests requests nothing happens any more.
CHECK_DEADLOCK FALSE
