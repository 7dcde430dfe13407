SPECIFICATION LogSpec
CONSTANTS
  Keys = {k1, k2}
  Vals = {v1, v2}
  Gone = Gone
  Inodes = {i1, i2, i3}
  NoInode = NoInode
  Torn = Torn
  CompactionFloor = 2
  MaxLen = 5
SYMMETRY MCSymmetry
INVARIANTS
  Reopenable
PROPERTY
  DurableSpec
