\* Two readers of one source compete for one permit; a buffer is shorter or longer
\* than a chunk, and a window that starts in the middle of a chunk ends short.
SPECIFICATION PrefetchSpec
CONSTANTS
  None = None
  Readers = {r1, r2}
  Threads = {1, 2}
  Limit = 1
  Parallel = 2
  Chunk = 2
  Size = 4
  Bufs = {1, 3}
  Hub = TRUE
  MaxSeeks = 1
SYMMETRY MCSymmetry
INVARIANTS ReadsInside PermitsHeld ReadsNeverWait
CHECK_DEADLOCK FALSE
