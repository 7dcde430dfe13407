SPECIFICATION RowsSpec
CONSTANTS
  p1 = p1
  p2 = p2
  a = a
  b = b
  x = x
  y = y
  d1 = d1
  d2 = d2
  z = z
  Procs = {p1, p2}
  Overlays = {p1}
  RecordedAt = x
  Committers = {p1, p2}
  Dirs = {d1}
  Paths = {x, z}
  Home <- MCHome
  PathsOf <- MCPathsOf
  Contents = {a, c2}
  c2 = c2
  Base = a
  Len <- MCLen
  Common <- MCCommon
  Times = {1, 2}
  Mixed = Mixed
  NoProc = NoProc
  NoJournal = NoJournal
  NoPath = NoPath
  StatMayFail = TRUE
  MaxAttempts = 2
  MaxFaults = 1
INVARIANTS
  NoLostUpdate
  RowsFollowArchive
  OwnJournalAgrees
  CommitsOnRecorded
