SPECIFICATION FairSpec
CONSTANTS
  p1 = p1
  p2 = p2
  a = a
  b = b
  x = x
  y = y
  d1 = d1
  d2 = d2
  z = z
  Procs = {p1, p2}
  Dirs = {d1}
  Paths = {x, z}
  Home <- MCHome
  PathsOf <- MCPathsOf
  Contents = {a, b}
  Base = a
  Len <- MCLen
  Common <- MCCommon
  Times = {1}
  Mixed = Mixed
  NoProc = NoProc
  NoJournal = NoJournal
  NoPath = NoPath
  StatMayFail = TRUE
  MaxAttempts = 1
  MaxFaults = 2

INVARIANTS
  TypeOK
  PowerLossRecoverable
PROPERTIES
  AnswersHold
  Atomic
  RecoveryEnds
