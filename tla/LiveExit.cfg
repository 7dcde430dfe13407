\* Local and remote mounts: interval and exit commits, with and without the
\* interval thread joined before the exit commit.
SPECIFICATION FairExit
CONSTANTS
  Files = {f1, f2}
  Other = Other
  None = None
  Remotes = {TRUE, FALSE}
  Joins = {TRUE, FALSE}
  Stores = {"match", "blind", "untagged"}
  RewriteStashed = FALSE
  MaxWrites = 2
  MaxForeign = 1
INVARIANTS
  NothingLost
  ReadersCurrent
  AppendOnce
  ExitCommitsAll
PROPERTIES
  ForeignKept
  ExitAnswers
