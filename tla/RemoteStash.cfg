SPECIFICATION LiveSpec
CONSTANTS
  Files = {f1}
  Other = Other
  None = None
  Remotes = {TRUE}
  Joins = {TRUE}
  Stores = {"match"}
  RewriteStashed = TRUE
  MaxWrites = 2
  MaxForeign = 0
INVARIANT
  NothingLost
