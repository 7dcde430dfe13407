SPECIFICATION RetSpec
CONSTANTS
  AttemptIds = {a1, a2, a3}
  NoId = NoId
  MaxRetained = 2
  MaxInstances = 3
SYMMETRY MCSymmetry
INVARIANTS
  ReportedStays
  TreesRecorded
  LowersRetained
