SPECIFICATION ReqSpec
CONSTANTS
  ReqIds = {r1, r2, r3}
  AttemptIds = {a1, a2}
  NoReq = NoReq
  New = New
  MaxRecords = 2
  MaxBytes = 3
  MaxInstances = 2
  MaxLines = 5
SYMMETRY MCSymmetry
INVARIANTS
  ReplayMatches
  ToldIsStored
  NamesUnambiguous
PROPERTY
  FinalizeRecordKept
