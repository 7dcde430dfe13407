SPECIFICATION CopySpec
CONSTANTS
  Overlays = {o1, o2, o3}
  None = None
  MaxCommits = 3
  MaxRemounts = 1
SYMMETRY MCSymmetry
INVARIANTS
  CopyKeepsCommits
  GateMatchesServed
  CommitsOnServed
