SPECIFICATION RollSpec
CONSTANTS
    a = a
    b = b
    Names <- MCNames
    MaxGen = 3
    MaxVersion = 3
    MaxFaults = 2
SYMMETRY Swapped
INVARIANTS
    RemountShowsLatest
    AcceptedCommits
    MountShowsLatest
