-------------------------- MODULE MCCommitJournal --------------------------
(* Small instances of CommitJournal for TLC.                               *)
EXTENDS CommitJournal, TLC

CONSTANTS a, b, x, y, d1, d2, z, p1, p2

MCLen == [c \in Contents |-> IF c = a THEN 2 ELSE 3]
MCCommon ==
  [c \in Contents |-> [e \in Contents |-> IF c = e THEN Len[c] ELSE 1]]
Symmetry == Permutations(Procs)
MCPathsOf == [d \in Dirs |-> IF d = d1 THEN Paths \ {y} ELSE {y}]
MCHome == [d \in Dirs |-> IF d = d1 THEN x ELSE y]
=============================================================================
