--------------------------- MODULE MCJournalRows ---------------------------
(* Small instances of JournalRows for TLC.                                 *)
EXTENDS JournalRows, TLC

CONSTANTS a, b, c2, x, y, z, d1, d2, p1, p2

MCLen == [c \in Contents |-> IF c = c2 THEN 2 ELSE 1]
MCCommon ==
  [c \in Contents |-> [e \in Contents |-> IF c = e THEN Len[c] ELSE 0]]
MCPathsOf == [d \in Dirs |-> IF d = d1 THEN Paths \ {y} ELSE {y}]
MCHome == [d \in Dirs |-> IF d = d1 THEN x ELSE y]
=============================================================================
