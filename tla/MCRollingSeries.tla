-------------------------- MODULE MCRollingSeries --------------------------
(***************************************************************************)
(* Small instances of RollingSeries: the names are interchangeable.         *)
(***************************************************************************)
EXTENDS RollingSeries, TLC

CONSTANTS a, b
MCNames == {a, b}
Swapped == Permutations(MCNames)
=============================================================================
