----------------------------- MODULE MCStateLog -----------------------------
(* Small instances of StateLog for TLC.                                    *)
EXTENDS StateLog

\* The keys and the values are interchangeable: the log compares them only
\* for equality.
MCSymmetry == Permutations(Keys) \cup Permutations(Vals)
=============================================================================
