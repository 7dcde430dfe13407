--------------------------- MODULE MCCopyFallback ---------------------------
(* Small instances of CopyFallback for TLC.                                *)
EXTENDS CopyFallback, TLC

\* Overlays are compared only for equality.
MCSymmetry == Permutations(Overlays)
=============================================================================
