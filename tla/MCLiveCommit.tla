---------------------------- MODULE MCLiveCommit ----------------------------
(* Small instances of LiveCommit for TLC.                                  *)
EXTENDS LiveCommit, TLC

\* Files are compared only for equality.
MCSymmetry == Permutations(Files)
=============================================================================
