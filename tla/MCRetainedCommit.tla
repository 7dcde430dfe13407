-------------------------- MODULE MCRetainedCommit --------------------------
(* Small instances of RetainedCommit for TLC.                              *)
EXTENDS RetainedCommit, TLC

\* Attempt IDs are compared only for equality.
MCSymmetry == Permutations(AttemptIds)
=============================================================================
