---------------------------- MODULE MCRequestLog ----------------------------
(* Small instances of RequestLog for TLC.                                  *)
EXTENDS RequestLog, TLC

\* Request IDs and attempt IDs are compared only for equality.
MCSymmetry == Permutations(ReqIds) \cup Permutations(AttemptIds)
=============================================================================
