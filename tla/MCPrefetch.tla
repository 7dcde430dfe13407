----------------------------- MODULE MCPrefetch -----------------------------
(* Instances of Prefetch for TLC. *)
EXTENDS Prefetch, TLC

\* Readers are compared only for equality.
MCSymmetry == Permutations(Readers)
=============================================================================
