----------------------------- MODULE DurableLog -----------------------------
(***************************************************************************)
(* What a state log of the sandbox daemon promises (requests.jsonl and     *)
(* retained.jsonl, sandbox/state_log.rs), with no file, sync or            *)
(* compaction in sight.                                                    *)
(*                                                                         *)
(* A line is accepted, rejected, or left in doubt by a crash or by an      *)
(* append that could not be undone.  Accepted lines are never lost,        *)
(* rejected ones never come back, and a line in doubt is decided once, by  *)
(* the next open.  Nothing is accepted while a line is in doubt.           *)
(***************************************************************************)
EXTENDS LogRecords

VARIABLES
  recs,       \* the live lines, oldest first
  doubt,      \* the line being appended, or left undecided
  serving     \* whether the log is open

absVars == <<recs, doubt, serving>>

AbsInit == recs = <<>> /\ doubt = {} /\ serving = FALSE

Start(line) == serving /\ doubt = {} /\ doubt' = {line} /\ UNCHANGED <<recs, serving>>

Accept == /\ serving
          /\ \E line \in doubt : recs' = ApplyLine(recs, line)
          /\ doubt' = {}
          /\ UNCHANGED serving

Reject == serving /\ doubt # {} /\ doubt' = {} /\ UNCHANGED <<recs, serving>>

Stop == serving /\ serving' = FALSE /\ UNCHANGED <<recs, doubt>>

Reopen == /\ ~serving
          /\ serving' = TRUE
          /\ recs' \in {recs} \cup {ApplyLine(recs, line) : line \in doubt}
          /\ doubt' = {}

AbsNext == (\E line \in Line : Start(line)) \/ Accept \/ Reject \/ Stop \/ Reopen

AbsSpec == AbsInit /\ [][AbsNext]_absVars
=============================================================================
