----------------------------- MODULE LogRecords -----------------------------
(* The lines of a state log and what applying one does to the live         *)
(* records, as the record rules of retained.jsonl state it.                *)
EXTENDS Sequences, SequencesExt

CONSTANTS
  Keys,       \* the record names: request IDs or attempt IDs
  Vals,       \* what a line may say of its record
  Gone        \* the value of a line that ends its record (`aborted`)

Line == [key : Keys, val : Vals \cup {Gone}]

\* Records::apply: the line replaces its key's record, as the newest.
ApplyLine(live, line) ==
  LET others == SelectSeq(live, LAMBDA l : l.key # line.key)
  IN IF line.val = Gone THEN others ELSE Append(others, line)
=============================================================================
