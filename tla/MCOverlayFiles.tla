--------------------------- MODULE MCOverlayFiles ---------------------------
(* Instances of OverlayFiles for TLC.                                       *)
EXTENDS OverlayFiles

CONSTANTS MaxQueue      \* bound: unsaved rows

QueueBound == Len(queue) <= MaxQueue
=============================================================================
