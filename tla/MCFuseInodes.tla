---------------------------- MODULE MCFuseInodes ----------------------------
(* Small instances of FuseInodes: two names, one a member at mount. *)
EXTENDS FuseInodes

MCNames == {"x", "y"}
OneMember == [n \in MCNames |-> IF n = "x" THEN 1 ELSE 0]
=============================================================================
