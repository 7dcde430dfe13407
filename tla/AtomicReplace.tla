--------------------------- MODULE AtomicReplace ---------------------------
(***************************************************************************)
(* What the commit journal promises its callers: the suffix of an archive  *)
(* has one version at any time; a replacement offers a new one, and either *)
(* that version becomes the archive's in a single step or nothing happens. *)
(* A crash may decide a replacement either way, but never yields a version *)
(* nobody is offering and never takes a decision back.                     *)
(***************************************************************************)
CONSTANT Contents

VARIABLES version, offered

Init == version \in Contents /\ offered = {}

Offer == \E c \in Contents : offered' = offered \cup {c} /\ UNCHANGED version

Decide == version' \in offered /\ offered' \subseteq offered

Withdraw == offered' \subseteq offered /\ UNCHANGED version

Next == Offer \/ Decide \/ Withdraw

Spec == Init /\ [][Next]_<<version, offered>>
=============================================================================
