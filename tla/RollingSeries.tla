--------------------------- MODULE RollingSeries ---------------------------
(***************************************************************************)
(* A rolling series (rolling.rs) under a write overlay: numbered archives,  *)
(* the newest one active and the older ones sealed, served as a union with  *)
(* the overlay on top.  Commits go to the active archive only and may start *)
(* the next one; the host may delete sealed archives at any time.           *)
(*                                                                          *)
(* A commit holds the overlay's gate, so no file operation runs inside it;  *)
(* deletions by the host and crashes of the mount do.  Writing an archive   *)
(* is one step here (CommitJournal and CopyFallback are about its inside),  *)
(* and a row of the overlay's database is durable when its operation        *)
(* returns (OverlayFiles is about the rows that are not).  Sizes and clocks *)
(* only decide whether a rotation is due, which is a free choice.           *)
(***************************************************************************)
EXTENDS Integers, FiniteSets

CONSTANTS
    Names,          \* file names of one folder
    MaxGen,         \* the last generation number (999999 in the code)
    MaxVersion,     \* bound: contents the clients write
    MaxFaults       \* bound: crashes and failed calls

ASSUME RollAssumption ==
    /\ MaxGen \in Nat \ {0}
    /\ MaxVersion \in Nat /\ MaxFaults \in Nat

Gens == 1 .. MaxGen
Nothing == 0                        \* no such file
Versions == Nothing .. MaxVersion
Tree == [Names -> Versions]
Empty == [n \in Names |-> Nothing]

VARIABLES
    files,      \* the archives the host folder holds, by generation
    content,    \* what each archive holds
    upper,      \* the overlay's files
    tomb,       \* names with a deleted row
    attrs,      \* names with rows in xattrs or overlay_metadata
    mounted,
    members,    \* the generations the mount knows; the largest is active
    source,     \* what the mount's opened archives hold
    empty,      \* State.empty: the active archive had no commit yet
    base,       \* "series", or "failed": FailedCommitSource, which has no names
    disabled,   \* interval_disabled
    pc, plan,   \* the commit under way
    fresh,      \* the last content written
    faults,
    tree,       \* history: what the clients' calls and the host promised
    unopened,   \* history: a next archive was created and did not open
    loose       \* history: names removed with no base to ask for a tombstone

host == <<files, content>>
seen == <<tree, loose>>
overlay == <<upper, tomb, attrs>>
series == <<members, source, empty>>
flags == <<base, disabled>>
commit == <<pc, plan>>
rollVars == <<files, content, upper, tomb, attrs, mounted, members, source,
              empty, base, disabled, pc, plan, fresh, faults, tree, unopened, loose>>

Steps == {"idle", "prepare", "persist", "reopen", "forget"}
NoPlan == [exit |-> FALSE, append |-> {}, delete |-> {}, attrs |-> {}, defer |-> FALSE]

MaxOf(S) == CHOOSE g \in S : \A h \in S : h <= g
Newest(S, in, n) ==
    LET holding == {g \in S : in[g][n] # Nothing}
    IN IF holding = {} THEN Nothing ELSE in[MaxOf(holding)][n]

-----------------------------------------------------------------------------
(* The mount's view.  rescan drops the members whose file is gone, and runs *)
(* before every look at the union.                                          *)

Active == MaxOf(members)
Live == members \cap files
Sealed == Live \ {Active}

InBase(n) == IF base = "failed" THEN Nothing ELSE Newest(Live, source, n)
View(n) ==
    IF upper[n] # Nothing THEN upper[n]
    ELSE IF n \in tomb THEN Nothing ELSE InBase(n)

(* mutant: only the copy the union shows *)
SealedShown(n) == source[Active][n] = Nothing /\ InBase(n) # Nothing

SealedContains(n) == \E g \in Sealed : source[g][n] # Nothing

(* What a mount of the disk as it is now would show.                        *)
Remounted(n) ==
    IF upper[n] # Nothing THEN upper[n]
    ELSE IF n \in tomb THEN Nothing ELSE Newest(files, content, n)

-----------------------------------------------------------------------------
Init ==
    /\ files = {} /\ content = [g \in Gens |-> Empty]
    /\ upper = Empty /\ tomb = {} /\ attrs = {}
    /\ mounted = FALSE
    /\ members = {} /\ source = [g \in Gens |-> Empty] /\ empty = FALSE
    /\ base = "series" /\ disabled = FALSE
    /\ pc = "idle" /\ plan = NoPlan
    /\ fresh = Nothing /\ faults = 0
    /\ tree = Empty /\ unopened = FALSE /\ loose = {}

(* with_clock: the series is discovered, or started with generation 1.      *)
(* A loose name may be back: what the clients see of it now is what counts. *)
Mount ==
    /\ ~mounted
    /\ mounted' = TRUE
    /\ empty' = (files = {})
    /\ files' = IF files = {} THEN {1} ELSE files
    /\ members' = files'
    /\ source' = [g \in Gens |-> IF g \in files THEN content[g] ELSE Empty]
    /\ tree' = [n \in Names |-> IF n \in loose THEN Newest(files, content, n) ELSE tree[n]]
    /\ loose' = {}
    /\ UNCHANGED <<content, overlay, flags, commit, fresh, faults, unopened>>

Unmounted ==
    /\ mounted' = FALSE
    /\ members' = {} /\ source' = [g \in Gens |-> Empty] /\ empty' = FALSE
    /\ base' = "series" /\ disabled' = FALSE
    /\ pc' = "idle" /\ plan' = NoPlan

Idle == mounted /\ pc = "idle"

(* A create, or a write that copies the member up first.                    *)
Write(n) ==
    /\ Idle /\ fresh < MaxVersion
    /\ fresh' = fresh + 1
    /\ upper' = [upper EXCEPT ![n] = fresh']
    /\ tomb' = tomb \ {n}
    /\ tree' = [tree EXCEPT ![n] = fresh'] /\ loose' = loose \ {n}
    /\ UNCHANGED <<host, attrs, mounted, series, flags, commit, faults, unopened>>

(* The base is not the archive on disk: refused, or not reopened.           *)
Behind == base = "failed" \/ source[Active] # content[Active]

(* mark_deleted asks the base of the mount.                                 *)
Hides(n) == IF InBase(n) # Nothing THEN {n} ELSE {}

Unlink(n) ==
    /\ Idle /\ View(n) # Nothing
    /\ ~SealedContains(n)
    /\ upper' = [upper EXCEPT ![n] = Nothing]
    /\ tomb' = (tomb \ {n}) \cup Hides(n)
    /\ attrs' = attrs \ {n}
    /\ tree' = [tree EXCEPT ![n] = Nothing]
    /\ loose' = loose \cup (IF Behind THEN {n} \ tomb' ELSE {})
    /\ UNCHANGED <<host, mounted, series, flags, commit, fresh, faults, unopened>>

(* The renamed file's attributes are written as rows of the new name.       *)
Rename(from, to) ==
    /\ Idle /\ from # to /\ View(from) # Nothing
    /\ ~SealedContains(from)
    /\ upper' = [upper EXCEPT ![to] = View(from), ![from] = Nothing]
    /\ tomb' = (tomb \ {from, to}) \cup Hides(from)
    /\ attrs' = (attrs \ {from}) \cup {to}
    /\ tree' = [tree EXCEPT ![to] = tree[from], ![from] = Nothing]
    /\ loose' = (loose \ {to}) \cup (IF Behind THEN {from} \ tomb' ELSE {})
    /\ UNCHANGED <<host, mounted, series, flags, commit, fresh, faults, unopened>>

SetXattr(n) ==
    /\ Idle /\ View(n) # Nothing
    /\ upper[n] # Nothing \/ ~SealedContains(n)
    /\ attrs' = attrs \cup {n}
    /\ UNCHANGED <<host, upper, tomb, mounted, series, flags, commit, fresh, faults, seen, unopened>>

(* Retention: the host deletes a sealed archive, and with it what only that *)
(* archive still held.                                                      *)
DeleteSealed(g) ==
    /\ g \in files /\ g # MaxOf(files)
    /\ mounted => g # Active
    /\ files' = files \ {g}
    /\ tree' = [n \in Names |->
         IF /\ upper[n] = Nothing /\ n \notin tomb \cup loose
            /\ Newest(files, content, n) = content[g][n]
         THEN Newest(files', content, n) ELSE tree[n]]
    /\ content' = [content EXCEPT ![g] = Empty]
    /\ UNCHANGED <<overlay, mounted, series, flags, commit, fresh, faults, unopened, loose>>

-----------------------------------------------------------------------------
(* Commits.                                                                 *)

Fault == faults < MaxFaults /\ faults' = faults + 1

(* The deletions and attributes of the plan that no appended file carries.  *)
Bare(p) == (p.delete \cup p.attrs) \ p.append

MakePlan(exit, settled) ==
    LET held == {n \in Names : upper[n] # Nothing} \ settled    \* skipped
    IN [exit |-> exit, append |-> settled, delete |-> tomb \cup settled,
        attrs |-> attrs \ held, defer |-> FALSE]

(* rolling_commit_target: a delete the active archive holds, or a bare      *)
(* attribute change, keeps this commit in the active archive.               *)
Defers(p) ==
    \/ \E n \in p.delete \ p.append : source[Active][n] # Nothing
    \/ p.attrs \ p.append # {}

Refused(p) == \E n \in Bare(p) : SealedContains(n)

(* An interval tick takes the settled files and all tombstones; the exit    *)
(* commit takes everything.                                                 *)
BeginCommit(exit, settled) ==
    LET p == MakePlan(exit, settled) IN
    /\ Idle /\ ~disabled
    /\ \A n \in settled : upper[n] # Nothing
    /\ exit => settled = {n \in Names : upper[n] # Nothing}
    /\ p.append \cup p.delete \cup p.attrs # {}
    /\ ~Refused(p)
    /\ pc' = "prepare" /\ plan' = [p EXCEPT !.defer = Defers(p)]
    /\ UNCHANGED <<host, overlay, mounted, series, flags, fresh, faults, seen, unopened>>

Gives == pc' = "idle" /\ plan' = NoPlan     \* the commit is over
Ends == IF plan.exit THEN Unmounted ELSE Gives /\ UNCHANGED <<mounted, series, flags>>

(* prepare_commit without a rotation.                                       *)
StayActive ==
    /\ pc = "prepare"
    /\ pc' = "persist" /\ plan' = plan
    /\ UNCHANGED <<host, overlay, mounted, series, flags, fresh, faults, seen, unopened>>

MayRotate == pc = "prepare" /\ ~empty /\ ~plan.defer

(* prepare_commit starts the next generation.  One that exists, or exceeds  *)
(* the last number (999999), is refused; one whose source does not open     *)
(* stays behind as an empty file.                                           *)
Rotate ==
    /\ MayRotate /\ Active + 1 \in Gens \ files
    /\ files' = files \cup {Active + 1}
    /\ members' = members \cup {Active + 1} /\ empty' = TRUE
    /\ pc' = "persist" /\ plan' = plan
    /\ UNCHANGED <<content, overlay, mounted, source, flags, fresh, faults, seen, unopened>>

RotateUnopened ==
    /\ MayRotate /\ Active + 1 \in Gens \ files
    /\ Fault
    /\ files' = files \cup {Active + 1}
    /\ Ends
    /\ unopened' = TRUE
    /\ UNCHANGED <<content, overlay, fresh, seen>>

RotateRefused ==
    /\ MayRotate /\ Active + 1 \notin Gens \ files
    /\ Ends
    /\ UNCHANGED <<host, overlay, fresh, faults, seen, unopened>>

(* mutant: the names of the other archives are the ones kept *)
WrittenElsewhere ==
    LET drop == {n \in plan.delete : source[Active][n] = Nothing}
    IN [n \in Names |-> IF n \in plan.append THEN upper[n]
                        ELSE IF n \in drop THEN Nothing ELSE content[Active][n]]

(* rolling_persist_plan and persist_by_format: the deletions the active     *)
(* archive holds and the appended files go into it.                         *)
Written ==
    LET drop == {n \in plan.delete : source[Active][n] # Nothing}
    IN [n \in Names |-> IF n \in plan.append THEN upper[n]
                        ELSE IF n \in drop THEN Nothing ELSE content[Active][n]]

Persist ==
    /\ pc = "persist"
    /\ content' = [content EXCEPT ![Active] = Written]
    /\ IF plan.exit THEN Unmounted
       ELSE pc' = "reopen" /\ UNCHANGED <<mounted, series, flags, plan>>
    /\ UNCHANGED <<files, overlay, fresh, faults, seen, unopened>>

(* Nothing was written: the archive is as it was, and the overlay keeps     *)
(* everything.                                                              *)
PersistFails ==
    /\ pc = "persist" /\ Fault
    /\ Ends
    /\ UNCHANGED <<host, overlay, fresh, seen, unopened>>

(* refuse_base_after_commit_failure: the archive was written and its base   *)
(* row or manifest was not, or a journal stays that the next mount rolls    *)
(* back or forward; until then nobody reads the archive.                    *)
PersistRefused ==
    /\ pc = "persist" /\ Fault
    /\ content' \in {content, [content EXCEPT ![Active] = Written]}
    /\ IF plan.exit THEN Unmounted
       ELSE base' = "failed" /\ disabled' = TRUE /\ Gives /\ UNCHANGED <<mounted, series>>
    /\ UNCHANGED <<files, overlay, fresh, seen, unopened>>

(* So does a failed recovery at the start of a commit.                      *)
RecoveryFails ==
    /\ Idle /\ ~disabled /\ Fault
    /\ base' = "failed" /\ disabled' = TRUE
    /\ UNCHANGED <<host, overlay, mounted, series, commit, fresh, seen, unopened>>

(* mutant: the old source stays *)
ReopenKeepsSource ==
    /\ pc = "reopen"
    /\ empty' = FALSE
    /\ pc' = "forget" /\ plan' = plan
    /\ UNCHANGED <<host, overlay, mounted, members, source, flags, fresh, faults, seen, unopened>>

(* committed: the active member's source is the reopened archive.           *)
Reopen ==
    /\ pc = "reopen"
    /\ source' = [source EXCEPT ![Active] = content[Active]]
    /\ empty' = FALSE
    /\ pc' = "forget" /\ plan' = plan
    /\ UNCHANGED <<host, overlay, mounted, members, flags, fresh, faults, seen, unopened>>

(* Interval commits stop.  In copy mode the old source stays; in append and *)
(* auto mode it may be torn, and FailedCommitSource takes its place.        *)
ReopenFailed ==
    /\ pc = "reopen" /\ Fault
    /\ disabled' = TRUE /\ base' \in {base, "failed"}
    /\ Gives
    /\ UNCHANGED <<host, overlay, mounted, series, fresh, seen, unopened>>

(* forget_committed_overlay: attribute rows, then files, then tombstones.   *)
ForgetAttrs ==
    /\ pc = "forget" /\ attrs \cap plan.attrs # {}
    /\ attrs' = attrs \ plan.attrs
    /\ UNCHANGED <<host, upper, tomb, mounted, series, flags, commit, fresh, faults, seen, unopened>>

ForgetFile(n) ==
    /\ pc = "forget" /\ attrs \cap plan.attrs = {}
    /\ n \in plan.append /\ upper[n] # Nothing
    /\ upper' = [upper EXCEPT ![n] = Nothing]
    /\ UNCHANGED <<host, tomb, attrs, mounted, series, flags, commit, fresh, faults, seen, unopened>>

FilesForgotten ==
    pc = "forget" /\ attrs \cap plan.attrs = {} /\ \A n \in plan.append : upper[n] = Nothing

ForgetTombstone(n) ==
    /\ FilesForgotten /\ n \in tomb \cap plan.delete
    /\ tomb' = tomb \ {n}
    /\ UNCHANGED <<host, upper, attrs, mounted, series, flags, commit, fresh, faults, seen, unopened>>

CommitDone ==
    /\ FilesForgotten /\ tomb \cap plan.delete = {}
    /\ Gives
    /\ UNCHANGED <<host, overlay, mounted, series, flags, fresh, faults, seen, unopened>>

ForgetFails ==
    /\ pc = "forget" /\ Fault
    /\ disabled' = TRUE /\ base' = base
    /\ Gives
    /\ UNCHANGED <<host, overlay, mounted, series, fresh, seen, unopened>>

(* The process dies, or the mount ends and its exit commit has nothing to   *)
(* do or is refused.                                                        *)
Crash ==
    /\ mounted /\ Fault
    /\ Unmounted
    /\ UNCHANGED <<host, overlay, fresh, seen, unopened>>

Exit ==
    LET p == MakePlan(TRUE, {n \in Names : upper[n] # Nothing}) IN
    /\ Idle
    /\ disabled \/ Refused(p) \/ p.append \cup p.delete \cup p.attrs = {}
    /\ Unmounted
    /\ UNCHANGED <<host, overlay, fresh, faults, seen, unopened>>

Next ==
    \/ Mount
    \/ \E n \in Names : Write(n) \/ Unlink(n) \/ SetXattr(n)
    \/ \E from, to \in Names : Rename(from, to)
    \/ \E g \in Gens : DeleteSealed(g)
    \/ \E exit \in BOOLEAN, settled \in SUBSET Names : BeginCommit(exit, settled)
    \/ StayActive \/ Rotate \/ RotateUnopened \/ RotateRefused
    \/ Persist \/ PersistFails \/ PersistRefused \/ RecoveryFails \/ Reopen \/ ReopenFailed
    \/ \E n \in Names : ForgetFile(n) \/ ForgetTombstone(n)
    \/ ForgetAttrs \/ CommitDone \/ ForgetFails
    \/ Crash \/ Exit

RollSpec == Init /\ [][Next]_rollVars

-----------------------------------------------------------------------------
(* Properties.                                                              *)

(* The types of the state; a commit is under way only while mounted, and a  *)
(* name with a file in the overlay has no deleted row.                      *)
RollTypeOK ==
    /\ files \subseteq Gens /\ content \in [Gens -> Tree]
    /\ upper \in Tree /\ tomb \subseteq Names /\ attrs \subseteq Names
    /\ mounted \in BOOLEAN /\ members \subseteq Gens /\ source \in [Gens -> Tree]
    /\ empty \in BOOLEAN /\ disabled \in BOOLEAN
    /\ base \in {"series", "failed"}
    /\ pc \in Steps /\ (pc # "idle" => mounted)
    /\ plan \in [exit : BOOLEAN, append : SUBSET Names, delete : SUBSET Names,
                 attrs : SUBSET Names, defer : BOOLEAN]
    /\ fresh \in Versions /\ faults \in 0 .. MaxFaults
    /\ tree \in Tree /\ unopened \in BOOLEAN /\ loose \subseteq Names
    /\ \A n \in Names : upper[n] # Nothing => n \notin tomb

(* Whenever the mount dies, and at whatever step of a commit, the next one  *)
(* shows the newest content of every name, through rotations, the host's    *)
(* deletions, archives that do not open and bases refused after a failed    *)
(* write, and no name that was removed (rolling_commit_target,              *)
(* refuse_sealed_delete, forget_committed_overlay).  The one exception is a *)
(* name removed, and not written again, while the mount's base was not the  *)
(* archive on disk: mark_deleted asked that base and left no tombstone.     *)
RemountShowsLatest == \A n \in Names \ loose : Remounted(n) = tree[n]

(* The running mount shows the newest contents too, between the steps of a  *)
(* commit and when the host deletes archives during one, also on an archive *)
(* it could not reopen, unless its base was refused: FailedCommitSource has *)
(* no names (RollingMountSource::view, rescan, committed).                  *)
MountShowsLatest == mounted /\ base = "series" => \A n \in Names : View(n) = tree[n]

(* What the overlay accepted can be committed: no tombstone and no bare     *)
(* attribute row names a member of a sealed archive, which                  *)
(* rolling_commit_target would refuse at every commit from then on.  Left   *)
(* out are series where the next archive was created and did not open: the  *)
(* next mount takes it for the active one.                                  *)
AcceptedCommits ==
    LET later == IF files = {} THEN {} ELSE files \ {MaxOf(files)}
    IN ~unopened =>
         \A n \in tomb \cup {m \in attrs : upper[m] = Nothing}, g \in later :
            content[g][n] = Nothing
=============================================================================
