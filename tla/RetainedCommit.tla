--------------------------- MODULE RetainedCommit ---------------------------
(***************************************************************************)
(* How the sandbox daemon commits a finalized attempt to retained/         *)
(* (sandbox/retained.rs, commit_retained R1-R4) and what a restart finds   *)
(* (restore_retained, open_retained, reconcile in daemon.rs).              *)
(*                                                                         *)
(* R1 syncs the attempt's content, R2 logs its record, R3 renames          *)
(* attempts/ID to retained/ID, R4 syncs both directories and answers.      *)
(* Three stores can disagree after a crash: the directories, the content   *)
(* and the log.  The log's appends are those of DurableLog: accepted,      *)
(* rejected, or left in doubt until the next open.                         *)
(*                                                                         *)
(* An attempt is its instance number; idOf gives its ID.  A failed fsync   *)
(* drops what it could not write: syncing again succeeds and proves        *)
(* nothing, which is why the daemon poisons the device.                    *)
(***************************************************************************)
EXTENDS Naturals, FiniteSets

CONSTANTS
  AttemptIds,    \* IDs the daemon may draw
  NoId,
  MaxRetained,   \* --max-retained
  MaxInstances   \* bound: attempts ever created

Inst == 1..MaxInstances

ASSUME RetainAssumption == NoId \notin AttemptIds /\ MaxRetained \in Nat

VARIABLES
  idOf, retain, over,   \* each attempt's ID, its plan, its retained lowers
  tree, safeTree,       \* where its tree is: visible, and durable
  content,              \* its content: dirty, safe, dropped or damaged
  recs,                 \* the live records of retained.jsonl
  doubt,                \* the records the log holds if its last line counts
  up,
  live, logBroken,      \* the retained log in memory
  attempts,             \* Supervisor.attempts
  served, acked,        \* Supervisor.retained, and the acknowledged ones
  pins,                 \* the pins of the request log
  poisoned,             \* Supervisor.poisoned holds the state's device
  job,                  \* the finalize in progress
  reported              \* attempts whose retained report was answered

plan == <<idOf, retain, over>>
disk == <<tree, safeTree, content>>
log == <<recs, doubt, live, logBroken>>
memory == <<attempts, served, acked, pins, poisoned>>
retVars == <<plan, disk, log, up, memory, job, reported>>

Places == {"none", "attempts", "retained"}
NoJob == [at |-> "idle"]
Idle == up /\ job.at = "idle"
Drawn == {i \in Inst : idOf[i] # NoId}
Name(is) == {idOf[i] : i \in is}

RetTypeOK ==
  /\ idOf \in [Inst -> AttemptIds \cup {NoId}]
  /\ retain \in [Inst -> BOOLEAN] /\ over \in [Inst -> SUBSET Inst]
  /\ tree \in [Inst -> Places] /\ safeTree \in [Inst -> Places]
  /\ content \in [Inst -> {"dirty", "safe", "dropped", "damaged"}]
  /\ recs \subseteq Inst /\ live \subseteq Inst /\ doubt \in SUBSET SUBSET Inst
  /\ up \in BOOLEAN /\ logBroken \in BOOLEAN /\ poisoned \in BOOLEAN
  /\ attempts \subseteq Drawn /\ served \subseteq Drawn /\ acked \subseteq served
  /\ pins \subseteq Drawn /\ reported \subseteq Drawn
  /\ job.at \in {"idle", "sync", "record", "rename", "abort", "ack"}

Init ==
  /\ idOf = [i \in Inst |-> NoId] /\ retain = [i \in Inst |-> FALSE]
  /\ over = [i \in Inst |-> {}]
  /\ tree = [i \in Inst |-> "none"] /\ safeTree = tree
  /\ content = [i \in Inst |-> "dirty"]
  /\ recs = {} /\ doubt = {} /\ live = {} /\ logBroken = FALSE
  /\ up = TRUE /\ attempts = {} /\ served = {} /\ acked = {} /\ pins = {}
  /\ poisoned = FALSE /\ job = NoJob /\ reported = {}

-----------------------------------------------------------------------------
(* new: held, retain_preflight, the draw.                                  *)

\* held: live records and live attempts created with `retain`.  (Bare
\* names are names under retained/ without a record: see TreesRecorded.)
Held == Name(live \cup {i \in attempts : retain[i]})

\* mutant: a retained attempt is a lower before its commit is acknowledged.
LowersServed == served

\* retained_lowers
Lowers == acked

\* retain_preflight
RoomToRetain == Cardinality(Held) < MaxRetained

NewAttempt(i, id, keep, lowers) ==
  /\ Idle
  /\ i \notin Drawn /\ \A j \in Inst : j < i => j \in Drawn
  /\ id \notin Held \cup Name(attempts)
  /\ keep => RoomToRetain /\ ~logBroken
  /\ lowers \subseteq Lowers
  /\ idOf' = [idOf EXCEPT ![i] = id]
  /\ retain' = [retain EXCEPT ![i] = keep]
  /\ over' = [over EXCEPT ![i] = lowers]
  /\ tree' = [tree EXCEPT ![i] = "attempts"]
  /\ content' = [content EXCEPT ![i] = "dirty"]
  /\ attempts' = attempts \cup {i} /\ pins' = pins \cup {i}
  /\ UNCHANGED <<safeTree, log, up, served, acked, poisoned, job, reported>>

\* destroy: a served attempt is refused (it is not in the attempts map).
Destroy(i) ==
  /\ Idle /\ i \in attempts
  /\ tree' = [tree EXCEPT ![i] = "none"]
  /\ attempts' = attempts \ {i} /\ pins' = pins \ {i}
  /\ UNCHANGED <<plan, safeTree, content, log, up, served, acked, poisoned, job, reported>>

-----------------------------------------------------------------------------
(* finalize of an attempt created with `retain`.                           *)

At(step, i) == job' = [at |-> step, i |-> i]

\* finalize_target up to step S; every device check comes first.
Finalize(i) ==
  /\ Idle /\ ~poisoned
  /\ i \in attempts /\ retain[i] /\ ~logBroken
  /\ At("sync", i)
  /\ UNCHANGED <<plan, disk, log, up, memory, reported>>

\* finalize_retained: S again, and R4 when it is still owed.
Refinalize(i) ==
  /\ Idle /\ ~poisoned /\ i \in served
  /\ At("sync", i)
  /\ UNCHANGED <<plan, disk, log, up, memory, reported>>

\* R1: step S.  What an earlier failed fsync dropped is not written now.
SyncContent ==
  /\ up /\ job.at = "sync"
  /\ content' = [content EXCEPT ![job.i] = IF @ = "dirty" THEN "safe" ELSE @]
  /\ IF job.i \in attempts
     THEN /\ safeTree' = [safeTree EXCEPT ![job.i] = tree[job.i]]
          /\ At("record", job.i) /\ UNCHANGED reported
     ELSE /\ UNCHANGED safeTree
          /\ IF job.i \in acked
             THEN job' = NoJob /\ reported' = reported \cup {job.i}
             ELSE At("ack", job.i) /\ UNCHANGED reported
  /\ UNCHANGED <<plan, tree, log, up, memory>>

\* A call of step S fails: before an fsync (a path that cannot be opened),
\* or in it, which drops the pages it could not write.
SyncFails(poisons) ==
  /\ up /\ job.at = "sync" /\ job' = NoJob
  /\ \/ UNCHANGED <<content, poisoned>>
     \/ /\ content' = [content EXCEPT ![job.i] = IF @ = "dirty" THEN "dropped" ELSE @]
        /\ poisoned' = (poisoned \/ poisons)
  /\ UNCHANGED <<plan, tree, safeTree, log, up, attempts, served, acked, pins, reported>>

\* mutant: a failed fsync does not poison the device.
SyncContentRetry == SyncFails(FALSE)

SyncContentFails == SyncFails(TRUE)

\* The records once the line of a commit, or of its abort, is applied.
Recorded(set, i) == {j \in set : idOf[j] # idOf[i]} \cup {i}
Aborted(set, i) == {j \in set : idOf[j] # idOf[i]}

\* RetainedLog::append: accepted; rejected (truncated away); or left in
\* the file, with the log broken.
LogAppend(set) == recs' = set /\ live' = set /\ UNCHANGED <<doubt, logBroken>>
LogRejects == UNCHANGED log
LogBreaks(set) == doubt' = {set} /\ logBroken' = TRUE /\ UNCHANGED <<recs, live>>

\* mutant: the rename comes before the record.
AppendRetainedLate ==
  /\ up /\ job.at = "record" /\ At("rename", job.i)
  /\ UNCHANGED <<plan, disk, log, up, memory, reported>>

\* R2: the record, durable before the rename.
AppendRetained ==
  /\ up /\ job.at = "record"
  /\ \/ LogAppend(Recorded(live, job.i)) /\ At("rename", job.i)
     \/ LogRejects /\ job' = NoJob
     \/ LogBreaks(Recorded(live, job.i)) /\ job' = NoJob
  /\ UNCHANGED <<plan, disk, up, memory, reported>>

\* R3: the rename, and at once the maps.
Rename ==
  /\ up /\ job.at = "rename"
  /\ \A j \in Inst : tree[j] = "retained" => idOf[j] # idOf[job.i]
  /\ tree' = [tree EXCEPT ![job.i] = "retained"]
  /\ attempts' = attempts \ {job.i} /\ served' = served \cup {job.i}
  /\ At("ack", job.i)
  /\ UNCHANGED <<plan, safeTree, content, log, up, acked, pins, poisoned, reported>>

\* The rename fails (no RENAME_NOREPLACE, an existing name, an I/O error).
RenameFails ==
  /\ up /\ job.at = "rename" /\ At("abort", job.i)
  /\ UNCHANGED <<plan, disk, log, up, memory, reported>>

\* append_aborted; a failure is only logged.
AppendAborted ==
  /\ up /\ job.at = "abort" /\ job' = NoJob
  /\ \/ LogAppend(Aborted(live, job.i))
     \/ LogRejects
     \/ LogBreaks(Aborted(live, job.i))
  /\ UNCHANGED <<plan, disk, up, memory, reported>>

\* R4: retained/ and attempts/ synced, which covers every rename so far.
Acknowledge ==
  /\ up /\ job.at = "ack" /\ ~poisoned
  /\ safeTree' = [i \in Inst |-> IF tree[i] = "retained" THEN "retained" ELSE safeTree[i]]
  /\ acked' = acked \cup {job.i} /\ reported' = reported \cup {job.i}
  /\ job' = NoJob
  /\ UNCHANGED <<plan, tree, content, log, up, attempts, served, pins, poisoned>>

\* A directory cannot be opened, or its fsync fails.
AcknowledgeFails ==
  /\ up /\ job.at = "ack"
  /\ poisoned' \in {poisoned, TRUE} /\ job' = NoJob
  /\ UNCHANGED <<plan, disk, log, up, attempts, served, acked, pins, reported>>

-----------------------------------------------------------------------------
(* Crashes and the restart.                                                *)

Down ==
  /\ up' = FALSE /\ job' = NoJob
  /\ attempts' = {} /\ served' = {} /\ acked' = {} /\ pins' = {}
  /\ live' = {} /\ logBroken' = FALSE /\ poisoned' = FALSE

\* The line a call was appending when the daemon died.
InFlight ==
  CASE job.at = "record" -> {Recorded(live, job.i)}
    [] job.at = "abort" -> {Aborted(live, job.i)}
    [] OTHER -> {}

Kill ==
  /\ up /\ Down
  /\ doubt' = doubt \cup InFlight
  /\ UNCHANGED <<plan, disk, recs, reported>>

\* What a power loss may leave: each unsynced rename or removal done or not.
PowerLoss ==
  /\ Down
  /\ doubt' = doubt \cup (IF up THEN InFlight ELSE {})
  /\ \E kept \in SUBSET {i \in Inst : tree[i] # safeTree[i]} :
       tree' = [i \in Inst |-> IF i \in kept THEN tree[i] ELSE safeTree[i]]
  /\ safeTree' = tree'
  /\ content' = [i \in Inst |-> IF content[i] = "safe" THEN "safe" ELSE "damaged"]
  /\ up \/ tree # safeTree
  /\ UNCHANGED <<plan, recs, reported>>

\* restore_entry: the record's own tree, sealed and readable.
Restorable(set) == {i \in set : tree[i] = "retained" /\ content[i] # "damaged"}

\* The image a daemon restarts on once its open is done.
Reopened(set, entries, ok) ==
  /\ recs' = set /\ live' = set /\ doubt' = {}
  /\ served' = entries
  /\ safeTree' = IF ok /\ served' # {}
                 THEN [i \in Inst |-> IF tree[i] = "retained" THEN tree[i] ELSE safeTree[i]]
                 ELSE safeTree
  /\ IF ok THEN poisoned' = FALSE ELSE poisoned' \in BOOLEAN
  /\ tree' = [i \in Inst |-> IF tree[i] = "attempts" THEN "none" ELSE tree[i]]
  /\ attempts' = {} /\ up' = TRUE
  /\ UNCHANGED <<plan, content, logBroken, job, reported>>

\* Supervisor::open: the log is replayed, the restorable entries enter the
\* map and one R4 acknowledges them, reconcile removes every attempt, and
\* the live records are pinned.
Restarted(set, entries, ok) ==
  /\ Reopened(set, entries, ok)
  /\ acked' = (IF ok THEN entries ELSE {}) /\ pins' = set

\* A restorable entry whose files cannot be read now is left out.
Restart ==
  /\ ~up
  /\ \E set \in {recs} \cup doubt, ok \in BOOLEAN :
       \E entries \in SUBSET Restorable(set) :
         (~ok => entries # {}) /\ Restarted(set, entries, ok)

-----------------------------------------------------------------------------
Next ==
  \/ \E i \in Inst, id \in AttemptIds, keep \in BOOLEAN, lowers \in SUBSET Inst :
       NewAttempt(i, id, keep, lowers)
  \/ \E i \in Inst : Destroy(i) \/ Finalize(i) \/ Refinalize(i)
  \/ SyncContent \/ SyncContentFails \/ AppendRetained
  \/ Rename \/ RenameFails \/ AppendAborted \/ Acknowledge \/ AcknowledgeFails
  \/ Kill \/ PowerLoss \/ Restart

RetSpec == Init /\ [][Next]_retVars

-----------------------------------------------------------------------------
\* The places a tree may have after a power loss now.
MayBe(i) == {tree[i], safeTree[i]}
Logs == {recs} \cup doubt

(* An answered commit is for ever: whatever fails or crashes later, the    *)
(* tree is in retained/ with its content, its record is in the log, and    *)
(* what a restarted daemon has read of it is enough to serve it.           *)
ReportedStays ==
  \A i \in reported :
    /\ MayBe(i) = {"retained"} /\ content[i] = "safe"
    /\ \A set \in Logs : i \in set
    /\ i \in Restorable(recs)

(* "Every tree in retained/ therefore has a live record": in every image a *)
(* power loss may leave and for every outcome of a line in doubt; memory   *)
(* leads to the trees, between the calls of a finalize too; and an ID      *)
(* leads to one tree: no attempt is drawn with the ID of a tree that is    *)
(* in retained/ or that a crash may leave there.                           *)
TreesRecorded ==
  /\ \A i \in Inst : "retained" \in MayBe(i) => \A set \in Logs : i \in set
  /\ up => /\ \A i \in attempts : tree[i] = "attempts"
           /\ \A i \in served : tree[i] = "retained"
  /\ \A i, j \in Drawn :
       i # j /\ idOf[i] = idOf[j] /\ "retained" \in MayBe(i) =>
         "retained" \notin MayBe(j) /\ (j \in attempts => MayBe(j) = {"none"})

(* A retained attempt built over another one never outlives it: no crash   *)
(* keeps the upper tree's commit and undoes its lower's.                   *)
LowersRetained ==
  \A i \in Inst : "retained" \in MayBe(i) =>
    \A j \in over[i] : MayBe(j) = {"retained"} /\ content[j] = "safe"

=============================================================================
