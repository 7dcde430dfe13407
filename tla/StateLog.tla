------------------------------ MODULE StateLog ------------------------------
(***************************************************************************)
(* The append-only state log of the sandbox daemon (sandbox/state_log.rs): *)
(* open, replay, append, truncation of a failed append, and compaction.    *)
(*                                                                         *)
(* One daemon holds the log (daemon::lock).  A file has the content        *)
(* programs see (`seen`) and the content a power loss is sure to keep      *)
(* (`safe`); the log's name likewise leads to an inode at once             *)
(* (`name`) and durably only after a directory sync (`safeName`).          *)
(* A line is one unit of length.                                           *)
(***************************************************************************)
EXTENDS LogRecords, Naturals, FiniteSets

CONSTANTS
  Inodes,          \* the files the name may lead to
  NoInode,         \* no file, or no descriptor
  Torn,            \* a damaged line: short, or zero-filled after a crash
  CompactionFloor, \* Records::compaction_floor
  MaxLen           \* bound: the longest log

ASSUME LogAssumption ==
  /\ NoInode \notin Inodes
  /\ Torn \notin Line
  /\ Gone \notin Vals
  /\ CompactionFloor \in Nat /\ MaxLen \in Nat

VARIABLES
  seen, safe,      \* content of each file: visible, and durable
  name, safeName,  \* the inode the log's name leads to: visible, and durable
  pc,              \* where the daemon is
  file,            \* StateLog.file
  len,             \* StateLog.len
  mem,             \* StateLog.records; after a crash, what the dead daemon held
  broken,          \* StateLog.broken
  backoff,         \* StateLog.since_failed_compaction: {} or {lines}
  asked,           \* the line of the call in flight, or left in doubt
  compacts         \* whether the call in flight ends with maybe_compact

disk == <<seen, safe, name, safeName>>
memory == <<file, len, mem, broken, backoff>>
logVars == <<disk, memory, pc, asked, compacts>>

Open == {"idle", "written", "failed", "applied", "staged", "renamed"}
Opening == {"opened", "fileSynced", "dirSynced"}

LogTypeOK ==
  /\ seen \in [Inodes -> Seq(Line \cup {Torn})]
  /\ safe \in [Inodes -> Seq(Line \cup {Torn})]
  /\ name \in Inodes \cup {NoInode}
  /\ safeName \in Inodes \cup {NoInode}
  /\ pc \in {"down"} \cup Opening \cup Open
  /\ file \in Inodes \cup {NoInode}
  /\ len \in Nat
  /\ mem \in Seq(Line)
  /\ broken \in BOOLEAN
  /\ backoff \in SUBSET Nat /\ Cardinality(backoff) <= 1
  /\ asked \in SUBSET Line /\ Cardinality(asked) <= 1
  /\ compacts \in BOOLEAN

Init ==
  /\ seen = [i \in Inodes |-> <<>>] /\ safe = seen
  /\ name = NoInode /\ safeName = NoInode
  /\ pc = "down" /\ file = NoInode /\ len = 0 /\ mem = <<>>
  /\ broken = FALSE /\ backoff = {}
  /\ asked = {} /\ compacts = FALSE

\* A file no name or descriptor leads to; it is empty.
Fresh == CHOOSE i \in Inodes : i \notin {name, safeName, file}
Freed(content, i) == [content EXCEPT ![i] = <<>>]

-----------------------------------------------------------------------------
(* Open: every sync comes before anything is acted on.                     *)

Goto(state) == pc' = state

\* open_checked: the file is created when missing.
OpenChecked ==
  /\ pc = "down" /\ Goto("opened")
  /\ IF name # NoInode
     THEN file' = name /\ UNCHANGED disk
     ELSE file' = Fresh /\ name' = Fresh /\ UNCHANGED <<seen, safe, safeName>>
  /\ UNCHANGED <<len, mem, broken, backoff, asked, compacts>>

\* What a killed daemon left visible is made durable before it is read.
SyncFile ==
  /\ pc = "opened" /\ Goto("fileSynced")
  /\ safe' = [safe EXCEPT ![file] = seen[file]]
  /\ UNCHANGED <<seen, name, safeName, memory, asked, compacts>>

SyncStateDir ==
  /\ pc = "fileSynced" /\ Goto("dirSynced")
  /\ safeName' = name
  /\ IF safeName \in Inodes \ {name}
     THEN seen' = Freed(seen, safeName) /\ safe' = Freed(safe, safeName)
     ELSE UNCHANGED <<seen, safe>>
  /\ UNCHANGED <<name, memory, asked, compacts>>

OpenRefused(content) ==
  /\ seen' = [seen EXCEPT ![file] = content]
  /\ file' = NoInode /\ Goto("down")
  /\ UNCHANGED <<safe, name, safeName, len, mem, broken, backoff, asked, compacts>>

\* A failed sync of the file or the directory refuses the open.
OpenSyncFails ==
  /\ pc \in {"opened", "fileSynced"}
  /\ OpenRefused(seen[file])

Damaged(content) == {i \in DOMAIN content : content[i] = Torn}
LiveOf(content) == FoldLeft(ApplyLine, <<>>, content)
Untorn(content) == IF Damaged(content) = {} THEN content ELSE Front(content)
OnlyTailDamaged(content) == Damaged(content) \subseteq {Len(content)}

\* replay, with truncate_tail when the last line is torn.
Replay ==
  /\ pc = "dirSynced"
  /\ OnlyTailDamaged(seen[file])
  /\ LET content == Untorn(seen[file])
     IN /\ seen' = [seen EXCEPT ![file] = content]
        /\ safe' = [safe EXCEPT ![file] = content]
        /\ mem' = LiveOf(content)
        /\ len' = Len(content)
  /\ asked' = {} /\ Goto("idle")
  /\ UNCHANGED <<name, safeName, file, broken, backoff, compacts>>

\* A torn tail that cannot be truncated durably refuses the open.
ReplayFails ==
  /\ pc = "dirSynced" /\ Damaged(seen[file]) # {}
  /\ \/ OpenRefused(seen[file])
     \/ OnlyTailDamaged(seen[file]) /\ OpenRefused(Untorn(seen[file]))

-----------------------------------------------------------------------------
(* StateLog::write: one write of the whole line, a sync, and the           *)
(* truncation of a line that failed.                                       *)

Put(line) == seen' = [seen EXCEPT ![file] = Append(@, line)]

\* write_all of a line; `compact` tells the callers that end in
\* maybe_compact (finish_with, RetainedLog::append) from those that do not.
Write(line, compact) ==
  /\ pc = "idle" /\ ~broken /\ len < MaxLen
  /\ asked' = {line} /\ compacts' = compact
  /\ \/ Put(line) /\ Goto("written")
     \/ Put(Torn) /\ Goto("failed")
     \/ UNCHANGED seen /\ Goto("failed")
  /\ UNCHANGED <<safe, name, safeName, memory>>

\* mutant: the line is applied without its sync.
SyncDataSkipped ==
  /\ pc = "written"
  /\ len' = len + 1
  /\ \E line \in asked : mem' = ApplyLine(mem, line)
  /\ backoff' = {n + 1 : n \in backoff}
  /\ asked' = {}
  /\ Goto(IF compacts THEN "applied" ELSE "idle")
  /\ UNCHANGED <<disk, file, broken, compacts>>

\* The synced line: the caller applies it to memory, then may compact.
SyncData ==
  /\ pc = "written"
  /\ safe' = [safe EXCEPT ![file] = seen[file]]
  /\ len' = len + 1
  /\ \E line \in asked : mem' = ApplyLine(mem, line)
  /\ backoff' = {n + 1 : n \in backoff}
  /\ asked' = {}
  /\ Goto(IF compacts THEN "applied" ELSE "idle")
  /\ UNCHANGED <<seen, name, safeName, file, broken, compacts>>

\* A failed sync may still have written the line.
SyncDataFails ==
  /\ pc = "written" /\ Goto("failed")
  /\ safe' \in {safe, [safe EXCEPT ![file] = seen[file]]}
  /\ UNCHANGED <<seen, name, safeName, memory, asked, compacts>>

Kept == SubSeq(seen[file], 1, len)

\* truncate(self.len): a `running` append leaves the log open, an outcome
\* append breaks it all the same (finish_with).
Truncate ==
  /\ pc = "failed" /\ Goto("idle")
  /\ seen' = [seen EXCEPT ![file] = Kept]
  /\ safe' = [safe EXCEPT ![file] = Kept]
  /\ broken' \in BOOLEAN
  /\ asked' = {}
  /\ UNCHANGED <<name, safeName, file, len, mem, backoff, compacts>>

\* mutant: a failed truncation leaves the log open.
TruncateFailsOpen ==
  /\ pc = "failed" /\ Goto("idle")
  /\ seen' \in {seen, [seen EXCEPT ![file] = Kept]}
  /\ asked' = {}
  /\ UNCHANGED <<safe, name, safeName, memory, compacts>>

TruncateFails ==
  /\ pc = "failed" /\ Goto("idle")
  /\ seen' \in {seen, [seen EXCEPT ![file] = Kept]}
  /\ broken' = TRUE
  /\ UNCHANGED <<safe, name, safeName, file, len, mem, backoff, asked, compacts>>

-----------------------------------------------------------------------------
(* maybe_compact: the live lines in a synced new file, renamed over the    *)
(* log, then the directory sync.                                           *)

CompactionDue ==
  /\ len > 2 * Len(mem)
  /\ len > CompactionFloor
  /\ \A appended \in backoff : appended >= Len(mem)

SkipCompaction ==
  /\ pc = "applied" /\ ~CompactionDue /\ Goto("idle")
  /\ UNCHANGED <<disk, memory, asked, compacts>>

\* write_compacted: a synced temporary file beside the log.
WriteCompacted ==
  /\ pc = "applied" /\ CompactionDue /\ Goto("staged")
  /\ seen' = [seen EXCEPT ![Fresh] = mem]
  /\ safe' = [safe EXCEPT ![Fresh] = mem]
  /\ file' = Fresh
  /\ UNCHANGED <<name, safeName, len, mem, broken, backoff, asked, compacts>>

\* write_compacted or the rename fails: backoff, the old file stays.
CompactionFails ==
  /\ \/ pc = "applied" /\ CompactionDue
     \/ pc = "staged"
  /\ backoff' = {0} /\ file' = name /\ Goto("idle")
  /\ LET temp == IF pc = "staged" THEN file ELSE Fresh
     IN seen' = Freed(seen, temp) /\ safe' = Freed(safe, temp)
  /\ UNCHANGED <<name, safeName, len, mem, broken, asked, compacts>>

\* temp.persist: the old descriptor is dropped and appends are refused.
Persist ==
  /\ pc = "staged" /\ Goto("renamed")
  /\ name' = file /\ broken' = TRUE
  /\ UNCHANGED <<seen, safe, safeName, file, len, mem, backoff, asked, compacts>>

SyncCompactedDir ==
  /\ pc = "renamed" /\ Goto("idle")
  /\ seen' = Freed(seen, safeName) /\ safe' = Freed(safe, safeName)
  /\ safeName' = name
  /\ len' = Len(mem) /\ broken' = FALSE /\ backoff' = {}
  /\ UNCHANGED <<name, file, mem, asked, compacts>>

SyncCompactedDirFails ==
  /\ pc = "renamed" /\ Goto("idle")
  /\ file' = NoInode
  /\ UNCHANGED <<disk, len, mem, broken, backoff, asked, compacts>>

-----------------------------------------------------------------------------
(* Crashes.  A killed daemon loses its memory; a power loss also what was  *)
(* not synced.                                                             *)

Die == /\ pc' = "down" /\ file' = NoInode
       /\ len' = 0 /\ broken' = FALSE /\ backoff' = {} /\ compacts' = FALSE
       /\ UNCHANGED <<mem, asked>>

\* A leftover temporary file is harmless (remove_leftovers).
Kill == /\ pc # "down" /\ Die
        /\ IF pc = "staged"
           THEN seen' = Freed(seen, file) /\ safe' = Freed(safe, file)
           ELSE UNCHANGED <<seen, safe>>
        /\ UNCHANGED <<name, safeName>>

\* What a power loss may leave of a file: all, none or a part of what was
\* not synced.
Images(i) ==
  {seen[i], safe[i]} \cup
  (IF Len(seen[i]) > Len(safe[i])
   THEN {Append(SubSeq(seen[i], 1, Len(seen[i]) - 1), Torn)} ELSE {})

PowerLoss ==
  /\ pc # "down" \/ seen # safe \/ name # safeName
  /\ name' \in {name, safeName} /\ safeName' = name'
  /\ \E image \in IF name' = NoInode THEN {<<>>} ELSE Images(name') :
       /\ seen' = [i \in Inodes |-> IF i = name' THEN image ELSE <<>>]
       /\ safe' = seen'
  /\ Die

-----------------------------------------------------------------------------
Next ==
  \/ OpenChecked \/ SyncFile \/ SyncStateDir \/ OpenSyncFails
  \/ Replay \/ ReplayFails
  \/ \E line \in Line, compact \in BOOLEAN : Write(line, compact)
  \/ SyncData \/ SyncDataFails \/ Truncate \/ TruncateFails
  \/ SkipCompaction \/ WriteCompacted \/ CompactionFails
  \/ Persist \/ SyncCompactedDir \/ SyncCompactedDirFails
  \/ Kill \/ PowerLoss

LogSpec == Init /\ [][Next]_logVars

-----------------------------------------------------------------------------
(* The log, whatever its files do, is the abstract durable log: what       *)
(* memory applied is what every later open replays, across kills, power    *)
(* losses, failed syncs, failed truncations and interrupted compactions.   *)
Durable == INSTANCE DurableLog WITH
             recs <- mem, doubt <- asked, serving <- pc \in Open
DurableSpec == Durable!AbsSpec

(* The log can always be opened again: whatever a power loss leaves of the *)
(* file under the log's name, damage is confined to its last line, which   *)
(* replay truncates.  A log damaged earlier would be refused at every      *)
(* start ("damaged request record ...; move it aside").                    *)
Reopenable ==
  \A i \in {name, safeName} \ {NoInode} :
    \A content \in Images(i) : OnlyTailDamaged(content)

=============================================================================
