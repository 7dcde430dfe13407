--------------------------- MODULE CommitJournal ---------------------------
(***************************************************************************)
(* The commit journal of ratarmount-compress (commit_journal.rs, mod unix):*)
(* how the suffix of an archive is replaced in place so that a crash at    *)
(* any point leaves either the old or the new bytes recoverable.           *)
(*                                                                         *)
(* One archive inode is modelled, with every process that replaces its     *)
(* suffix (`replace`) or recovers it (`recover`).  The bytes before the    *)
(* replaced offset never change and are left out; the rest is a "tail": a  *)
(* prefix of some content.  The inode (tail, mtime, locator xattr) and the *)
(* directories holding the journal each have a volatile and a durable      *)
(* copy; fsync makes them equal and a power loss may keep either.          *)
(*                                                                         *)
(* Every system call that changes the disk is one action; an error of a    *)
(* call, of a guard or of the caller's hook is the action StepFails (with  *)
(* MarkerHalfSet, PublishUnseen for calls that fail after their effect).   *)
(***************************************************************************)
EXTENDS Naturals

CONSTANTS
  Procs,        \* the processes that open the archive
  Dirs,         \* the directories holding a name (hard link) of the archive
  Paths,        \* path names
  PathsOf, Home,\* the ones a directory can have, and the one it starts with
  Contents,     \* the versions the replaced suffix can have
  Base,         \* the version the archive starts with
  Len, Common,  \* length of a version; common prefix of two versions
  Times,        \* what a file system clock can stamp on a write
  Mixed,        \* bytes of two versions interleaved by a lost fsync
  NoProc, NoJournal, NoPath,
  StatMayFail,  \* whether fstat of an open journal can fail
  MaxAttempts,  \* bound: replacements started
  MaxFaults     \* bound: failed calls, refusals, kills and power losses

ASSUME NamesAssumption ==
  /\ PathsOf \in [Dirs -> SUBSET Paths]
  /\ \A d, e \in Dirs : d # e => PathsOf[d] \cap PathsOf[e] = {}
  /\ Home \in [Dirs -> Paths]
  /\ \A d \in Dirs : Home[d] \in PathsOf[d]
  /\ NoPath \notin Paths
  /\ NoProc \notin Procs

ASSUME ContentAssumption ==
  /\ Base \in Contents
  /\ Mixed \notin Contents
  /\ Len \in [Contents -> Nat]
  /\ Common \in [Contents -> [Contents -> Nat]]
  /\ Times # {}

\* Versions are byte strings: two of them share at least the shorter of the
\* prefixes each shares with a third.
ASSUME PrefixAssumption ==
  \A c, d, e \in Contents :
    /\ Common[c][e] = Common[e][c]
    /\ Common[c][d] <= Common[c][e] \/ Common[d][e] <= Common[c][e]

ASSUME BoundAssumption ==
  MaxAttempts \in Nat /\ MaxFaults \in Nat /\ StatMayFail \in BOOLEAN

VARIABLES
  file, stable,   \* the inode: in memory, and as a power loss would leave it
  entry, dentry,  \* the journal in each directory: in memory, durable
  pathOf,         \* the current path of each directory
  lock,           \* holder of the archive's flock
  pc, job,        \* control point and local state of each process
  fresh,          \* same_stamp(original, now) would still be true
  result,         \* what the last call of each process returned
  attempts, faults

vars == <<file, stable, entry, dentry, pathOf, lock, pc, job, fresh, result,
          attempts, faults>>

-----------------------------------------------------------------------------
(* Bytes: a tail is the first n units of the version src.                  *)

Tail == [src : Contents \cup {Mixed}, n : Nat]

Full(c) == [src |-> c, n |-> Len[c]]

\* matches_tail: the tail t on disk is a prefix of the journaled tail u.
Prefix(t, u) ==
  /\ t.n <= u.n
  /\ \/ t.n = 0
     \/ t.src = u.src
     \/ /\ {t.src, u.src} \subseteq Contents
        /\ t.n <= Common[t.src][u.src]

Same(t, u) == t.n = u.n /\ Prefix(t, u)

\* The archive holds some version entirely.
Whole(t) == \E c \in Contents : Same(t, Full(c))

\* What a power loss can leave of a tail written as f over a durable s: an
\* append leaves a prefix, a truncation happens or does not, and a write over
\* a truncation that was never synced leaves a mixture.
TailImages(s, f) ==
  {s, f}
    \cup {[src |-> f.src, n |-> k] :
            k \in {i \in s.n .. f.n : s.src = f.src}}
    \cup {[src |-> Mixed, n |-> 1] :
            x \in {i \in {1} : s.src # f.src /\ s.n > 0 /\ f.n > 0}}

-----------------------------------------------------------------------------
(* Locators, journals, and the local state of a call.                      *)

Phases == {"-", "P", "A", "C", "D"}
Marker == [st : Phases, at : Paths \cup {NoPath}]
NoMarker == [st |-> "-", at |-> NoPath]

Inode == [tail : Tail, mtime : Times, marker : Marker]

\* id stands for the journal file's (dev, ino).
Journal == [id : 1 .. MaxAttempts, pre : Tail, preTime : Times, new : Tail]
ASSUME JournalAssumption == NoJournal \notin Journal

\* The Attempt record and the variables of the call on its stack.
Job == [op : {"none", "replace", "recover"}, via : Paths \cup {NoPath},
        jpath : Paths \cup {NoPath}, base : Tail, new : Tail, id : Nat,
        hdr : Journal \cup {NoJournal}, complete : BOOLEAN,
        prepared : BOOLEAN, published : BOOLEAN, completed : BOOLEAN,
        unlinked : BOOLEAN, synced : BOOLEAN]

NoJob == [op |-> "none", via |-> NoPath, jpath |-> NoPath, base |-> Full(Base),
          new |-> Full(Base), id |-> 0, hdr |-> NoJournal, complete |-> FALSE,
          prepared |-> FALSE, published |-> FALSE, completed |-> FALSE,
          unlinked |-> FALSE, synced |-> FALSE]

\* try_exists on a journal path, as the directories are named now.
JournalAt(path) == \E d \in Dirs : pathOf[d] = path /\ entry[d] # NoJournal

DirExists(path) == \E d \in Dirs : pathOf[d] = path

\* locate: the journal of the archive opened through the name `via`.  Every
\* journal here names the modelled inode, so header_names is JournalAt.
LocatePath(m, via) ==
  IF m.st = "-" \/ (~JournalAt(m.at) /\ JournalAt(via)) THEN via ELSE m.at

\* A journal under this locator is applied forward: the new bytes are whole.
OnlyComplete(st) == st = "C"                      \* mutant: D is forgotten
RollsForward(st) == st \in {"C", "D"}

PendingRefusal(path) == JournalAt(path) \/ file.marker.st # "-"

RunSteps == {"build", "markP", "publish", "syncPub", "markA", "trunc",
             "truncSync", "write", "writeSync", "markC", "hook", "markD",
             "unlink", "unlinkSync", "clear"}
CleanupSteps == {"failed", "dropMarker", "doneSync", "doneClear"}
RecoverSteps == {"locate", "staleSync", "staleClear"}
RollbackSteps == {"validate", "rbTrunc", "rbTruncSync", "rbCopy", "rbTimes",
                  "rbSync", "rbMark", "rbHook", "rbMarkD", "rbUnlink",
                  "rbUnlinkSync", "rbClear"}
LockedSteps == {"check"} \cup RunSteps \cup CleanupSteps \cup RecoverSteps
                 \cup RollbackSteps
Steps == {"idle", "lock", "rlock"} \cup LockedSteps

Results == {"none", "ok", "refused", "rolledBack", "pending", "committed",
            "nothing", "recovered", "journal", "dead"}

TypeOK ==
  /\ file \in Inode /\ stable \in Inode
  /\ entry \in [Dirs -> Journal \cup {NoJournal}]
  /\ dentry \in [Dirs -> Journal \cup {NoJournal}]
  /\ pathOf \in [Dirs -> Paths]
  /\ lock \in Procs \cup {NoProc}
  /\ pc \in [Procs -> Steps]
  /\ job \in [Procs -> Job]
  /\ fresh \in [Procs -> BOOLEAN]
  /\ result \in [Procs -> Results]
  /\ attempts \in 0 .. MaxAttempts
  /\ faults \in 0 .. MaxFaults

Init ==
  /\ \E t \in Times :
       file = [tail |-> Full(Base), mtime |-> t, marker |-> NoMarker]
  /\ stable = file
  /\ entry = [d \in Dirs |-> NoJournal]
  /\ dentry = entry
  /\ pathOf = Home
  /\ lock = NoProc
  /\ pc = [p \in Procs |-> "idle"]
  /\ job = [p \in Procs |-> NoJob]
  /\ fresh = [p \in Procs |-> FALSE]
  /\ result = [p \in Procs |-> "none"]
  /\ attempts = 0
  /\ faults = 0

-----------------------------------------------------------------------------
(* Effects of the system calls.                                            *)

At(p, step) == pc[p] = step

Goto(p, step) == pc' = [pc EXCEPT ![p] = step]

\* The call returns r: its descriptors close and its flock is released.
Return(p, r) ==
  /\ pc' = [pc EXCEPT ![p] = "idle"]
  /\ job' = [job EXCEPT ![p] = NoJob]
  /\ result' = [result EXCEPT ![p] = r]
  /\ lock' = IF lock = p THEN NoProc ELSE lock

Continue(p, step) == Goto(p, step) /\ UNCHANGED <<lock, result>>

\* Any change of the inode moves its ctime, which same_stamp compares.
Changed == fresh' = [q \in Procs |-> FALSE]

WriteInode(f) == file' = f /\ UNCHANGED stable /\ Changed
WriteThrough(f) == file' = f /\ stable' = f /\ Changed
SyncInode == stable' = file /\ UNCHANGED <<file, fresh>>

\* marker: fsetxattr, then fsync of the whole inode.
Marked(p, st) == [file EXCEPT !.marker = [st |-> st, at |-> job[p].jpath]]

\* mutant: a locator that is never cleared.
KeepMarker == UNCHANGED <<file, stable, fresh>>

\* clear_marker: nothing to do without a locator, else fremovexattr and fsync.
ClearMarker ==
  IF file.marker.st = "-"
  THEN UNCHANGED <<file, stable, fresh>>
  ELSE WriteThrough([file EXCEPT !.marker = NoMarker])

\* mutant: set_len of a difference of lengths instead of the offset.
TruncatedBy(src) == [file EXCEPT !.tail = [src |-> src, n |-> @.n - Len[src]]]

Truncated(src) == [file EXCEPT !.tail = [src |-> src, n |-> 0]]
Appended == [file EXCEPT !.tail = [src |-> @.src, n |-> @.n + 1]]

\* sync_parent of a journal path: an error when the directory has moved.
SyncParent(path) ==
  /\ DirExists(path)
  /\ dentry' = [d \in Dirs |->
                  IF pathOf[d] = path THEN entry[d] ELSE dentry[d]]
  /\ UNCHANGED entry

\* remove_file of the journal path.
Remove(path) ==
  /\ JournalAt(path)
  /\ entry' = [d \in Dirs |-> IF pathOf[d] = path THEN NoJournal ELSE entry[d]]
  /\ UNCHANGED dentry

-----------------------------------------------------------------------------
(* replace and run: the journaled replacement.                             *)

\* The caller plans a new suffix on the file it stats (`original`).
StartReplace(p) ==
  /\ At(p, "idle")
  /\ attempts < MaxAttempts
  /\ \E d \in Dirs, c \in Contents :
       job' = [job EXCEPT ![p] = [NoJob EXCEPT
                 !.op = "replace", !.via = pathOf[d], !.jpath = pathOf[d],
                 !.base = file.tail, !.new = Full(c), !.id = attempts + 1]]
  /\ attempts' = attempts + 1
  /\ fresh' = [fresh EXCEPT ![p] = TRUE]
  /\ Goto(p, "lock")
  /\ UNCHANGED <<file, stable, entry, dentry, pathOf, lock, result, faults>>

\* canonicalize, open and flock(LOCK_EX | LOCK_NB): busy is a refusal.
LockReplace(p) ==
  /\ At(p, "lock")
  /\ IF DirExists(job[p].via) /\ lock = NoProc
     THEN /\ lock' = p
          /\ Goto(p, "check")
          /\ UNCHANGED <<job, result>>
     ELSE Return(p, "refused")
  /\ UNCHANGED <<file, stable, entry, dentry, pathOf, fresh, attempts, faults>>

\* mutant: the archive is not compared with the plan's stat under the lock.
CheckPendingOnly(p) ==
  /\ At(p, "check")
  /\ IF PendingRefusal(job[p].via)
     THEN Return(p, "refused")
     ELSE Continue(p, "build") /\ UNCHANGED job
  /\ UNCHANGED <<file, stable, entry, dentry, pathOf, fresh, attempts, faults>>

\* pending_refusal, then same_stamp(original, now), under the lock.
Check(p) ==
  /\ At(p, "check")
  /\ IF PendingRefusal(job[p].via) \/ ~fresh[p]
     THEN Return(p, "refused")
     ELSE Continue(p, "build") /\ UNCHANGED job
  /\ UNCHANGED <<file, stable, entry, dentry, pathOf, fresh, attempts, faults>>

\* The temporary journal: header, old tail, new tail and CRC, synced.
BuildJournal(p) ==
  /\ At(p, "build")
  /\ DirExists(job[p].via)
  /\ job' = [job EXCEPT ![p].hdr =
               [id |-> job[p].id, pre |-> file.tail, preTime |-> file.mtime,
                new |-> job[p].new]]
  /\ Continue(p, "markP")
  /\ UNCHANGED <<file, stable, entry, dentry, pathOf, fresh, attempts, faults>>

MarkPrepared(p) ==
  /\ At(p, "markP")
  /\ WriteThrough(Marked(p, "P"))
  /\ job' = [job EXCEPT ![p].prepared = TRUE]
  /\ Continue(p, "publish")
  /\ UNCHANGED <<entry, dentry, pathOf, attempts, faults>>

\* persist_noclobber: the journal gets its name unless one is there already.
Publish(p) ==
  /\ At(p, "publish")
  /\ DirExists(job[p].jpath) /\ ~JournalAt(job[p].jpath)
  /\ entry' = [d \in Dirs |->
                 IF pathOf[d] = job[p].jpath THEN job[p].hdr ELSE entry[d]]
  /\ job' = [job EXCEPT ![p].published = TRUE]
  /\ Continue(p, "syncPub")
  /\ UNCHANGED <<file, stable, dentry, pathOf, fresh, attempts, faults>>

\* mutant: the directory is not synced before the archive is touched.
PublishedUnsynced(p) ==
  /\ At(p, "syncPub")
  /\ Continue(p, "markA")
  /\ UNCHANGED <<file, stable, entry, dentry, pathOf, job, fresh, attempts,
                 faults>>

SyncPublished(p) ==
  /\ At(p, "syncPub")
  /\ SyncParent(job[p].jpath)
  /\ Continue(p, "markA")
  /\ UNCHANGED <<file, stable, pathOf, job, fresh, attempts, faults>>

MarkActive(p) ==
  /\ At(p, "markA")
  /\ WriteThrough(Marked(p, "A"))
  /\ Continue(p, "trunc")
  /\ UNCHANGED <<entry, dentry, pathOf, job, attempts, faults>>

Truncate(p) ==
  /\ At(p, "trunc")
  /\ \E t \in Times :
       WriteInode([Truncated(job[p].new.src) EXCEPT !.mtime = t])
  /\ Continue(p, "truncSync")
  /\ UNCHANGED <<entry, dentry, pathOf, job, attempts, faults>>

SyncTruncate(p) ==
  /\ At(p, "truncSync")
  /\ SyncInode
  /\ Continue(p, "write")
  /\ UNCHANGED <<entry, dentry, pathOf, job, attempts, faults>>

\* One turn of the write loop.
WriteChunk(p) ==
  /\ At(p, "write")
  /\ IF file.tail.n < job[p].new.n
     THEN /\ \E t \in Times : WriteInode([Appended EXCEPT !.mtime = t])
          /\ Continue(p, "write")
     ELSE /\ Continue(p, "writeSync")
          /\ UNCHANGED <<file, stable, fresh>>
  /\ UNCHANGED <<entry, dentry, pathOf, job, attempts, faults>>

SyncWrite(p) ==
  /\ At(p, "writeSync")
  /\ SyncInode
  /\ Continue(p, "markC")
  /\ UNCHANGED <<entry, dentry, pathOf, job, attempts, faults>>

MarkComplete(p) ==
  /\ At(p, "markC")
  /\ WriteThrough(Marked(p, "C"))
  /\ job' = [job EXCEPT ![p].completed = TRUE]
  /\ Continue(p, "hook")
  /\ UNCHANGED <<entry, dentry, pathOf, attempts, faults>>

\* before_unlink(Applied): the caller restamps its rows (see JournalRows).
Hook(p) ==
  /\ At(p, "hook")
  /\ Continue(p, "markD")
  /\ UNCHANGED <<file, stable, entry, dentry, pathOf, job, fresh, attempts,
                 faults>>

MarkDone(p) ==
  /\ At(p, "markD")
  /\ WriteThrough(Marked(p, "D"))
  /\ Continue(p, "unlink")
  /\ UNCHANGED <<entry, dentry, pathOf, job, attempts, faults>>

Unlink(p) ==
  /\ At(p, "unlink")
  /\ Remove(job[p].jpath)
  /\ job' = [job EXCEPT ![p].unlinked = TRUE]
  /\ Continue(p, "unlinkSync")
  /\ UNCHANGED <<file, stable, pathOf, fresh, attempts, faults>>

\* mutant: the unlink is not made durable before Ok is returned.
UnlinkUnsynced(p) ==
  /\ At(p, "unlinkSync")
  /\ job' = [job EXCEPT ![p].synced = TRUE]
  /\ Continue(p, "clear")
  /\ UNCHANGED <<file, stable, entry, dentry, pathOf, fresh, attempts, faults>>

SyncUnlink(p) ==
  /\ At(p, "unlinkSync")
  /\ SyncParent(job[p].jpath)
  /\ job' = [job EXCEPT ![p].synced = TRUE]
  /\ Continue(p, "clear")
  /\ UNCHANGED <<file, stable, pathOf, fresh, attempts, faults>>

ClearLocator(p) ==
  /\ At(p, "clear")
  /\ ClearMarker
  /\ Return(p, "ok")
  /\ UNCHANGED <<entry, dentry, pathOf, attempts, faults>>

-----------------------------------------------------------------------------
(* finish_failed: the cleanup of a failed attempt, under the same lock.    *)

\* An installed C whose fsync failed is still complete.
AttemptComplete(p) ==
  \/ job[p].completed
  \/ job[p].published /\ RollsForward(file.marker.st)

Unresolved(p) == IF AttemptComplete(p) THEN "committed" ELSE "pending"

FinishFailed(p) ==
  /\ At(p, "failed")
  /\ \/ /\ ~job[p].published
        /\ Continue(p, "dropMarker")
        /\ UNCHANGED job
     \/ /\ job[p].published /\ job[p].unlinked
        /\ Continue(p, IF job[p].synced THEN "doneClear" ELSE "doneSync")
        /\ UNCHANGED job
     \/ /\ job[p].published /\ ~job[p].unlinked /\ ~JournalAt(job[p].jpath)
        /\ Return(p, Unresolved(p))
     \/ /\ job[p].published /\ ~job[p].unlinked /\ JournalAt(job[p].jpath)
        /\ job' = [job EXCEPT ![p].complete = AttemptComplete(p)]
        /\ Continue(p, "validate")
  /\ UNCHANGED <<file, stable, entry, dentry, pathOf, fresh, attempts, faults>>

\* Nothing of this attempt is at its path: only the locator is cleared.
DropMarker(p) ==
  /\ At(p, "dropMarker")
  /\ ClearMarker
  /\ Return(p, "rolledBack")
  /\ UNCHANGED <<entry, dentry, pathOf, attempts, faults>>

DoneSync(p) ==
  /\ At(p, "doneSync")
  /\ SyncParent(job[p].jpath)
  /\ Continue(p, "doneClear")
  /\ UNCHANGED <<file, stable, pathOf, job, fresh, attempts, faults>>

DoneClear(p) ==
  /\ At(p, "doneClear")
  /\ ClearMarker
  /\ Return(p, "ok")
  /\ UNCHANGED <<entry, dentry, pathOf, attempts, faults>>

-----------------------------------------------------------------------------
(* recover and rollback: applying the journal an earlier call left.        *)

\* The unlocked probe: no archive at this name, or neither a locator on it nor
\* a journal beside it.
Probe(p) ==
  /\ At(p, "idle")
  /\ \E path \in Paths :
       IF DirExists(path) /\ PendingRefusal(path)
       THEN /\ job' = [job EXCEPT ![p] = [NoJob EXCEPT
                         !.op = "recover", !.via = path]]
            /\ Goto(p, "rlock")
            /\ UNCHANGED result
       ELSE /\ result' = [result EXCEPT ![p] = "nothing"]
            /\ UNCHANGED <<pc, job>>
  /\ UNCHANGED <<file, stable, entry, dentry, pathOf, lock, fresh, attempts,
                 faults>>

LockRecover(p) ==
  /\ At(p, "rlock")
  /\ IF DirExists(job[p].via) /\ lock = NoProc
     THEN /\ lock' = p
          /\ Goto(p, "locate")
          /\ UNCHANGED <<job, result>>
     ELSE Return(p, "journal")
  /\ UNCHANGED <<file, stable, entry, dentry, pathOf, fresh, attempts, faults>>

\* The locator and the journal are looked up again under the lock.
Locate(p) ==
  LET m == file.marker
      path == LocatePath(m, job[p].via)
  IN /\ At(p, "locate")
     /\ \/ /\ JournalAt(path)
           /\ job' = [job EXCEPT ![p].jpath = path,
                                 ![p].complete = RollsForward(m.st)]
           /\ Continue(p, "validate")
        \/ /\ ~JournalAt(path) /\ m.st \in {"-", "D"}
           /\ Return(p, "nothing")
        \/ /\ ~JournalAt(path) /\ m.st = "P"
           /\ job' = [job EXCEPT ![p].jpath = path]
           /\ Continue(p, "staleSync")
        \/ /\ ~JournalAt(path) /\ m.st = "C"
           /\ Return(p, "committed")
        \/ /\ ~JournalAt(path) /\ m.st = "A"
           /\ Return(p, "journal")
     /\ UNCHANGED <<file, stable, entry, dentry, pathOf, fresh, attempts,
                    faults>>

\* sync_parent_if_present: a directory that is gone has nothing to sync.
StaleSync(p) ==
  /\ At(p, "staleSync")
  /\ IF DirExists(job[p].jpath) THEN SyncParent(job[p].jpath)
                                ELSE UNCHANGED <<entry, dentry>>
  /\ Continue(p, "staleClear")
  /\ UNCHANGED <<file, stable, pathOf, job, fresh, attempts, faults>>

StaleClear(p) ==
  /\ At(p, "staleClear")
  /\ ClearMarker
  /\ Return(p, "nothing")
  /\ UNCHANGED <<entry, dentry, pathOf, attempts, faults>>

\* How a failure of rollback is reported once it may have written.
Late(p) == IF job[p].complete THEN "committed"
           ELSE IF job[p].op = "recover" THEN "journal" ELSE "pending"

\* validate: the journal fits the locked content (and, in finish_failed, is
\* the one this attempt published).
Fits(p, j) ==
  /\ job[p].op = "replace" => j.id = job[p].id
  /\ IF job[p].complete
     THEN Same(file.tail, j.new)
     ELSE Prefix(file.tail, j.pre) \/ Prefix(file.tail, j.new)

\* Old bytes already in place are not written again.
RollbackFrom(p, j) ==
  IF ~job[p].complete /\ ~Same(file.tail, j.pre) THEN "rbTrunc" ELSE "rbMark"

Validate(p) ==
  /\ At(p, "validate")
  /\ \E d \in Dirs :
       /\ pathOf[d] = job[p].jpath
       /\ entry[d] # NoJournal
       /\ Fits(p, entry[d])
       /\ job' = [job EXCEPT ![p].hdr = entry[d]]
       /\ Continue(p, RollbackFrom(p, entry[d]))
  /\ UNCHANGED <<file, stable, entry, dentry, pathOf, fresh, attempts, faults>>

RbTruncate(p) ==
  /\ At(p, "rbTrunc")
  /\ \E t \in Times :
       WriteInode([Truncated(job[p].hdr.pre.src) EXCEPT !.mtime = t])
  /\ Continue(p, "rbTruncSync")
  /\ UNCHANGED <<entry, dentry, pathOf, job, attempts, faults>>

RbSyncTruncate(p) ==
  /\ At(p, "rbTruncSync")
  /\ SyncInode
  /\ Continue(p, "rbCopy")
  /\ UNCHANGED <<entry, dentry, pathOf, job, attempts, faults>>

RbCopyChunk(p) ==
  /\ At(p, "rbCopy")
  /\ IF file.tail.n < job[p].hdr.pre.n
     THEN /\ \E t \in Times : WriteInode([Appended EXCEPT !.mtime = t])
          /\ Continue(p, "rbCopy")
     ELSE /\ Continue(p, "rbTimes")
          /\ UNCHANGED <<file, stable, fresh>>
  /\ UNCHANGED <<entry, dentry, pathOf, job, attempts, faults>>

\* restore_mtime: EPERM for a non-owner is not an error.
RbTimes(p) ==
  /\ At(p, "rbTimes")
  /\ \/ WriteInode([file EXCEPT !.mtime = job[p].hdr.preTime])
     \/ UNCHANGED <<file, stable, fresh>>
  /\ Continue(p, "rbSync")
  /\ UNCHANGED <<entry, dentry, pathOf, job, attempts, faults>>

RbSync(p) ==
  /\ At(p, "rbSync")
  /\ SyncInode
  /\ Continue(p, "rbMark")
  /\ UNCHANGED <<entry, dentry, pathOf, job, attempts, faults>>

RbMark(p) ==
  /\ At(p, "rbMark")
  /\ WriteThrough(Marked(p, IF job[p].complete THEN "C" ELSE "P"))
  /\ Continue(p, "rbHook")
  /\ UNCHANGED <<entry, dentry, pathOf, job, attempts, faults>>

RbHook(p) ==
  /\ At(p, "rbHook")
  /\ Continue(p, IF job[p].complete THEN "rbMarkD" ELSE "rbUnlink")
  /\ UNCHANGED <<file, stable, entry, dentry, pathOf, job, fresh, attempts,
                 faults>>

RbMarkDone(p) ==
  /\ At(p, "rbMarkD")
  /\ WriteThrough(Marked(p, "D"))
  /\ Continue(p, "rbUnlink")
  /\ UNCHANGED <<entry, dentry, pathOf, job, attempts, faults>>

RbUnlink(p) ==
  /\ At(p, "rbUnlink")
  /\ Remove(job[p].jpath)
  /\ Continue(p, "rbUnlinkSync")
  /\ UNCHANGED <<file, stable, pathOf, job, fresh, attempts, faults>>

RbSyncUnlink(p) ==
  /\ At(p, "rbUnlinkSync")
  /\ SyncParent(job[p].jpath)
  /\ Continue(p, "rbClear")
  /\ UNCHANGED <<file, stable, pathOf, job, fresh, attempts, faults>>

Applied(p) == IF job[p].op = "recover" THEN "recovered"
              ELSE IF job[p].complete THEN "ok" ELSE "rolledBack"

RbClear(p) ==
  /\ At(p, "rbClear")
  /\ ClearMarker
  /\ Return(p, Applied(p))
  /\ UNCHANGED <<entry, dentry, pathOf, attempts, faults>>

-----------------------------------------------------------------------------
(* Errors.                                                                 *)

\* A call that must fail as the names are now (a directory that moved, a name
\* already taken, a journal that does not fit), at no cost to the bound.
Blocked(p) ==
  \/ At(p, "build") /\ ~DirExists(job[p].jpath)
  \/ At(p, "publish") /\ (~DirExists(job[p].jpath) \/ JournalAt(job[p].jpath))
  \/ /\ pc[p] \in {"syncPub", "unlinkSync", "doneSync", "rbUnlinkSync"}
     /\ ~DirExists(job[p].jpath)
  \/ pc[p] \in {"unlink", "rbUnlink"} /\ ~JournalAt(job[p].jpath)
  \/ /\ At(p, "validate")
     /\ ~ \E d \in Dirs : /\ pathOf[d] = job[p].jpath
                          /\ entry[d] # NoJournal
                          /\ Fits(p, entry[d])

\* What the caller sees when the step at pc[p] returns Err with no effect.
FailureOf(p) ==
  CASE pc[p] = "check" -> {"refused"}
    [] pc[p] = "failed" ->
         {Unresolved(p)} \cup {r \in {"pending"} : ~job[p].completed}
    [] pc[p] = "dropMarker" -> {"rolledBack"}
    [] pc[p] = "doneSync" -> {"committed"}
    [] pc[p] = "doneClear" -> {"ok", "committed"}
    [] pc[p] \in RecoverSteps -> {"refused", "journal"}
    [] pc[p] = "validate" ->
         IF job[p].op = "replace" THEN {Late(p)}
         ELSE {"journal"} \cup {r \in {"refused"} : ~Blocked(p)}
    [] pc[p] = "rbClear" -> {Applied(p), Late(p)}
    [] OTHER -> {Late(p)}

\* An error of run goes to finish_failed, except a guard that refuses before
\* the first locator write; an error anywhere else is the call's result.
Fail(p) ==
  IF pc[p] \in RunSteps
  THEN \/ Continue(p, "failed") /\ UNCHANGED job
       \/ pc[p] = "markP" /\ Return(p, "refused")
  ELSE \E r \in FailureOf(p) : Return(p, r)

StepFails(p) ==
  /\ pc[p] \in LockedSteps
  /\ \/ Blocked(p) /\ UNCHANGED faults
     \/ faults < MaxFaults /\ faults' = faults + 1
  /\ Fail(p)
  /\ UNCHANGED <<file, stable, entry, dentry, pathOf, fresh, attempts>>

\* fsetxattr or fremovexattr took effect and the fsync after it failed.
HalfMarker(p) ==
  CASE pc[p] = "markP" -> Marked(p, "P")
    [] pc[p] = "markA" -> Marked(p, "A")
    [] pc[p] = "markC" -> Marked(p, "C")
    [] pc[p] \in {"markD", "rbMarkD"} -> Marked(p, "D")
    [] pc[p] = "rbMark" -> Marked(p, IF job[p].complete THEN "C" ELSE "P")
    [] OTHER -> [file EXCEPT !.marker = NoMarker]

MarkerHalfSet(p) ==
  /\ pc[p] \in {"markP", "markA", "markC", "markD", "rbMark", "rbMarkD",
                "clear", "dropMarker", "doneClear", "staleClear", "rbClear"}
  /\ faults < MaxFaults
  /\ faults' = faults + 1
  /\ WriteInode(HalfMarker(p))
  /\ IF pc[p] \in RunSteps
     THEN Continue(p, "failed") /\ UNCHANGED job
     ELSE Return(p, CASE pc[p] = "dropMarker" -> "rolledBack"
                      [] pc[p] = "doneClear" -> "ok"
                      [] pc[p] = "staleClear" -> "journal"
                      [] pc[p] = "rbClear" -> Applied(p)
                      [] OTHER -> Late(p))
  /\ UNCHANGED <<entry, dentry, pathOf, attempts>>

\* The journal got its name, and the fstat of it right after failed.
PublishUnseen(p) ==
  /\ StatMayFail
  /\ At(p, "publish")
  /\ DirExists(job[p].jpath) /\ ~JournalAt(job[p].jpath)
  /\ faults < MaxFaults
  /\ faults' = faults + 1
  /\ entry' = [d \in Dirs |->
                 IF pathOf[d] = job[p].jpath THEN job[p].hdr ELSE entry[d]]
  /\ Continue(p, "failed")
  /\ UNCHANGED <<file, stable, dentry, pathOf, job, fresh, attempts>>

-----------------------------------------------------------------------------
(* The environment.                                                        *)

\* The process dies; what it wrote stays in memory.
Kill(p) ==
  /\ pc[p] # "idle"
  /\ faults < MaxFaults
  /\ faults' = faults + 1
  /\ Return(p, "dead")
  /\ UNCHANGED <<file, stable, entry, dentry, pathOf, fresh, attempts>>

\* Everything not synced may be lost, and all processes die.
PowerLoss ==
  /\ faults < MaxFaults
  /\ faults' = faults + 1
  /\ \E t \in TailImages(stable.tail, file.tail),
        i, k \in {stable, file},
        lost \in SUBSET Dirs :
       /\ file' = [tail |-> t, mtime |-> i.mtime, marker |-> k.marker]
       /\ entry' = [d \in Dirs |-> IF d \in lost THEN dentry[d] ELSE entry[d]]
  /\ stable' = file'
  /\ dentry' = entry'
  /\ lock' = NoProc
  /\ pc' = [p \in Procs |-> "idle"]
  /\ job' = [p \in Procs |-> NoJob]
  /\ fresh' = [p \in Procs |-> FALSE]
  /\ result' = [p \in Procs |-> IF pc[p] = "idle" THEN result[p] ELSE "dead"]
  /\ UNCHANGED <<pathOf, attempts>>

\* A directory holding the archive and its journal is renamed.
RenameDir ==
  /\ faults < MaxFaults
  /\ faults' = faults + 1
  /\ \E d \in Dirs, path \in Paths :
       /\ path \in PathsOf[d] \ {pathOf[d]}
       /\ pathOf' = [pathOf EXCEPT ![d] = path]
  /\ UNCHANGED <<file, stable, entry, dentry, lock, pc, job, fresh, result,
                 attempts>>

-----------------------------------------------------------------------------
ReplaceStep(p) ==
  \/ LockReplace(p) \/ Check(p) \/ BuildJournal(p) \/ MarkPrepared(p)
  \/ Publish(p) \/ SyncPublished(p) \/ MarkActive(p) \/ Truncate(p)
  \/ SyncTruncate(p) \/ WriteChunk(p) \/ SyncWrite(p) \/ MarkComplete(p)
  \/ Hook(p) \/ MarkDone(p) \/ Unlink(p) \/ SyncUnlink(p) \/ ClearLocator(p)

CleanupStep(p) ==
  FinishFailed(p) \/ DropMarker(p) \/ DoneSync(p) \/ DoneClear(p)

RecoverStep(p) == LockRecover(p) \/ Locate(p) \/ StaleSync(p) \/ StaleClear(p)

RollbackStep(p) ==
  \/ Validate(p) \/ RbTruncate(p) \/ RbSyncTruncate(p) \/ RbCopyChunk(p)
  \/ RbTimes(p) \/ RbSync(p) \/ RbMark(p) \/ RbHook(p) \/ RbMarkDone(p)
  \/ RbUnlink(p) \/ RbSyncUnlink(p) \/ RbClear(p)

ErrorStep(p) == StepFails(p) \/ MarkerHalfSet(p) \/ PublishUnseen(p)

\* A call under way makes a step.
CallStep(p) ==
  ReplaceStep(p) \/ CleanupStep(p) \/ RecoverStep(p) \/ RollbackStep(p)
    \/ StepFails(p)

Next ==
  \/ \E p \in Procs : \/ StartReplace(p) \/ Probe(p)
                      \/ ReplaceStep(p) \/ CleanupStep(p)
                      \/ RecoverStep(p) \/ RollbackStep(p)
                      \/ ErrorStep(p) \/ Kill(p)
  \/ PowerLoss
  \/ RenameDir

Spec == Init /\ [][Next]_vars

\* A call under way is scheduled, and the archive keeps being opened: every
\* factory and session open recovers before it reads.
Fairness ==
  \A p \in Procs : /\ WF_vars(CallStep(p))
                   /\ WF_vars(Probe(p) /\ pc'[p] = "rlock")

FairSpec == Spec /\ Fairness

-----------------------------------------------------------------------------
(* What a recovery makes of a disk with tail t, locator m and journals e.  *)

Complete(m) == m.st \in {"C", "D"}

Restores(j, t, m) ==
  IF Complete(m) THEN Same(t, j.new)
                 ELSE Prefix(t, j.pre) \/ Prefix(t, j.new)

Recoverable(t, m, e) ==
  \/ /\ \A d \in Dirs : e[d] = NoJournal
     /\ Whole(t)
     /\ m.st \notin {"A", "C"}
  \/ \E d \in Dirs :
       /\ e[d] # NoJournal
       /\ Whole(e[d].pre) /\ Whole(e[d].new)
       /\ Restores(e[d], t, m)

\* Whatever a power loss keeps of the unsynced writes, renames and unlinks, a
\* recovery then finds a whole version or a journal that leads to one: never a
\* torn archive without its journal, and never an active or complete locator
\* whose journal is gone.
PowerLossRecoverable ==
  \A t \in TailImages(stable.tail, file.tail),
     m \in {stable.marker, file.marker},
     lost \in SUBSET Dirs :
    Recoverable(t, m,
                [d \in Dirs |-> IF d \in lost THEN dentry[d] ELSE entry[d]])

\* The version a recovery yields from the durable disk alone: the one under a
\* complete locator, and the old one while a journal is there without it.
VersionOf(t) == IF Whole(t) THEN CHOOSE c \in Contents : Same(t, Full(c))
                            ELSE Mixed

Promise ==
  LET js == {dentry[d] : d \in Dirs} \ {NoJournal}
  IN IF Complete(stable.marker) \/ js = {}
     THEN VersionOf(stable.tail)
     ELSE VersionOf((CHOOSE j \in js : TRUE).pre)

\* The versions of replacements under way or interrupted.
Offered ==
  {VersionOf(job[p].new) : p \in {q \in Procs : job[q].op = "replace"}}
    \cup {VersionOf(j.new) :
            j \in ({entry[d] : d \in Dirs} \cup {dentry[d] : d \in Dirs})
                    \ {NoJournal}}

\* Through crashes, failed cleanups and recoveries, the replacement is atomic:
\* the version on disk changes only when a replacement under way is decided,
\* and a decided one is never undone.
Abstract == INSTANCE AtomicReplace WITH version <- Promise, offered <- Offered
Atomic == Abstract!Spec

\* A replacement journals, and so overwrites, exactly the bytes its plan was
\* made from: a commit by another process between the plan and the lock is
\* never overwritten unseen.
NoLostUpdate ==
  \A p \in Procs : job[p].op = "replace" /\ job[p].hdr # NoJournal =>
    Same(job[p].hdr.pre, job[p].base)

\* The call of p returns r in this step.
Returns(p, r) == pc[p] # "idle" /\ pc'[p] = "idle" /\ result'[p] = r

Gone(id, e) == \A d \in Dirs : e[d] # NoJournal => e[d].id # id

\* Ok from a replacement: the new bytes are durable and no journal of the
\* attempt is left that could undo or redo them, even after a power loss.
OkIsDurable(p) ==
  Returns(p, "ok") =>
    /\ Same(stable'.tail, job[p].new)
    /\ Gone(job[p].id, entry') /\ Gone(job[p].id, dentry')

\* ReplaceError::Committed and RecoverError::Committed: the archive holds the
\* new bytes, and what is left on disk can only roll them forward.
CommittedHoldsNew(p) ==
  Returns(p, "committed") =>
    /\ job[p].op = "replace" => Same(file'.tail, job[p].new)
    /\ \/ Complete(file'.marker)
       \/ \A d \in Dirs : entry'[d] = NoJournal /\ dentry'[d] = NoJournal

\* ReplaceError::RolledBack: the archive is byte for byte what the caller
\* planned on.
RolledBackRestores(p) ==
  Returns(p, "rolledBack") =>
    /\ Same(file'.tail, job[p].base)
    /\ ~Complete(file'.marker) /\ file'.marker.st # "A"

\* What a call returns is true when it returns: after Ok the caller may drop its
\* copy, after Committed it must not answer with the old bytes, after RolledBack
\* a copy fallback may read the archive.
AnswersHold ==
  [][\A p \in Procs : /\ OkIsDurable(p)
                      /\ CommittedHoldsNew(p)
                      /\ RolledBackRestores(p)]_vars

Unsettled ==
  \/ \E d \in Dirs : entry[d] # NoJournal
  \/ file.marker.st \in {"P", "A", "C"}

\* Once the faults stop, a pending journal or locator does not stay: some later
\* open rolls it back or forward and removes it (a done locator without its
\* journal may stay: recover keeps it on purpose).
RecoveryEnds == Unsettled ~> ~Unsettled
=============================================================================
