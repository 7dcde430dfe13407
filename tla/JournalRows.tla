----------------------------- MODULE JournalRows -----------------------------
(***************************************************************************)
(* Journal recovery as the overlays use it (ratarmount-compositing,        *)
(* journal_recovery.rs): the commit journal composed with the rows in      *)
(* which a write overlay records its base archive.                         *)
(*                                                                         *)
(* The rows hold the size and mtime of the base and a digest of its bytes. *)
(* The gate of the next commit or mount refuses an archive that is not at  *)
(* the recorded stamp, so every path that changes the archive must move    *)
(* the rows before its journal is gone: the before_unlink hook does.       *)
(*                                                                         *)
(* A process in Overlays works for the overlay: it reaches the base by its *)
(* recorded name, is authorised by the rows (Owner::Recorded) and restamps *)
(* them.  Any other process opens the archive without the overlay          *)
(* (Owner::Inode, Rows::None): the factory, Session::open, rolling         *)
(* members, and the commits of another overlay on the same archive.        *)
(***************************************************************************)
EXTENDS CommitJournal

CONSTANTS
  Overlays,     \* the processes that hold the overlay
  Committers,   \* the processes that commit
  RecordedAt    \* the path the overlay recorded for its base

ASSUME OverlayAssumption ==
  /\ Overlays \subseteq Procs
  /\ Committers \subseteq Procs
  /\ RecordedAt \in Paths
  /\ {"weak", "pending"} \cap Contents = {}

VARIABLES
  rows,         \* base_size, base_mtime_ns and base_digest of overlay_meta
  owed,         \* the overlays that owe a refresh_committed_base
  hashed,       \* the rows each has computed for it, if any
  alone         \* history: nobody outside Overlays has locked the archive yet

refreshVars == <<owed, hashed, alone>>
rowsVars == <<vars, rows, refreshVars>>

\* A digest is of a version, or of a suffix that is none (Mixed).
Digest == Contents \cup {Mixed, "weak", "pending"}
Rows == [n : Nat, time : Times, digest : Digest]

RowsTypeOK ==
  /\ rows \in Rows
  /\ owed \in SUBSET Overlays
  /\ hashed \in [Overlays -> SUBSET Rows]
  /\ alone \in BOOLEAN

Stamp(n, time) == [n |-> n, time |-> time]
Recorded == Stamp(rows.n, rows.time)
Current == Stamp(file.tail.n, file.mtime)
PreStamp(j) == Stamp(j.pre.n, j.preTime)

\* mutant: rows already at the committed stamp are not accepted.
JournalAgreesOldOnly(now, j, complete) ==
  \/ PreStamp(j) = Recorded
  \/ ~complete /\ now.n = j.pre.n /\ now = Recorded

\* journal_agrees: the journal started on the recorded stamp, or the rows
\* already describe what recovery will leave and only the unlink is owed.
JournalAgrees(now, j, complete) ==
  \/ PreStamp(j) = Recorded
  \/ complete /\ now.n = j.new.n /\ now = Recorded
  \/ ~complete /\ now.n = j.pre.n /\ now = Recorded

\* journal_targets_record: the recorded path still leads to this inode.
TargetsRecord == DirExists(RecordedAt)

\* mutant: the stamp moves and a strong digest stays.
RestampedStampOnly(p, forward) ==
  [rows EXCEPT !.n = Current.n, !.time = Current.time]

\* restamp_once: the rows after the hook of a call that applied `hdr`.
Restamped(p, forward) ==
  LET j == job[p].hdr
      started == Recorded = PreStamp(j)
      stamped == [rows EXCEPT !.n = Current.n, !.time = Current.time]
  IN IF ~TargetsRecord THEN rows
     ELSE IF ~forward
     THEN IF Current.time = j.preTime \/ ~started THEN rows ELSE stamped
     ELSE IF job[p].op = "recover" /\ ~started /\ Recorded # Current
     THEN rows
     ELSE [stamped EXCEPT !.digest = IF @ = "weak" THEN "weak" ELSE "pending"]

\* restamp_rows and restamp_once fail when the name no longer leads to the
\* locked inode, and when a rollback ends at another length.
CanRestamp(p, forward) ==
  /\ DirExists(job[p].via)
  /\ forward \/ ~TargetsRecord \/ Current.n = job[p].hdr.pre.n

\* The hook of p: commit_hook or the recovery's, on the rows p was given.
RunHook(p, forward) ==
  IF p \in Overlays
  THEN CanRestamp(p, forward) /\ rows' = Restamped(p, forward)
  ELSE UNCHANGED rows

\* mutant: the stamp is not compared.
GateAcceptsAny(path) == TRUE

\* check_commit_base: a pending journal is judged by journal_agrees, else the
\* archive must be at the recorded stamp.
GateAccepts(path) ==
  LET at == LocatePath(file.marker, path)
  IN IF JournalAt(at)
     THEN \A d \in Dirs : pathOf[d] = at =>
            JournalAgrees(Current, entry[d], RollsForward(file.marker.st))
     ELSE Current = Recorded

\* Owner::authorize, on the header and the locked descriptor.
Authorized(p) ==
  p \in Overlays => \A d \in Dirs : pathOf[d] = job[p].jpath =>
    JournalAgrees(Current, entry[d], job[p].complete)

RowsInit ==
  /\ Init
  /\ \E g \in {Base, "weak"} :
       rows = [n |-> file.tail.n, time |-> file.mtime, digest |-> g]
  /\ owed = {}
  /\ hashed = [p \in Overlays |-> {}]
  /\ alone = TRUE

\* A commit: check_commit_identity gives the snapshot the replacement compares.
CommitStart(p) ==
  /\ p \in Committers
  /\ StartReplace(p)
  /\ p \in Overlays => /\ p \notin owed
                       /\ job'[p].via = RecordedAt
                       /\ GateAccepts(RecordedAt)
  /\ UNCHANGED <<rows, refreshVars>>

\* gate_pending_journal, then the recovery itself.
RecoverStart(p) ==
  /\ Probe(p)
  /\ p \in Overlays =>
       /\ p \notin owed
       /\ pc'[p] = "rlock" =>
            /\ job'[p].via = RecordedAt
            /\ \/ ~JournalAt(LocatePath(file.marker, RecordedAt))
               \/ GateAccepts(RecordedAt)
  /\ UNCHANGED <<rows, refreshVars>>

HookRows(p) == Hook(p) /\ RunHook(p, TRUE) /\ UNCHANGED refreshVars
RbHookRows(p) ==
  RbHook(p) /\ RunHook(p, job[p].complete) /\ UNCHANGED refreshVars

\* A hook that cannot restamp is an error of its step; a recovery whose journal
\* is not the recorded base's is refused before any write.
HookFails(p) ==
  /\ p \in Overlays
  /\ \/ At(p, "hook") /\ ~CanRestamp(p, TRUE)
     \/ At(p, "rbHook") /\ ~CanRestamp(p, job[p].complete)
  /\ Fail(p)
  /\ UNCHANGED <<file, stable, entry, dentry, pathOf, fresh, attempts, faults,
                 rows, refreshVars>>

Refuse(p) ==
  /\ At(p, "validate") /\ job[p].op = "recover"
  /\ ~Blocked(p) /\ ~Authorized(p)
  /\ Return(p, "refused")
  /\ UNCHANGED <<file, stable, entry, dentry, pathOf, fresh, attempts, faults,
                 rows, refreshVars>>

ValidateOwned(p) ==
  /\ Validate(p)
  /\ job[p].op = "recover" => Authorized(p)
  /\ UNCHANGED <<rows, refreshVars>>

\* A replacement that returns Ok leaves refresh_committed_base to run, with the
\* archive's lock already released.
OweRefresh(p) ==
  /\ owed' = owed \cup {q \in Overlays \cap {p} : /\ pc[q] # "idle"
                                                 /\ pc'[q] = "idle"
                                                 /\ result'[q] = "ok"}
  /\ alone' = (alone /\ (p \in Overlays \/ lock' # p))
  /\ UNCHANGED hashed

\* Every other step leaves the rows alone.
PlainStep(p) ==
  /\ \/ LockReplace(p) \/ Check(p) \/ BuildJournal(p) \/ MarkPrepared(p)
     \/ Publish(p) \/ SyncPublished(p) \/ MarkActive(p) \/ Truncate(p)
     \/ SyncTruncate(p) \/ WriteChunk(p) \/ SyncWrite(p) \/ MarkComplete(p)
     \/ MarkDone(p) \/ Unlink(p) \/ SyncUnlink(p) \/ ClearLocator(p)
     \/ CleanupStep(p) \/ RecoverStep(p)
     \/ RbTruncate(p) \/ RbSyncTruncate(p) \/ RbCopyChunk(p) \/ RbTimes(p)
     \/ RbSync(p) \/ RbMark(p) \/ RbMarkDone(p) \/ RbUnlink(p)
     \/ RbSyncUnlink(p) \/ RbClear(p)
     \/ ErrorStep(p) \/ Kill(p)
  /\ OweRefresh(p)
  /\ UNCHANGED rows

\* refresh_committed_base: stat and hash of the archive by name, then a second
\* stat that must agree before the rows are set.
HashBase(p) ==
  /\ p \in owed /\ hashed[p] = {}
  /\ DirExists(RecordedAt)
  /\ hashed' = [hashed EXCEPT ![p] =
        {[n |-> Current.n, time |-> Current.time,
          digest |-> IF rows.digest = "weak" THEN "weak"
                                             ELSE VersionOf(file.tail)]}]
  /\ UNCHANGED <<vars, rows, owed, alone>>

RefreshEnds(p) ==
  owed' = owed \ {p} /\ hashed' = [hashed EXCEPT ![p] = {}]

StoreBase(p) ==
  /\ p \in owed
  /\ DirExists(RecordedAt)
  /\ \E r \in hashed[p] : Current = Stamp(r.n, r.time) /\ rows' = r
  /\ RefreshEnds(p)
  /\ UNCHANGED <<vars, alone>>

\* The refresh fails (the archive moved or changed under it, or for another
\* reason) or its process dies; the mount refuses its base until a remount.
RefreshFails(p) ==
  /\ p \in owed
  /\ \/ /\ \/ ~DirExists(RecordedAt)
           \/ \E r \in hashed[p] : Current # Stamp(r.n, r.time)
        /\ UNCHANGED faults
     \/ faults < MaxFaults /\ faults' = faults + 1
  /\ RefreshEnds(p)
  /\ UNCHANGED <<file, stable, entry, dentry, pathOf, lock, pc, job, fresh,
                 result, attempts, rows, alone>>

PowerLossRows ==
  /\ PowerLoss
  /\ owed' = {} /\ hashed' = [p \in Overlays |-> {}]
  /\ UNCHANGED <<rows, alone>>

RenameDirRows == RenameDir /\ UNCHANGED <<rows, refreshVars>>

RowsNext ==
  \/ \E p \in Procs : \/ CommitStart(p) \/ RecoverStart(p) \/ ValidateOwned(p)
                      \/ HookRows(p) \/ RbHookRows(p) \/ HookFails(p)
                      \/ Refuse(p) \/ PlainStep(p)
                      \/ HashBase(p) \/ StoreBase(p) \/ RefreshFails(p)
  \/ PowerLossRows
  \/ RenameDirRows

RowsSpec == RowsInit /\ [][RowsNext]_rowsVars

-----------------------------------------------------------------------------
\* The journals a power loss now could leave, when it undoes what was not synced
\* in the directories `lost`.
Left(lost) == [d \in Dirs |-> IF d \in lost THEN dentry[d] ELSE entry[d]]

\* With no journal left, the rows describe the archive: its size and mtime, and
\* a strong digest never names other bytes than the archive's.  No order of
\* crashes, failed hooks and recoveries of the overlay's own calls leaves
\* "journal gone, rows stale", "rows moved, bytes not" or "bytes new, digest
\* old".  (An open that does not hold the overlay recovers without restamping
\* its rows: that breaks it, so the property is about the overlay alone.)
RowsFollowArchive ==
  alone =>
    \A t \in TailImages(stable.tail, file.tail), i \in {stable, file},
       lost \in SUBSET Dirs :
      (\A d \in Dirs : Left(lost)[d] = NoJournal) =>
        /\ Recorded = Stamp(t.n, i.mtime)
        /\ rows.digest \in Contents => Same(t, Full(rows.digest))

\* An overlay is never locked out of its own crash: whatever a power loss
\* keeps of an interrupted commit or recovery, the journal found agrees with
\* the rows.
OwnJournalAgrees ==
  alone =>
    \A t \in TailImages(stable.tail, file.tail), i, k \in {stable, file},
       lost \in SUBSET Dirs, d \in Dirs :
      Left(lost)[d] # NoJournal =>
        JournalAgrees(Stamp(t.n, i.mtime), Left(lost)[d], Complete(k.marker))

\* The gate's answer still holds when the archive is written: with another
\* overlay committing to the same archive, a commit overwrites only an archive
\* at the stamp its own rows record, from the published journal to the restamp.
CommitsOnRecorded ==
  \A p \in Overlays :
    pc[p] \in {"syncPub", "markA", "trunc", "truncSync", "write", "writeSync",
              "markC", "hook"}
    => PreStamp(job[p].hdr) = Recorded
=============================================================================
