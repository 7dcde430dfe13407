----------------------------- MODULE RowsProofs -----------------------------
(***************************************************************************)
(* Proofs about JournalRows, for any number of processes, contents, rows,  *)
(* attempts and faults: while no other process has locked the archive, the *)
(* rows describe what a crash leaves without a journal (RowsFollowArchive) *)
(* and own the journal a crash leaves (OwnJournalAgrees); and, whoever     *)
(* else commits, a commit of the overlay only overwrites an archive at the *)
(* stamp its rows record (CommitsOnRecorded).                              *)
(*                                                                         *)
(* One process at a time works on the overlay (OneOverlay): the flock on   *)
(* the overlay's directory covers a commit, its restamp and the refresh of *)
(* the base together, so the callers that share the rows take turns, and   *)
(* their calls are the successive calls of one process.  The archive has   *)
(* one name (OneName), as in CommitJournalProofs.                          *)
(*                                                                         *)
(* The invariant RowsInv: beside the disk of CrashInv, the rows describe   *)
(* the archive (Settled) or what it was before the durable journal         *)
(* (Owned).  The hooks pass from one to the other.                         *)
(***************************************************************************)
EXTENDS JournalRows, CommitJournalProofs

\* One process holds the overlay at a time: the overlay's own lock covers a
\* commit, its restamp and the refresh of the base together.
OneOverlay == \E p : Overlays = {p}
Us == CHOOSE p \in Overlays : TRUE

\* Disks that recovery need not write to: the locator, which every copy agrees
\* on, tells whether the old or the new version of a journal is in place.
SettledDisk == RestDisk \/ (CompleteDisk /\ Marks({"C", "D"})) \/ DoneDisk

\* A strong digest in the rows is of the version t.
DigestOf(t) == rows.digest \in Contents => Same(t, Full(rows.digest))

\* The rows describe the archive.
Settled ==
  /\ Recorded = Current /\ stable.mtime = file.mtime
  /\ DigestOf(file.tail) /\ SettledDisk

\* The rows describe what the archive was before the durable journal.
Owned ==
  /\ Durable(here)
  /\ PreStamp(here) = Recorded /\ DigestOf(here.pre)

\* The overlay reaches its base by the recorded name.
ViaInv == job[Us].op # "none" => job[Us].via = RecordedAt

\* Nobody else has the archive locked while the overlay is alone.
AloneInv == alone => \A p \in Procs \ Overlays : pc[p] \notin LockedSteps

\* A refresh is owed between two calls, with no journal left.
OwedInv ==
  /\ Us \in owed => pc[Us] = "idle"
  /\ hashed[Us] # {} => Us \in owed
  /\ alone /\ Us \in owed => here = NoJournal /\ kept = NoJournal
  /\ alone => \A r \in hashed[Us] :
       r.digest \in Contents => Same(file.tail, Full(r.digest))

\* What the gate saw still holds, or a later check refuses.
GateInv ==
  /\ pc[Us] \in {"lock", "check"} /\ fresh[Us] =>
       Current = Recorded \/ here # NoJournal \/ file.marker.st # "-"
  /\ pc[Us] = "build" => Current = Recorded \/ here # NoJournal
  /\ pc[Us] \in {"markP", "publish"} =>
       PreStamp(job[Us].hdr) = Recorded \/ here # NoJournal
  /\ pc[Us] \in {"syncPub", "markA"} \cup Rewrites \cup {"hook"} =>
       PreStamp(job[Us].hdr) = Recorded

\* The rows beside the disk, by control point.
DuringInv ==
  /\ pc[Us] \in Rewrites \cup Restoring => Owned
  /\ pc[Us] \in {"markD", "unlink", "rbMarkD", "rbUnlink"} => Settled
  /\ pc[Us] \in {"hook", "rbHook"} => stable.mtime = file.mtime

\* The rows are settled or owned, for as long as nobody else commits.
RowsBeside == (Settled \/ Owned) /\ DuringInv
RowsDisk == alone => RowsBeside

\* The inductive invariant, beside Inv and CrashInv.
RowsInv ==
  RowsTypeOK /\ ViaInv /\ AloneInv /\ OwedInv /\ GateInv /\ RowsDisk

-----------------------------------------------------------------------------
USE NamesAssumption, ContentAssumption, BoundAssumption, JournalAssumption,
    OverlayAssumption

(* The journal under the rows.                                             *)

\* The overlay's process is one of those that open the archive.
LEMMA OurProcess ==
  ASSUME OneOverlay
  PROVE  Us \in Procs /\ Us \in Overlays /\ \A p \in Overlays : p = Us
BY DEF OneOverlay, Us

\* A step of the process p of the journal, hooks that fail included.
JournalStep(p) ==
  \/ StartReplace(p) \/ Probe(p) \/ ReplaceStep(p) \/ CleanupStep(p)
  \/ RecoverStep(p) \/ RollbackStep(p) \/ ErrorStep(p) \/ Kill(p)
  \/ FailsInPlace(p)

\* What the steps of the composition are.
LEMMA StepsOf ==
  ASSUME NEW p \in Procs
  PROVE  /\ CommitStart(p) => StartReplace(p)
         /\ RecoverStart(p) => Probe(p)
         /\ ValidateOwned(p) => RollbackStep(p)
         /\ HookRows(p) => ReplaceStep(p)
         /\ RbHookRows(p) => RollbackStep(p)
         /\ HookFails(p) \/ Refuse(p) => FailsInPlace(p)
         /\ PlainStep(p) => JournalStep(p)
<1>1. ASSUME HookFails(p) PROVE FailsInPlace(p)
  BY <1>1, LockedNames DEF HookFails, FailsInPlace, At
<1>2. ASSUME Refuse(p) PROVE FailsInPlace(p)
  <2>1. pc[p] = "validate" /\ pc[p] \notin RunSteps /\ pc[p] \in LockedSteps
    BY <1>2, LockedNames DEF Refuse, At, RunSteps
  <2>2. "refused" \in FailureOf(p)
    BY <1>2, <2>1 DEF Refuse, FailureOf, RecoverSteps
  <2>3. QED
    BY <1>2, <2>1, <2>2 DEF Refuse, FailsInPlace, Fail
<1>3. ASSUME PlainStep(p) PROVE JournalStep(p)
  BY <1>3 DEF PlainStep, JournalStep, ReplaceStep, RollbackStep
<1>4. QED
  BY <1>1, <1>2, <1>3 DEF CommitStart, RecoverStart, ValidateOwned, HookRows,
    RbHookRows, ReplaceStep, RollbackStep

\* Every step of the composition is one of the journal, or leaves it alone.
LEMMA JournalUnder ==
  ASSUME [RowsNext]_rowsVars
  PROVE  \/ [Next]_vars
         \/ \E p \in Procs : FailsInPlace(p) /\ faults' = faults
         \/ UNCHANGED <<file, stable, entry, dentry, pathOf, lock, pc, job,
                        fresh,
                        result, attempts>> /\ (faults < MaxFaults /\ faults' = faults + 1)
<1>1. ASSUME NEW p \in Procs, HookFails(p) \/ Refuse(p)
      PROVE  FailsInPlace(p) /\ faults' = faults
  BY <1>1, StepsOf DEF HookFails, Refuse
<1>2. ASSUME NEW p \in Procs, PlainStep(p)
      PROVE  Next
  BY <1>2 DEF PlainStep, ReplaceStep, RollbackStep, Next
<1>3. ASSUME NEW p \in Procs,
             CommitStart(p) \/ RecoverStart(p) \/ ValidateOwned(p) \/ HookRows(p)
               \/ RbHookRows(p)
      PROVE  Next
  BY <1>3, StepsOf DEF Next
<1>4. ASSUME NEW p \in Procs, HashBase(p) \/ StoreBase(p)
      PROVE  UNCHANGED vars
  BY <1>4 DEF HashBase, StoreBase
<1>5. ASSUME NEW p \in Procs, RefreshFails(p)
      PROVE  \/ UNCHANGED vars
             \/ UNCHANGED <<file, stable, entry, dentry, pathOf, lock, pc,
                            job, fresh,
                            result, attempts>> /\ (faults < MaxFaults /\ faults' = faults + 1)
  BY <1>5 DEF RefreshFails, vars
<1>6. ASSUME PowerLossRows \/ RenameDirRows PROVE Next
  BY <1>6 DEF PowerLossRows, RenameDirRows, Next
<1>7. CASE UNCHANGED rowsVars
  BY <1>7 DEF rowsVars
<1>8. QED
  BY <1>1, <1>2, <1>3, <1>4, <1>5, <1>6, <1>7 DEF RowsNext

\* What the journal's proofs established holds in the composition.
LEMMA JournalHolds ==
  ASSUME OneName, Inv, CrashInv, [RowsNext]_rowsVars
  PROVE  Inv' /\ CrashInv'
<1>1. CASE [Next]_vars
  <2>1. Inv'
    <3>1. CASE UNCHANGED vars
      BY <3>1 DEF vars, Inv, TypeOK, IdInv, LockInv, PlanInv, JournalInv,
        Records, Old
    <3>2. QED
      BY <1>1, <3>1, NextInv
  <2>2. QED
    BY <1>1, <2>1, CrashNext
<1>2. ASSUME NEW p \in Procs, FailsInPlace(p), faults' = faults
      PROVE  Inv' /\ CrashInv'
  <2>1. Shape(p)
    BY <1>2, FailShape DEF Inv
  <2>2. TypeOK'
    BY <1>2, FailType DEF Inv, TypeOK
  <2>3. Inv'
    BY <2>1, <2>2, ShapeInv DEF Inv
  <2>4. DiskInv' /\ CallInv(p)'
    BY <1>2, FailsKeep DEF CrashInv
  <2>5. ASSUME NEW q \in Procs, q # p PROVE CallInv(q)'
    <3>1. Others(p) /\ pc[p] \in LockedSteps
      BY <1>2, <2>1 DEF FailsInPlace, Shape
    <3>2. QED
      BY <2>5, <3>1, OthersKeep DEF CrashInv
  <2>6. QED
    BY <2>3, <2>4, <2>5 DEF CrashInv
<1>3. CASE UNCHANGED <<file, stable, entry, dentry, pathOf, lock, pc, job,
                       fresh,
                       result, attempts>> /\ (faults < MaxFaults /\ faults' = faults + 1)
  <2>1. Inv'
    <3>1. faults' \in 0 .. MaxFaults
      BY <1>3 DEF Inv, TypeOK
    <3>2. TypeOK'
      BY <1>3, <3>1 DEF Inv, TypeOK
    <3>3. IdInv' /\ LockInv' /\ PlanInv' /\ JournalInv'
      BY <1>3 DEF Inv, IdInv, LockInv, PlanInv, JournalInv, Records, Old
    <3>4. QED
      BY <3>2, <3>3 DEF Inv
  <2>2. file' = file /\ stable' = stable /\ here' = here /\ kept' = kept
    BY <1>3 DEF here, kept
  <2>3. ASSUME NEW q \in Procs PROVE CallInv(q)'
    BY <1>3, <2>2 DEF CrashInv, CallInv, PlanOf, FlagsOf, PrepareInv,
      RewriteInv, CompleteInv, CleanupInv, RollbackInv, BeforePublish,
      Published, Rewrites, Restoring, RollbackSteps, Marks, FailedInv,
      RestDisk, PendingDisk, CompleteDisk, Durable, Level
  <2>4. QED
    BY <2>1, <2>2, <2>3, DiskStays DEF CrashInv
<1>4. QED
  BY <1>1, <1>2, <1>3, JournalUnder

-----------------------------------------------------------------------------
(* The rows beside the disk.                                               *)

\* Settled rows stay so when neither the bytes nor the times move.
LEMMA SettledStays ==
  ASSUME Settled, rows' = rows, file'.tail = file.tail, file'.mtime = file.mtime,
         stable'.mtime = file.mtime, SettledDisk'
  PROVE  Settled'
BY DEF Settled, Recorded, Current, Stamp, DigestOf

\* Rows that own a journal do as long as it is there.
LEMMA OwnedStays ==
  ASSUME Owned, rows' = rows, here' = here, kept' = kept
  PROVE  Owned'
BY DEF Owned, Durable, Recorded, PreStamp, Stamp, DigestOf

\* A step that does not touch the disk.
LEMMA SettledSame ==
  ASSUME Settled, rows' = rows, file' = file, stable' = stable, here' = here,
         kept' = kept
  PROVE  Settled'
<1>1. SettledDisk'
  BY DEF Settled, SettledDisk, RestDisk, CompleteDisk, DoneDisk, Marks,
    Durable, Level
<1>2. QED
  BY <1>1, SettledStays DEF Settled

\* Prepared and cleared locators leave the disk at rest.
LEMMA RestMarks ==
  ASSUME RestDisk, file'.tail = file.tail, stable'.tail = stable.tail,
         here' = here, kept' = kept, Marks({"-", "P"})'
  PROVE  RestDisk' /\ SettledDisk'
BY DEF RestDisk, Marks, Level, SettledDisk

\* Complete and done locators leave it complete.
LEMMA CompleteMarks ==
  ASSUME CompleteDisk, file'.tail = file.tail, stable'.tail = stable.tail,
         here' = here, kept' = kept, Marks({"C", "D"})'
  PROVE  SettledDisk'
BY DEF CompleteDisk, Marks, Level, Durable, SettledDisk

\* Without a journal in sight recovery writes nothing.
LEMMA GoneSettled ==
  ASSUME DiskInv', here' = NoJournal
  PROVE  SettledDisk'
BY DEF DiskInv, PendingDisk, CompleteDisk, Durable, SettledDisk

\* With a complete locator on every copy it is the new version.
LEMMA DoneSettled ==
  ASSUME DiskInv', here' # NoJournal, Marks({"C"})' \/ Marks({"D"})'
  PROVE  SettledDisk'
BY DEF DiskInv, RestDisk, PendingDisk, CompleteDisk, DoneDisk, Marks,
  SettledDisk

\* A locator that is not past prepared.
LEMMA RestSettled ==
  ASSUME Settled, file.marker.st \in {"-", "P"}
  PROVE  RestDisk /\ Marks({"-", "P", "D"})
BY DEF Settled, SettledDisk, CompleteDisk, DoneDisk, Marks, RestDisk

\* Locators do not move the mtime.
LEMMA MarkTimes ==
  ASSUME TypeOK, NEW p \in Procs, NEW st
  PROVE  /\ WriteThrough(Marked(p, st)) =>
              /\ file'.tail = file.tail /\ stable'.tail = file.tail
              /\ file'.mtime = file.mtime /\ stable'.mtime = file.mtime
              /\ file'.marker.st = st /\ stable'.marker.st = st
         /\ WriteInode(Marked(p, st)) =>
              /\ file'.tail = file.tail /\ file'.mtime = file.mtime
              /\ file'.marker.st = st /\ stable' = stable
BY DEF WriteThrough, WriteInode, Marked, TypeOK, Inode, Marker

\* Nor does clearing them.
LEMMA ClearTimes ==
  ASSUME TypeOK, ClearMarker \/ WriteInode([file EXCEPT !.marker = NoMarker])
  PROVE  /\ file'.tail = file.tail /\ file'.mtime = file.mtime
         /\ file'.marker.st = "-"
         /\ \/ stable' = stable
            \/ /\ stable'.tail = file.tail /\ stable'.mtime = file.mtime
               /\ stable'.marker.st = "-"
BY DEF ClearMarker, WriteThrough, WriteInode, NoMarker, TypeOK, Inode, Marker

\* The control points DuringInv speaks of.
Watched == Rewrites \cup Restoring
             \cup {"markD", "unlink", "rbMarkD", "rbUnlink", "hook", "rbHook"}

\* A step that touches neither the disk nor the rows.
LEMMA QuietRows ==
  ASSUME RowsBeside, rows' = rows, file' = file, stable' = stable, here' = here,
         kept' = kept, pc'[Us] \notin Watched \/ pc'[Us] = pc[Us]
  PROVE  RowsBeside'
<1>1. (Settled => Settled') /\ (Owned => Owned')
  BY SettledSame, OwnedStays
<1>2. QED
  BY <1>1 DEF RowsBeside, DuringInv, Watched

\* A step away from the watched control points, on settled or owned rows.
LEMMA UnwatchedRows ==
  ASSUME Settled' \/ Owned', pc'[Us] \notin Watched
  PROVE  RowsBeside'
BY DEF RowsBeside, DuringInv, Watched

\* While bytes are written over, the journal stays and the rows are its own.
LEMMA OwnedRows ==
  ASSUME RowsBeside, rows' = rows, here' = here, kept' = kept,
         pc[Us] \in Rewrites \cup Restoring,
         pc'[Us] \notin {"markD", "unlink", "rbMarkD", "rbUnlink", "rbHook"},
         pc'[Us] = "hook" => stable'.mtime = file'.mtime
  PROVE  RowsBeside'
<1>1. Owned'
  BY OwnedStays DEF RowsBeside, DuringInv
<1>2. QED
  BY <1>1 DEF RowsBeside, DuringInv, Rewrites, Restoring

-----------------------------------------------------------------------------
(* The overlay's own steps.                                                *)

\* What a step of the overlay starts from, and what the journal's proofs say
\* of where it ends.
Steady ==
  /\ OneName /\ OneOverlay
  /\ Inv /\ CrashInv /\ Inv' /\ CrashInv'
  /\ RowsBeside /\ GateInv

\* The parts of it.
LEMMA SteadyParts ==
  ASSUME Steady
  PROVE  /\ OneName /\ OneOverlay /\ Us \in Procs /\ Inv /\ TypeOK /\ DiskInv
         /\ CallInv(Us) /\ DiskInv' /\ CallInv(Us)'
         /\ Settled \/ Owned
         /\ DuringInv /\ GateInv /\ RowsBeside
BY OurProcess DEF Steady, CrashInv, RowsBeside, Inv

\* Where a step goes.
LEMMA GoesTo ==
  ASSUME TypeOK, NEW p \in Procs, NEW s
  PROVE  /\ Continue(p, s) \/ Goto(p, s) => pc'[p] = s
         /\ Return(p, s) => pc'[p] = "idle"
BY DEF Continue, Goto, Return, TypeOK

\* Steps up to the first locator, and those that only look or give up.
LEMMA LookRows ==
  ASSUME Steady, rows' = rows,
         \/ StartReplace(Us) \/ Probe(Us) \/ LockReplace(Us) \/ Check(Us)
         \/ BuildJournal(Us) \/ FinishFailed(Us) \/ LockRecover(Us)
         \/ Locate(Us) \/ FailsInPlace(Us) \/ Kill(Us)
  PROVE  RowsBeside'
<1>1. TypeOK /\ Us \in Procs /\ RowsBeside
  BY SteadyParts
<1>2. file' = file /\ stable' = stable /\ here' = here /\ kept' = kept
  BY DEF StartReplace, Probe, LockReplace, Check, BuildJournal, FinishFailed,
    LockRecover, Locate, FailsInPlace, Kill, here, kept
<1>3. pc'[Us] \notin Watched \/ pc'[Us] = pc[Us]
  BY <1>1, GoesTo DEF StartReplace, Probe, LockReplace, Check, BuildJournal,
    FinishFailed, LockRecover, Locate, FailsInPlace, Fail, Kill, Watched,
    Rewrites, Restoring
<1>4. QED
  BY <1>1, <1>2, <1>3, QuietRows

\* The bytes of the archive are written, forward or back.
LEMMA WriteRows ==
  ASSUME Steady, rows' = rows,
         \/ Truncate(Us) \/ SyncTruncate(Us) \/ WriteChunk(Us) \/ SyncWrite(Us)
         \/ MarkComplete(Us) \/ RbTruncate(Us) \/ RbSyncTruncate(Us)
         \/ RbCopyChunk(Us) \/ RbTimes(Us) \/ RbSync(Us)
  PROVE  RowsBeside'
<1>1. TypeOK /\ Us \in Procs /\ RowsBeside
  BY SteadyParts
<1>2. here' = here /\ kept' = kept
  BY DEF Truncate, SyncTruncate, WriteChunk, SyncWrite, MarkComplete,
    RbTruncate, RbSyncTruncate, RbCopyChunk, RbTimes, RbSync, here, kept
<1>3. pc[Us] \in Rewrites \cup Restoring
  BY DEF Truncate, SyncTruncate, WriteChunk, SyncWrite, MarkComplete,
    RbTruncate, RbSyncTruncate, RbCopyChunk, RbTimes, RbSync, At, Rewrites,
    Restoring
<1>4. pc'[Us] \in Rewrites \cup Restoring \cup {"hook", "rbMark"}
  BY <1>1, GoesTo DEF Truncate, SyncTruncate, WriteChunk, SyncWrite,
    MarkComplete, RbTruncate, RbSyncTruncate, RbCopyChunk, RbTimes, RbSync,
    At, Rewrites, Restoring
<1>5. ASSUME pc'[Us] = "hook" PROVE stable'.mtime = file'.mtime
  <2>1. MarkComplete(Us)
    BY <1>1, <1>5, GoesTo DEF Truncate, SyncTruncate, WriteChunk, SyncWrite,
      RbTruncate, RbSyncTruncate, RbCopyChunk, RbTimes, RbSync
  <2>2. QED
    BY <2>1 DEF MarkComplete, WriteThrough
<1>6. QED
  BY <1>1, <1>2, <1>3, <1>4, <1>5, OwnedRows DEF Rewrites, Restoring

\* The prepared locator.
LEMMA PreparedRows ==
  ASSUME Steady, rows' = rows, pc[Us] = "markP", pc'[Us] \notin Watched,
         WriteThrough(Marked(Us, "P")) \/ WriteInode(Marked(Us, "P")),
         here' = here, kept' = kept
  PROVE  RowsBeside'
<1>1. TypeOK /\ Us \in Procs /\ (Settled \/ Owned) /\ file.marker.st = "-"
  BY SteadyParts DEF CallInv, PrepareInv
<1>2. ASSUME Settled PROVE Settled'
  <2>1. RestDisk
    BY <1>1, <1>2, RestSettled
  <2>2. stable.tail = file.tail /\ stable.mtime = file.mtime
    BY <1>2, <2>1 DEF Settled, RestDisk, Level
  <2>3. file'.tail = file.tail /\ stable'.tail = stable.tail
        /\ file'.mtime = file.mtime /\ stable'.mtime = file.mtime
        /\ file'.marker.st = "P" /\ stable'.marker.st \in {"P", stable.marker.st}
    BY <1>1, <2>2, MarkTimes
  <2>4. RestDisk' /\ SettledDisk'
    BY <1>1, <2>1, <2>3 DEF RestDisk, Marks, Level, SettledDisk
  <2>5. QED
    BY <1>2, <2>3, <2>4, SettledStays
<1>3. QED
  BY <1>1, <1>2, OwnedStays, UnwatchedRows

\* The journal gets its name.
LEMMA PublishRows ==
  ASSUME Steady, rows' = rows, Publish(Us) \/ PublishUnseen(Us)
  PROVE  RowsBeside'
<1>1. Us \in Procs /\ TypeOK /\ Inv /\ (Settled \/ Owned)
  BY SteadyParts
<1>2. /\ pc[Us] = "publish" /\ DirExists(job[Us].jpath) /\ ~JournalAt(job[Us].jpath)
      /\ entry' = [d \in Dirs |->
                     IF pathOf[d] = job[Us].jpath THEN job[Us].hdr ELSE entry[d]]
      /\ UNCHANGED <<file, stable, dentry>>
  BY DEF Publish, PublishUnseen, At
<1>3. here = NoJournal /\ RestDisk'
  BY <1>2, SteadyParts, PublishKeeps
<1>4. Settled
  BY <1>1, <1>3 DEF Owned, Durable
<1>5. SettledDisk'
  BY <1>3 DEF SettledDisk
<1>6. Settled'
  BY <1>2, <1>4, <1>5, SettledStays DEF Settled
<1>7. pc'[Us] \notin Watched
  BY <1>1, GoesTo DEF Publish, PublishUnseen, Watched, Rewrites, Restoring
<1>8. QED
  BY <1>6, <1>7, UnwatchedRows

\* It is made durable, before any byte is written.
LEMMA SyncPublishedRows ==
  ASSUME Steady, rows' = rows, SyncPublished(Us)
  PROVE  RowsBeside'
<1>1. Us \in Procs /\ TypeOK /\ OneName /\ (Settled \/ Owned) /\ CallInv(Us)'
  BY SteadyParts
<1>2. here' = here /\ kept' = here /\ file' = file /\ stable' = stable
  BY <1>1, HereSync DEF SyncPublished
<1>3. pc'[Us] = "markA"
  BY <1>1, GoesTo DEF SyncPublished
<1>4. SettledDisk'
  BY <1>1, <1>3 DEF CallInv, PrepareInv, SettledDisk
<1>5. ASSUME Settled PROVE Settled'
  BY <1>2, <1>4, <1>5, SettledStays DEF Settled
<1>6. ASSUME Owned PROVE Owned'
  BY <1>2, <1>6, OwnedStays DEF Owned, Durable
<1>7. pc'[Us] \notin Watched
  BY <1>3 DEF Watched, Rewrites, Restoring
<1>8. QED
  BY <1>1, <1>5, <1>6, <1>7, UnwatchedRows

\* From the active locator on the rows own the journal.
LEMMA ActiveOwned ==
  ASSUME Steady, rows' = rows, pc[Us] = "markA", here' = here, kept' = kept
  PROVE  Owned'
<1>1. Us \in Procs /\ TypeOK /\ OneName /\ (Settled \/ Owned) /\ CallInv(Us) /\ GateInv
  BY SteadyParts
<1>2. RestDisk /\ here = job[Us].hdr /\ kept = job[Us].hdr /\ here # NoJournal
  BY <1>1 DEF CallInv, PrepareInv, FlagsOf, Published
<1>3. PreStamp(here) = Recorded
  BY <1>1, <1>2 DEF GateInv
<1>4. here \in Journal
  BY <1>1, <1>2, HereType
<1>5. Durable(here) /\ Same(file.tail, here.pre)
  BY <1>2 DEF Durable, RestDisk
<1>6. DigestOf(here.pre)
  <2>1. SUFFICES ASSUME Settled, rows.digest \in Contents
                 PROVE  Same(here.pre, Full(rows.digest))
    BY <1>1 DEF DigestOf, Owned
  <2>2. Same(file.tail, Full(rows.digest))
    BY <2>1 DEF Settled, DigestOf
  <2>3. file.tail \in Tail /\ here.pre \in Tail
    BY <1>1, <1>4 DEF TypeOK, Inode, Journal
  <2>4. QED
    BY <1>5, <2>1, <2>2, <2>3, FullType, SameSym, SameTrans
<1>7. QED
  BY <1>3, <1>5, <1>6, OwnedStays DEF Owned

\* The active locator.
LEMMA ActiveRows ==
  ASSUME Steady, rows' = rows, MarkActive(Us)
  PROVE  RowsBeside'
<1>1. here' = here /\ kept' = kept /\ pc[Us] = "markA" /\ pc'[Us] = "trunc"
  BY SteadyParts, GoesTo DEF MarkActive, At, here, kept
<1>2. QED
  BY <1>1, ActiveOwned DEF RowsBeside, DuringInv, Rewrites, Restoring

\* The done locator, whole or half set, on settled rows.
LEMMA DoneRows ==
  ASSUME Steady, rows' = rows, pc[Us] \in {"markD", "rbMarkD"},
         WriteThrough(Marked(Us, "D")) \/ WriteInode(Marked(Us, "D")),
         here' = here, kept' = kept,
         pc'[Us] \in {"unlink", "rbUnlink"} \/ pc'[Us] \notin Watched
  PROVE  RowsBeside'
<1>1. /\ Us \in Procs /\ TypeOK /\ OneName /\ Settled /\ CallInv(Us)
      /\ Inv /\ DiskInv
  BY SteadyParts DEF DuringInv
<1>2. here # NoJournal
  <2>1. job[Us].hdr # NoJournal /\ here = job[Us].hdr
    BY <1>1 DEF CallInv, FlagsOf, CompleteInv, RollbackInv, Published, Inv,
      IdInv, RollbackSteps
  <2>2. QED
    BY <2>1
<1>3. Marks({"C"})
  BY <1>1 DEF CallInv, CompleteInv, RollbackInv
<1>4. CompleteDisk
  BY <1>1, <1>2, <1>3 DEF DiskInv, RestDisk, PendingDisk, DoneDisk, Marks
<1>5. stable.tail = file.tail /\ stable.mtime = file.mtime
  BY <1>1, <1>4 DEF CompleteDisk, Level, Settled
<1>6. /\ file'.tail = file.tail /\ stable'.tail = stable.tail
      /\ file'.mtime = file.mtime /\ stable'.mtime = file.mtime
      /\ file'.marker.st = "D" /\ stable'.marker.st \in {"D", stable.marker.st}
  BY <1>1, <1>5, MarkTimes
<1>7. SettledDisk'
  BY <1>3, <1>4, <1>6, CompleteMarks DEF Marks
<1>8. Settled'
  BY <1>1, <1>6, <1>7, SettledStays
<1>9. QED
  BY <1>8 DEF RowsBeside, DuringInv, Watched, Rewrites, Restoring

\* Steps after which no journal is in sight, by the unlink or because it was
\* gone before.
LEMMA GoneRows ==
  ASSUME Steady, rows' = rows, here' = NoJournal, pc'[Us] \notin Watched,
         here = NoJournal \/ pc[Us] \in {"unlink", "rbUnlink"},
         file'.tail = file.tail, file'.mtime = file.mtime,
         stable'.mtime \in {stable.mtime, file.mtime}
  PROVE  RowsBeside'
<1>1. Settled
  BY SteadyParts DEF Owned, Durable, DuringInv
<1>2. SettledDisk'
  BY SteadyParts, GoneSettled
<1>3. stable'.mtime = file.mtime
  BY <1>1 DEF Settled
<1>4. Settled'
  BY <1>1, <1>2, <1>3, SettledStays
<1>5. QED
  BY <1>4, UnwatchedRows

\* The unlink, its fsync, and the locator cleared after it.
LEMMA UnlinkRows ==
  ASSUME Steady, rows' = rows,
         \/ Unlink(Us) \/ RbUnlink(Us)
         \/ SyncUnlink(Us) \/ DoneSync(Us) \/ RbSyncUnlink(Us)
  PROVE  RowsBeside'
<1>1. Us \in Procs /\ TypeOK /\ OneName /\ CallInv(Us)
  BY SteadyParts
<1>2. file' = file /\ stable' = stable
  BY DEF Unlink, RbUnlink, SyncUnlink, DoneSync, RbSyncUnlink
<1>3. pc'[Us] \notin Watched
  BY <1>1, GoesTo DEF Unlink, RbUnlink, SyncUnlink, DoneSync, RbSyncUnlink,
    Watched, Rewrites, Restoring
<1>4. ASSUME Unlink(Us) \/ RbUnlink(Us)
      PROVE  here' = NoJournal /\ pc[Us] \in {"unlink", "rbUnlink"}
  BY <1>1, <1>4, HereRemove DEF Unlink, RbUnlink, At
<1>5. ASSUME SyncUnlink(Us) \/ DoneSync(Us) \/ RbSyncUnlink(Us)
      PROVE  here = NoJournal /\ here' = NoJournal
  <2>1. here' = here
    BY <1>1, <1>5, HereSync DEF SyncUnlink, DoneSync, RbSyncUnlink
  <2>2. here = NoJournal
    BY <1>1, <1>5 DEF SyncUnlink, DoneSync, RbSyncUnlink, At, CallInv,
      CompleteInv, CleanupInv, RollbackInv
  <2>3. QED
    BY <2>1, <2>2
<1>6. QED
  BY <1>2, <1>3, <1>4, <1>5, GoneRows

\* The locator is cleared once no journal is left, or while it is not past
\* prepared.
LEMMA ClearRows ==
  ASSUME Steady, rows' = rows,
         pc[Us] \in {"clear", "dropMarker", "doneClear", "staleClear", "rbClear"},
         ClearMarker \/ WriteInode([file EXCEPT !.marker = NoMarker]),
         here' = here, kept' = kept, pc'[Us] \notin Watched
  PROVE  RowsBeside'
<1>1. Us \in Procs /\ TypeOK /\ OneName /\ CallInv(Us) /\ (Settled \/ Owned)
  BY SteadyParts
<1>2. /\ file'.tail = file.tail /\ file'.mtime = file.mtime
      /\ file'.marker.st = "-"
      /\ \/ stable' = stable
         \/ /\ stable'.tail = file.tail /\ stable'.mtime = file.mtime
            /\ stable'.marker.st = "-"
  BY <1>1, ClearTimes
<1>3. CASE pc[Us] \in {"clear", "doneClear", "rbClear"}
  <2>1. here = NoJournal
    BY <1>1, <1>3 DEF CallInv, CompleteInv, CleanupInv, RollbackInv
  <2>2. QED
    BY <1>2, <2>1, GoneRows
<1>4. CASE pc[Us] \in {"dropMarker", "staleClear"}
  <2>1. file.marker.st \in {"-", "P"}
    BY <1>1, <1>4 DEF CallInv, CleanupInv, RollbackInv
  <2>2. ASSUME Settled PROVE Settled'
    <3>1. RestDisk /\ stable.tail = file.tail /\ stable.mtime = file.mtime
      BY <2>1, <2>2, RestSettled DEF RestDisk, Level, Settled
    <3>2. stable'.tail = stable.tail /\ stable'.mtime = file.mtime
          /\ stable'.marker.st \in {"-", stable.marker.st}
      BY <1>2, <3>1
    <3>3. RestDisk' /\ SettledDisk'
      BY <1>2, <3>1, <3>2 DEF RestDisk, Marks, Level, SettledDisk
    <3>4. QED
      BY <1>2, <2>2, <3>2, <3>3, SettledStays
  <2>3. QED
    BY <1>1, <2>2, OwnedStays, UnwatchedRows
<1>5. QED
  BY <1>3, <1>4

\* The directory of a journal that never got its name is synced.
LEMMA StaleRows ==
  ASSUME Steady, rows' = rows, StaleSync(Us)
  PROVE  RowsBeside'
<1>1. Us \in Procs /\ TypeOK /\ OneName /\ CallInv(Us) /\ (Settled \/ Owned)
  BY SteadyParts
<1>2. file' = file /\ stable' = stable /\ file.marker.st = "P"
  BY <1>1 DEF StaleSync, At, CallInv, RollbackInv
<1>3. here' = here /\ kept' \in {here, kept}
  <2>1. CASE DirExists(job[Us].jpath)
    BY <1>1, <2>1, HereSync DEF StaleSync
  <2>2. CASE ~DirExists(job[Us].jpath)
    BY <2>2 DEF StaleSync, here, kept
  <2>3. QED
    BY <2>1, <2>2
<1>4. ASSUME Settled PROVE Settled'
  <2>1. RestDisk
    BY <1>2, <1>4, RestSettled
  <2>2. SettledDisk'
    BY <1>2, <1>3, <2>1 DEF RestDisk, Marks, Level, SettledDisk
  <2>3. QED
    BY <1>2, <1>4, <2>2, SettledStays DEF Settled
<1>5. ASSUME Owned PROVE Owned'
  BY <1>3, <1>5, OwnedStays DEF Owned, Durable
<1>6. pc'[Us] \notin Watched
  BY <1>1, GoesTo DEF StaleSync, Watched, Rewrites, Restoring
<1>7. QED
  BY <1>1, <1>4, <1>5, <1>6, UnwatchedRows

\* A recovery sets the locator of what it restored.
LEMMA RbMarkRows ==
  ASSUME Steady, rows' = rows, pc[Us] = "rbMark",
         LET f == Marked(Us, IF job[Us].complete THEN "C" ELSE "P")
         IN  \/ WriteThrough(f) /\ pc'[Us] = "rbHook"
             \/ WriteInode(f) /\ pc'[Us] \notin Watched,
         here' = here, kept' = kept
  PROVE  RowsBeside'
<1>1. Us \in Procs /\ TypeOK /\ Inv /\ OneName /\ CallInv(Us) /\ (Settled \/ Owned)
  BY SteadyParts
<1> DEFINE st == IF job[Us].complete THEN "C" ELSE "P"
<1>2. WriteThrough(Marked(Us, st)) \/ WriteInode(Marked(Us, st))
  OBVIOUS
<1>3. here # NoJournal
  BY <1>1 DEF CallInv, RollbackInv, Inv, IdInv, RollbackSteps
<1>4. ASSUME Settled PROVE Settled'
  <2>1. stable.tail = file.tail /\ stable.mtime = file.mtime
    BY <1>4 DEF Settled, SettledDisk, RestDisk, CompleteDisk, DoneDisk, Level
  <2>2. /\ file'.tail = file.tail /\ stable'.tail = stable.tail
        /\ file'.mtime = file.mtime /\ stable'.mtime = file.mtime
        /\ file'.marker.st = st /\ stable'.marker.st \in {st, stable.marker.st}
    BY <1>1, <1>2, <2>1, MarkTimes
  <2>3. CASE job[Us].complete
    <3>1. CompleteDisk /\ Marks({"C", "D"})
      BY <1>1, <1>3, <1>4, <2>3 DEF CallInv, RollbackInv, Settled,
        SettledDisk, RestDisk, DoneDisk, Marks, RollbackSteps, Restoring
    <3>2. SettledDisk'
      BY <2>2, <2>3, <3>1, CompleteMarks DEF Marks
    <3>3. QED
      BY <1>4, <2>2, <3>2, SettledStays
  <2>4. CASE ~job[Us].complete
    <3>1. RestDisk
      BY <1>1, <1>3, <1>4, <2>4 DEF CallInv, RollbackInv, Settled,
        SettledDisk, CompleteDisk, DoneDisk, Marks, RollbackSteps, Restoring
    <3>2. Marks({"-", "P"})
      BY <1>3, <3>1 DEF RestDisk
    <3>3. SettledDisk'
      BY <2>2, <2>4, <3>1, <3>2, RestMarks DEF Marks
    <3>4. QED
      BY <1>4, <2>2, <3>3, SettledStays
  <2>5. QED
    BY <2>3, <2>4
<1>5. Settled' \/ Owned'
  BY <1>1, <1>4, OwnedStays
<1>6. ASSUME pc'[Us] = "rbHook" PROVE stable'.mtime = file'.mtime
  BY <1>6 DEF WriteThrough, Watched
<1>7. QED
  BY <1>5, <1>6 DEF RowsBeside, DuringInv, Watched, Rewrites, Restoring

\* A journal is validated: it restores only bytes that are not the old ones,
\* which settled rows exclude.
LEMMA ValidateRows ==
  ASSUME Steady, rows' = rows, Validate(Us)
  PROVE  RowsBeside'
<1>1. Us \in Procs /\ TypeOK /\ OneName /\ CallInv(Us) /\ RowsBeside
  BY SteadyParts
<1>2. file' = file /\ stable' = stable /\ here' = here /\ kept' = kept
  BY DEF Validate, here, kept
<1>3. here # NoJournal /\ pc'[Us] = RollbackFrom(Us, here) /\ pc[Us] = "validate"
  BY <1>1, OneDir, GoesTo DEF Validate, here, At
<1>4. CASE pc'[Us] = "rbTrunc"
  <2>1. ~job[Us].complete /\ ~Same(file.tail, here.pre)
    BY <1>3, <1>4 DEF RollbackFrom
  <2>2. file.marker.st \notin {"C", "D"}
    BY <1>1, <1>3, <2>1 DEF CallInv, RollbackInv
  <2>3. ~Settled
    BY <1>3, <2>1, <2>2 DEF Settled, SettledDisk, RestDisk, CompleteDisk,
      DoneDisk
  <2>4. Owned'
    BY <1>1, <1>2, <2>3, OwnedStays DEF RowsBeside
  <2>5. QED
    BY <1>4, <2>4 DEF RowsBeside, DuringInv, Rewrites, Restoring
<1>5. CASE pc'[Us] = "rbMark"
  BY <1>1, <1>2, <1>5, QuietRows DEF Watched, Rewrites, Restoring
<1>6. QED
  BY <1>3, <1>4, <1>5 DEF RollbackFrom

\* Restamped rows are at the stamp of the archive.
LEMMA StampedRows ==
  ASSUME RowsTypeOK, NEW g,
         rows' = [rows EXCEPT !.n = Current.n, !.time = Current.time]
         \/ rows' = [[rows EXCEPT !.n = Current.n, !.time = Current.time]
                       EXCEPT !.digest = g],
         file' = file
  PROVE  Recorded' = Current' /\ rows'.digest \in {rows.digest, g}
BY DEF RowsTypeOK, Rows, Recorded, Current, Stamp

\* The hook of a commit moves the rows to the new version, under the complete
\* locator.
LEMMA HookedRows ==
  ASSUME Steady, RowsTypeOK, ViaInv, HookRows(Us)
  PROVE  RowsBeside'
<1>1. Us \in Procs /\ Us \in Overlays /\ TypeOK /\ CallInv(Us) /\ DuringInv
  BY SteadyParts, OurProcess
<1>2. /\ file' = file /\ stable' = stable /\ here' = here /\ kept' = kept
      /\ pc[Us] = "hook" /\ pc'[Us] = "markD"
  BY <1>1, GoesTo DEF HookRows, Hook, At, here, kept
<1>3. CompleteDisk /\ Marks({"C"}) /\ stable.mtime = file.mtime
  BY <1>1, <1>2 DEF CallInv, CompleteInv, DuringInv
<1>4. job[Us].op = "replace"
  BY <1>2, SteadyParts DEF Inv, IdInv, ReplaceSteps, RunSteps
<1>5. TargetsRecord
  BY <1>1, <1>4 DEF HookRows, RunHook, CanRestamp, ViaInv, TargetsRecord
<1>6. \E g \in {"weak", "pending"} :
        rows' = [[rows EXCEPT !.n = Current.n, !.time = Current.time] EXCEPT !.digest = g]
  BY <1>1, <1>4, <1>5 DEF HookRows, RunHook, Restamped
<1>7. Recorded' = Current' /\ rows'.digest \notin Contents
  <2>1. PICK g \in {"weak", "pending"} :
          rows' = [[rows EXCEPT !.n = Current.n, !.time = Current.time] EXCEPT !.digest = g]
    BY <1>6
  <2>2. rows'.digest = g
    BY <2>1 DEF RowsTypeOK, Rows
  <2>3. QED
    BY <1>2, <2>1, <2>2, StampedRows
<1>8. SettledDisk'
  BY <1>2, <1>3, CompleteMarks DEF Marks
<1>9. Settled'
  BY <1>2, <1>3, <1>7, <1>8 DEF Settled, DigestOf
<1>10. QED
  BY <1>2, <1>9 DEF RowsBeside, DuringInv, Rewrites, Restoring

\* The hook of a recovery that rolls forward.
LEMMA ForwardHook ==
  ASSUME Steady, RowsTypeOK, ViaInv, RbHookRows(Us), job[Us].complete
  PROVE  Settled'
<1>1. /\ Us \in Procs /\ Us \in Overlays /\ TypeOK /\ Inv /\ DiskInv /\ CallInv(Us)
      /\ DuringInv /\ (Settled \/ Owned)
  BY SteadyParts, OurProcess
<1>2. /\ file' = file /\ stable' = stable /\ here' = here /\ kept' = kept
      /\ pc[Us] = "rbHook"
  BY <1>1 DEF RbHookRows, RbHook, At, here, kept
<1>3. /\ here = job[Us].hdr /\ here # NoJournal /\ Marks({"C"})
      /\ stable.mtime = file.mtime /\ job[Us].op # "none"
  BY <1>1, <1>2 DEF CallInv, RollbackInv, DuringInv, Inv, IdInv, RollbackSteps
<1>4. CompleteDisk
  BY <1>1, <1>3 DEF DiskInv, RestDisk, PendingDisk, DoneDisk, Marks
<1>5. TargetsRecord
  BY <1>1, <1>3 DEF RbHookRows, RunHook, CanRestamp, ViaInv, TargetsRecord
<1>6. Recorded = PreStamp(job[Us].hdr) \/ Recorded = Current
  BY <1>1, <1>3 DEF Settled, Owned
<1>7. \E g \in {"weak", "pending"} :
        rows' = [[rows EXCEPT !.n = Current.n, !.time = Current.time] EXCEPT !.digest = g]
  BY <1>1, <1>5, <1>6 DEF RbHookRows, RunHook, Restamped
<1>8. Recorded' = Current' /\ rows'.digest \notin Contents
  <2>1. PICK g \in {"weak", "pending"} :
          rows' = [[rows EXCEPT !.n = Current.n, !.time = Current.time] EXCEPT !.digest = g]
    BY <1>7
  <2>2. rows'.digest = g
    BY <2>1 DEF RowsTypeOK, Rows
  <2>3. QED
    BY <1>2, <2>1, <2>2, StampedRows
<1>9. SettledDisk'
  BY <1>2, <1>3, <1>4, CompleteMarks DEF Marks
<1>10. QED
  BY <1>2, <1>3, <1>8, <1>9 DEF Settled, DigestOf

\* The hook of a recovery that rolls back: the old bytes are in place, with the
\* old mtime or a new one that the rows then take.
LEMMA BackHook ==
  ASSUME Steady, RowsTypeOK, ViaInv, RbHookRows(Us), ~job[Us].complete
  PROVE  Settled'
<1>1. /\ Us \in Procs /\ Us \in Overlays /\ TypeOK /\ Inv /\ CallInv(Us) /\ OneName
      /\ DuringInv /\ (Settled \/ Owned)
  BY SteadyParts, OurProcess
<1>2. /\ file' = file /\ stable' = stable /\ here' = here /\ kept' = kept
      /\ pc[Us] = "rbHook"
  BY <1>1 DEF RbHookRows, RbHook, At, here, kept
<1>3. /\ here = job[Us].hdr /\ here # NoJournal /\ Marks({"P"}) /\ RestDisk
      /\ stable.mtime = file.mtime /\ job[Us].op # "none"
  BY <1>1, <1>2 DEF CallInv, RollbackInv, DuringInv, Inv, IdInv, RollbackSteps
<1>4. SettledDisk /\ SettledDisk'
  <2>1. SettledDisk
    BY <1>3 DEF SettledDisk
  <2>2. QED
    BY <1>2, <1>3, <2>1, RestMarks DEF Marks
<1>5. TargetsRecord
  BY <1>1, <1>3 DEF RbHookRows, RunHook, CanRestamp, ViaInv, TargetsRecord
<1>6. DigestOf(file.tail)
  <2>1. here \in Journal /\ here.pre \in Tail /\ file.tail \in Tail
    BY <1>1, <1>3, HereType DEF Journal, TypeOK, Inode
  <2>2. Same(file.tail, here.pre)
    BY <1>3 DEF RestDisk
  <2>3. QED
    BY <1>1, <2>1, <2>2, FullType, SameTrans DEF Settled, Owned, DigestOf
<1>7. Current.n = here.pre.n
  BY <1>3 DEF RestDisk, Same, Current, Stamp
<1>8. CASE Current.time = here.preTime \/ Recorded # PreStamp(here)
  <2>1. rows' = rows
    BY <1>1, <1>3, <1>5, <1>8 DEF RbHookRows, RunHook, Restamped
  <2>2. Recorded = Current
    <3>1. CASE Settled
      BY <3>1 DEF Settled
    <3>2. CASE Owned /\ Current.time = here.preTime
      BY <1>7, <3>2 DEF Owned, PreStamp, Current, Stamp
    <3>3. QED
      BY <1>1, <1>8, <3>1, <3>2 DEF Owned
  <2>3. Settled
    BY <1>3, <1>4, <1>6, <2>2 DEF Settled
  <2>4. QED
    BY <1>2, <2>1, <2>3, SettledSame
<1>9. CASE ~(Current.time = here.preTime \/ Recorded # PreStamp(here))
  <2>1. rows' = [rows EXCEPT !.n = Current.n, !.time = Current.time]
    BY <1>1, <1>3, <1>5, <1>9 DEF RbHookRows, RunHook, Restamped
  <2>2. Recorded' = Current' /\ rows'.digest = rows.digest
    BY <1>2, <2>1, StampedRows DEF RowsTypeOK, Rows
  <2>3. QED
    BY <1>2, <1>3, <1>4, <1>6, <2>2 DEF Settled, DigestOf
<1>10. QED
  BY <1>8, <1>9

\* Either way the rows are settled before the journal goes.
LEMMA RbHookedRows ==
  ASSUME Steady, RowsTypeOK, ViaInv, RbHookRows(Us)
  PROVE  RowsBeside'
<1>1. pc'[Us] \in {"rbMarkD", "rbUnlink"}
  BY SteadyParts, GoesTo DEF RbHookRows, RbHook
<1>2. QED
  BY <1>1, ForwardHook, BackHook DEF RowsBeside, DuringInv, Rewrites,
    Restoring

\* A locator that was set or cleared, and whose fsync failed.
LEMMA HalfRows ==
  ASSUME Steady, rows' = rows, MarkerHalfSet(Us)
  PROVE  RowsBeside'
<1>1. Us \in Procs /\ TypeOK /\ RowsBeside
  BY SteadyParts
<1>2. here' = here /\ kept' = kept
  BY DEF MarkerHalfSet, here, kept
<1>3. pc'[Us] \notin Watched /\ WriteInode(HalfMarker(Us))
  BY <1>1, GoesTo DEF MarkerHalfSet, Watched, Rewrites, Restoring
<1>4. CASE pc[Us] = "markP"
  BY <1>2, <1>3, <1>4, PreparedRows DEF HalfMarker
<1>5. CASE pc[Us] = "markA"
  BY <1>2, <1>3, <1>5, ActiveOwned, UnwatchedRows
<1>6. CASE pc[Us] = "markC"
  BY <1>1, <1>2, <1>3, <1>6, OwnedRows DEF Rewrites, Watched
<1>7. CASE pc[Us] \in {"markD", "rbMarkD"}
  <2>1. HalfMarker(Us) = Marked(Us, "D")
    BY <1>7 DEF HalfMarker
  <2>2. QED
    BY <1>2, <1>3, <1>7, <2>1, DoneRows
<1>8. CASE pc[Us] = "rbMark"
  <2>1. HalfMarker(Us) = Marked(Us, IF job[Us].complete THEN "C" ELSE "P")
    BY <1>8 DEF HalfMarker
  <2>2. QED
    BY <1>2, <1>3, <1>8, <2>1, RbMarkRows
<1>9. CASE pc[Us] \in {"clear", "dropMarker", "doneClear", "staleClear", "rbClear"}
  <2>1. HalfMarker(Us) = [file EXCEPT !.marker = NoMarker]
    BY <1>9 DEF HalfMarker
  <2>2. QED
    BY <1>2, <1>3, <1>9, <2>1, ClearRows
<1>10. QED
  BY <1>4, <1>5, <1>6, <1>7, <1>8, <1>9 DEF MarkerHalfSet

\* The locators, set and synced.
LEMMA MarkRows ==
  ASSUME Steady, rows' = rows,
         \/ MarkPrepared(Us) \/ MarkDone(Us) \/ RbMarkDone(Us) \/ RbMark(Us)
         \/ ClearLocator(Us) \/ DropMarker(Us) \/ DoneClear(Us)
         \/ StaleClear(Us) \/ RbClear(Us)
  PROVE  RowsBeside'
<1>1. Us \in Procs /\ TypeOK
  BY SteadyParts
<1>2. here' = here /\ kept' = kept
  BY DEF MarkPrepared, MarkDone, RbMarkDone, RbMark, ClearLocator, DropMarker,
    DoneClear, StaleClear, RbClear, here, kept
<1>3. ASSUME MarkPrepared(Us) PROVE RowsBeside'
  <2>1. pc[Us] = "markP" /\ pc'[Us] = "publish" /\ WriteThrough(Marked(Us, "P"))
    BY <1>1, <1>3, GoesTo DEF MarkPrepared, At
  <2>2. QED
    BY <1>2, <2>1, PreparedRows DEF Watched, Rewrites, Restoring
<1>4. ASSUME MarkDone(Us) \/ RbMarkDone(Us) PROVE RowsBeside'
  <2>1. /\ pc[Us] \in {"markD", "rbMarkD"} /\ pc'[Us] \in {"unlink", "rbUnlink"}
        /\ WriteThrough(Marked(Us, "D"))
    BY <1>1, <1>4, GoesTo DEF MarkDone, RbMarkDone, At
  <2>2. QED
    BY <1>2, <2>1, DoneRows
<1>5. ASSUME RbMark(Us) PROVE RowsBeside'
  <2>1. /\ pc[Us] = "rbMark" /\ pc'[Us] = "rbHook"
        /\ WriteThrough(Marked(Us, IF job[Us].complete THEN "C" ELSE "P"))
    BY <1>1, <1>5, GoesTo DEF RbMark, At
  <2>2. QED
    BY <1>2, <2>1, RbMarkRows
<1>6. ASSUME ClearLocator(Us) \/ DropMarker(Us) \/ DoneClear(Us) \/ StaleClear(Us)
               \/ RbClear(Us)
      PROVE RowsBeside'
  <2>1. /\ pc[Us] \in {"clear", "dropMarker", "doneClear", "staleClear", "rbClear"}
        /\ pc'[Us] = "idle" /\ ClearMarker
    BY <1>1, <1>6, GoesTo DEF ClearLocator, DropMarker, DoneClear,
      StaleClear, RbClear, At
  <2>2. QED
    BY <1>2, <2>1, ClearRows DEF Watched, Rewrites, Restoring
<1>7. QED
  BY <1>3, <1>4, <1>5, <1>6

\* Every step of the overlay but the hooks.
LEMMA OwnRows ==
  ASSUME Steady, rows' = rows,
         \/ StartReplace(Us) \/ Probe(Us) \/ Validate(Us) \/ FailsInPlace(Us)
         \/ PlainStep(Us)
  PROVE  RowsBeside'
<1>1. StepFails(Us) => FailsInPlace(Us)
  BY DEF StepFails, FailsInPlace
<1>2. ASSUME PlainStep(Us) PROVE RowsBeside'
  BY <1>1, <1>2, LookRows, MarkRows, PublishRows, SyncPublishedRows,
    ActiveRows, WriteRows, UnlinkRows, StaleRows, HalfRows DEF PlainStep,
    CleanupStep, RecoverStep, ErrorStep
<1>3. QED
  BY <1>2, LookRows, ValidateRows

\* A power loss: what was settled or owned is.
LEMMA LossRows ==
  ASSUME OneName, OneOverlay, TypeOK, RowsBeside, PowerLoss, rows' = rows
  PROVE  RowsBeside'
<1>1. /\ file'.tail \in TailImages(stable.tail, file.tail)
      /\ file'.marker \in {stable.marker, file.marker}
      /\ stable' = file' /\ kept' = here'
      /\ here' \in {here, kept}
  BY PowerLossLeaves
<1>2. file'.mtime \in {stable.mtime, file.mtime}
  BY DEF PowerLoss
<1>3. pc'[Us] \notin Watched
  BY OurProcess DEF PowerLoss, Watched, Rewrites, Restoring
<1>4. ASSUME Settled PROVE Settled'
  <2>1. stable.tail = file.tail /\ stable.mtime = file.mtime
    BY <1>4 DEF Settled, SettledDisk, RestDisk, CompleteDisk, DoneDisk, Level
  <2>2. file'.tail = file.tail /\ file'.mtime = file.mtime /\ stable'.mtime = file.mtime
        /\ stable'.tail = file.tail
    BY <1>1, <1>2, <2>1, LevelImages DEF TypeOK, Inode
  <2>3. SettledDisk'
    <3>1. CASE RestDisk
      BY <1>1, <2>1, <2>2, <3>1 DEF RestDisk, Marks, Level, SettledDisk
    <3>2. CASE CompleteDisk /\ Marks({"C", "D"})
      BY <1>1, <2>1, <2>2, <3>2 DEF CompleteDisk, Durable, Marks, Level,
        SettledDisk
    <3>3. CASE DoneDisk /\ here' = NoJournal
      BY <1>1, <2>1, <2>2, <3>3 DEF DoneDisk, RestDisk, Marks, Level,
        SettledDisk
    <3>4. CASE DoneDisk /\ here' = kept
      BY <1>1, <2>1, <2>2, <3>4 DEF DoneDisk, CompleteDisk, Durable, Marks,
        Level, SettledDisk
    <3>5. QED
      BY <1>1, <1>4, <3>1, <3>2, <3>3, <3>4 DEF Settled, SettledDisk, DoneDisk
  <2>4. QED
    BY <1>4, <2>2, <2>3, SettledStays
<1>5. ASSUME Owned PROVE Owned'
  BY <1>1, <1>5, OwnedStays DEF Owned, Durable
<1>6. QED
  BY <1>3, <1>4, <1>5, UnwatchedRows DEF RowsBeside

-----------------------------------------------------------------------------
(* What a step leaves of the other calls, and of the gate's answer.        *)

\* A step of one process leaves the others' calls alone, and the disk too
\* unless it holds the lock.
LEMMA JournalApart ==
  ASSUME Inv, NEW p \in Procs, JournalStep(p)
  PROVE  Apart(p)
<1>1. ASSUME FailsInPlace(p) PROVE Apart(p)
  BY <1>1, FailShape DEF Inv, Shape, Apart, FailsInPlace
<1>2. QED
  BY <1>1, StepApart DEF JournalStep

\* A call keeps the name it was given.
ViaKept(p) ==
  job'[p].op # "none" => job[p].op # "none" /\ job'[p].via = job[p].via

\* What a step does to the record of its call.
LEMMA JobKeepsVia ==
  ASSUME TypeOK, NEW p \in Procs, NEW x, NEW b,
         \/ UNCHANGED job
         \/ \E r : Return(p, r)
         \/ job' = [job EXCEPT ![p].hdr = x]
         \/ job' = [job EXCEPT ![p].prepared = b]
         \/ job' = [job EXCEPT ![p].published = b]
         \/ job' = [job EXCEPT ![p].completed = b]
         \/ job' = [job EXCEPT ![p].unlinked = b]
         \/ job' = [job EXCEPT ![p].synced = b]
         \/ job' = [job EXCEPT ![p].complete = b]
         \/ job' = [job EXCEPT ![p].jpath = x]
         \/ job' = [job EXCEPT ![p].jpath = x, ![p].complete = b]
  PROVE  ViaKept(p)
<1>1. job[p] \in Job /\ job \in [Procs -> Job]
  BY DEF TypeOK
<1>2. ASSUME NEW r, Return(p, r) PROVE ViaKept(p)
  BY <1>1, <1>2 DEF Return, NoJob, ViaKept
<1>3. QED
  BY <1>1, <1>2 DEF ViaKept, Job

\* Every step but the start of a call.
LEMMA StepKeepsVia ==
  ASSUME TypeOK, NEW p \in Procs, JournalStep(p), ~StartReplace(p), ~Probe(p)
  PROVE  ViaKept(p)
<1>1. ASSUME ReplaceStep(p) PROVE ViaKept(p)
  BY <1>1, JobKeepsVia DEF ReplaceStep, LockReplace, Check,
    BuildJournal, MarkPrepared, Publish, SyncPublished, MarkActive, Truncate,
    SyncTruncate, WriteChunk, SyncWrite, MarkComplete, Hook, MarkDone,
    Unlink, SyncUnlink, ClearLocator
<1>2. ASSUME CleanupStep(p) \/ RecoverStep(p) PROVE ViaKept(p)
  BY <1>2, JobKeepsVia DEF CleanupStep, FinishFailed, DropMarker,
    DoneSync, DoneClear, RecoverStep, LockRecover, Locate, StaleSync,
    StaleClear
<1>3. ASSUME RollbackStep(p) PROVE ViaKept(p)
  BY <1>3, JobKeepsVia DEF RollbackStep, Validate, RbTruncate,
    RbSyncTruncate, RbCopyChunk, RbTimes, RbSync, RbMark, RbHook, RbMarkDone,
    RbUnlink, RbSyncUnlink, RbClear
<1>4. ASSUME ErrorStep(p) \/ Kill(p) \/ FailsInPlace(p) PROVE ViaKept(p)
  BY <1>4, JobKeepsVia DEF ErrorStep, StepFails, Fail, MarkerHalfSet,
    PublishUnseen, Kill, FailsInPlace
<1>5. QED
  BY <1>1, <1>2, <1>3, <1>4 DEF JournalStep

\* The archive is as it was, or every stat of it is out of date.
LEMMA FreshFile ==
  ASSUME TypeOK, NEW p \in Procs, JournalStep(p), ~StartReplace(p)
  PROVE  (file' = file /\ fresh' = fresh) \/ Changed
<1>1. ASSUME ReplaceStep(p) PROVE (file' = file /\ fresh' = fresh) \/ Changed
  BY <1>1 DEF ReplaceStep, LockReplace, Check, BuildJournal, MarkPrepared,
    Publish, SyncPublished, MarkActive, Truncate, SyncTruncate, WriteChunk,
    SyncWrite, MarkComplete, Hook, MarkDone, Unlink, SyncUnlink,
    ClearLocator, ClearMarker, WriteThrough, WriteInode, SyncInode
<1>2. ASSUME CleanupStep(p) \/ RecoverStep(p)
      PROVE (file' = file /\ fresh' = fresh) \/ Changed
  BY <1>2 DEF CleanupStep, FinishFailed, DropMarker,
    DoneSync, DoneClear, RecoverStep, LockRecover, Locate, StaleSync,
    StaleClear, ClearMarker, WriteThrough
<1>3. ASSUME RollbackStep(p) PROVE (file' = file /\ fresh' = fresh) \/ Changed
  BY <1>3 DEF RollbackStep, Validate, RbTruncate, RbSyncTruncate,
    RbCopyChunk, RbTimes, RbSync, RbMark, RbHook, RbMarkDone, RbUnlink,
    RbSyncUnlink, RbClear, ClearMarker, WriteThrough, WriteInode, SyncInode
<1>4. ASSUME ErrorStep(p) \/ Kill(p) \/ FailsInPlace(p) \/ Probe(p)
      PROVE (file' = file /\ fresh' = fresh) \/ Changed
  BY <1>4 DEF ErrorStep, StepFails, MarkerHalfSet, PublishUnseen, Kill,
    FailsInPlace, Probe, WriteInode
<1>5. QED
  BY <1>1, <1>2, <1>3, <1>4 DEF JournalStep

\* A journal is unlinked only under a locator.
LEMMA UnlinkMarked ==
  ASSUME OneName, Inv, DiskInv, NEW p \in Procs, CallInv(p), JournalStep(p)
  PROVE  here = NoJournal \/ here' # NoJournal \/ file.marker.st # "-"
<1>1. ASSUME Unlink(p) \/ RbUnlink(p) PROVE file.marker.st # "-"
  BY <1>1 DEF Unlink, RbUnlink, At, CallInv, CompleteInv, RollbackInv, Marks
<1>2. ASSUME NEW path, SyncParent(path) PROVE here' = here
  BY <1>2, HereSync DEF Inv
<1>3. ASSUME Publish(p) \/ PublishUnseen(p) PROVE here = NoJournal
  BY <1>3, HereNames DEF Publish, PublishUnseen
<1>4. ASSUME UNCHANGED entry PROVE here' = here
  BY <1>4 DEF here
<1>5. ASSUME ReplaceStep(p), ~Unlink(p), ~Publish(p) PROVE here' = here
  BY <1>2, <1>4, <1>5 DEF ReplaceStep, LockReplace, Check, BuildJournal,
    MarkPrepared, SyncPublished, MarkActive, Truncate, SyncTruncate,
    WriteChunk, SyncWrite, MarkComplete, Hook, MarkDone, SyncUnlink,
    ClearLocator
<1>6. ASSUME CleanupStep(p) \/ RecoverStep(p) PROVE here' = here
  BY <1>2, <1>4, <1>6 DEF CleanupStep, FinishFailed, DropMarker, DoneSync,
    DoneClear, RecoverStep, LockRecover, Locate, StaleSync, StaleClear
<1>7. ASSUME RollbackStep(p), ~RbUnlink(p) PROVE here' = here
  BY <1>2, <1>4, <1>7 DEF RollbackStep, Validate, RbTruncate, RbSyncTruncate,
    RbCopyChunk, RbTimes, RbSync, RbMark, RbHook, RbMarkDone, RbSyncUnlink,
    RbClear
<1>8. ASSUME StartReplace(p) \/ Probe(p) \/ StepFails(p) \/ MarkerHalfSet(p) \/ Kill(p)
               \/ FailsInPlace(p)
      PROVE  here' = here
  BY <1>4, <1>8 DEF StartReplace, Probe, StepFails, MarkerHalfSet, Kill,
    FailsInPlace
<1>9. QED
  BY <1>1, <1>3, <1>5, <1>6, <1>7, <1>8 DEF JournalStep, ErrorStep

\* The control points GateInv speaks of.
GateSteps ==
  {"lock", "check", "build", "markP", "publish", "syncPub", "markA", "hook"}
    \cup Rewrites

\* How a call gets there.
LEMMA GateFrom ==
  ASSUME TypeOK, NEW p \in Procs, JournalStep(p), pc'[p] \in GateSteps
  PROVE  \/ StartReplace(p) \/ LockReplace(p) \/ Check(p) \/ BuildJournal(p)
         \/ MarkPrepared(p) \/ Publish(p)
         \/ SyncPublished(p) \/ MarkActive(p) \/ Truncate(p) \/ SyncTruncate(p)
         \/ WriteChunk(p) \/ SyncWrite(p) \/ MarkComplete(p)
<1>3. ~(Hook(p) \/ MarkDone(p) \/ Unlink(p) \/ SyncUnlink(p) \/ ClearLocator(p))
  BY GoesTo DEF Hook, MarkDone, Unlink, SyncUnlink, ClearLocator, GateSteps,
    Rewrites
<1>4. ~CleanupStep(p)
  BY GoesTo DEF CleanupStep, FinishFailed, DropMarker, DoneSync, DoneClear,
    GateSteps, Rewrites
<1>5. ~RecoverStep(p)
  <2>1. ~LockRecover(p)
    BY GoesTo DEF LockRecover, GateSteps, Rewrites
  <2>2. QED
    BY GoesTo, <2>1 DEF RecoverStep, Locate, StaleSync, StaleClear,
      GateSteps, Rewrites
<1>6. ~RollbackStep(p)
  BY GoesTo DEF RollbackStep, Validate, RollbackFrom, RbTruncate,
    RbSyncTruncate, RbCopyChunk, RbTimes, RbSync, RbMark, RbHook, RbMarkDone,
    RbUnlink, RbSyncUnlink, RbClear, GateSteps, Rewrites
<1>7. ~(ErrorStep(p) \/ Kill(p) \/ FailsInPlace(p))
  BY GoesTo DEF ErrorStep, StepFails, Fail, MarkerHalfSet, PublishUnseen,
    Kill, FailsInPlace, GateSteps, Rewrites
<1>8. ~Probe(p)
  BY GoesTo DEF Probe, At, GateSteps, Rewrites
<1>9. QED
  BY <1>3, <1>4, <1>5, <1>6, <1>7, <1>8 DEF JournalStep, ReplaceStep

\* The gate: the archive is at the recorded stamp, or something is pending.
LEMMA GateStart ==
  ASSUME OneName, OneOverlay, TypeOK, CommitStart(Us)
  PROVE  Current = Recorded \/ here # NoJournal \/ file.marker.st # "-"
<1>1. Us \in Overlays /\ GateAccepts(RecordedAt)
  BY OurProcess DEF CommitStart
<1>2. SUFFICES ASSUME file.marker.st = "-" PROVE Current = Recorded \/ here # NoJournal
  OBVIOUS
<1>3. LocatePath(file.marker, RecordedAt) = RecordedAt
  BY <1>2 DEF LocatePath
<1>4. CASE JournalAt(RecordedAt)
  BY <1>4, HereNames
<1>5. CASE ~JournalAt(RecordedAt)
  BY <1>1, <1>3, <1>5 DEF GateAccepts
<1>6. QED
  BY <1>4, <1>5

\* The overlay's own steps keep the gate's answer up to the restamp.
LEMMA GateOwn ==
  ASSUME OneName, OneOverlay, Inv, CrashInv, GateInv, rows' = rows, JournalStep(Us),
         StartReplace(Us) => CommitStart(Us)
  PROVE  GateInv'
<1>1. Us \in Procs /\ TypeOK /\ Us \in Overlays /\ CallInv(Us)
  BY OurProcess DEF Inv, CrashInv
<1>2. SUFFICES ASSUME pc'[Us] \in GateSteps PROVE GateInv'
  BY DEF GateInv, GateSteps, Rewrites
<1>3. Recorded' = Recorded
  BY DEF Recorded
<1>4. CASE StartReplace(Us)
  <2>1. pc'[Us] = "lock" /\ Current' = Current /\ here' = here /\ file' = file
    BY <1>1, <1>4, GoesTo DEF StartReplace, Current, here
  <2>2. QED
    BY <1>1, <1>3, <1>4, <2>1, GateStart DEF GateInv, Rewrites
<1>5. CASE LockReplace(Us)
  <2>1. pc'[Us] = "check" /\ Current' = Current /\ here' = here /\ file' = file
        /\ fresh' = fresh /\ pc[Us] = "lock"
    BY <1>1, <1>2, <1>5, GoesTo DEF LockReplace, Current, here, At,
      GateSteps, Rewrites
  <2>2. QED
    BY <1>3, <2>1 DEF GateInv, Rewrites
<1>6. CASE Check(Us)
  <2>1. /\ pc'[Us] = "build" /\ Current' = Current /\ here' = here /\ file' = file
        /\ pc[Us] = "check" /\ fresh[Us] /\ ~PendingRefusal(job[Us].via)
    BY <1>1, <1>2, <1>6, GoesTo DEF Check, Current, here, At, GateSteps,
      Rewrites
  <2>2. file.marker.st = "-"
    BY <2>1 DEF PendingRefusal
  <2>3. QED
    BY <1>3, <2>1, <2>2 DEF GateInv, Rewrites
<1>7. CASE BuildJournal(Us)
  <2>1. pc'[Us] = "markP" /\ here' = here /\ pc[Us] = "build"
    BY <1>1, <1>7, GoesTo DEF BuildJournal, here, At
  <2>2. job'[Us].hdr = [id |-> job[Us].id, pre |-> file.tail, preTime |-> file.mtime,
                        new |-> job[Us].new]
    BY <1>1, <1>7 DEF BuildJournal, TypeOK, Job
  <2>3. PreStamp(job'[Us].hdr) = Current
    BY <2>2 DEF PreStamp, Current, Stamp
  <2>4. QED
    BY <1>3, <2>1, <2>3 DEF GateInv, Rewrites
<1>8. CASE MarkPrepared(Us)
  <2>1. pc'[Us] = "publish" /\ here' = here /\ pc[Us] = "markP"
    BY <1>1, <1>8, GoesTo DEF MarkPrepared, here, At
  <2>2. job'[Us].hdr = job[Us].hdr
    BY <1>1, <1>8 DEF MarkPrepared, TypeOK, Job
  <2>3. QED
    BY <1>3, <2>1, <2>2 DEF GateInv, Rewrites
<1>9. CASE Publish(Us)
  <2>1. pc'[Us] = "syncPub" /\ pc[Us] = "publish" /\ here = NoJournal
    BY <1>1, <1>9, GoesTo, HereNames DEF Publish, At
  <2>2. job'[Us].hdr = job[Us].hdr
    BY <1>1, <1>9 DEF Publish, TypeOK, Job
  <2>3. QED
    BY <1>3, <2>1, <2>2 DEF GateInv, Rewrites
<1>10. CASE SyncPublished(Us) \/ MarkActive(Us) \/ Truncate(Us) \/ SyncTruncate(Us)
              \/ WriteChunk(Us) \/ SyncWrite(Us) \/ MarkComplete(Us)
  <2>1. pc[Us] \in {"syncPub", "markA"} \cup Rewrites
    BY <1>10 DEF SyncPublished, MarkActive, Truncate, SyncTruncate,
      WriteChunk, SyncWrite, MarkComplete, At, Rewrites
  <2>2. job'[Us].hdr = job[Us].hdr
    BY <1>1, <1>10 DEF SyncPublished, MarkActive, Truncate, SyncTruncate,
      WriteChunk, SyncWrite, MarkComplete, TypeOK, Job
  <2>3. pc'[Us] \in {"markA", "hook"} \cup Rewrites
    BY <1>1, <1>10, GoesTo DEF SyncPublished, MarkActive, Truncate,
      SyncTruncate, WriteChunk, SyncWrite, MarkComplete, Rewrites
  <2>4. QED
    BY <1>3, <2>1, <2>2, <2>3 DEF GateInv, Rewrites
<1>11. QED
  BY <1>1, <1>2, <1>4, <1>5, <1>6, <1>7, <1>8, <1>9, <1>10, GateFrom

\* Another process cannot falsify it unseen.
LEMMA GateOthers ==
  ASSUME OneName, OneOverlay, Inv, CrashInv, GateInv, rows' = rows,
         NEW p \in Procs, p # Us, JournalStep(p)
  PROVE  GateInv'
<1>1. Us \in Procs /\ TypeOK /\ DiskInv /\ CallInv(p) /\ LockInv
  BY OurProcess DEF Inv, CrashInv
<1>2. Apart(p)
  BY JournalApart
<1>3. pc'[Us] = pc[Us] /\ job'[Us] = job[Us] /\ Recorded' = Recorded
  BY <1>1, <1>2 DEF Apart, Others, Recorded
<1>4. ASSUME fresh'[Us] PROVE fresh[Us] /\ file' = file
  <2>1. CASE StartReplace(p)
    BY <1>1, <1>4, <2>1 DEF StartReplace, TypeOK
  <2>2. CASE ~StartReplace(p)
    BY <1>1, <1>4, <2>2, FreshFile DEF Changed
  <2>3. QED
    BY <2>1, <2>2
<1>5. here = NoJournal \/ here' # NoJournal \/ file.marker.st # "-"
  BY <1>1, UnlinkMarked
<1>6. CASE pc[p] \in LockedSteps
  <2>1. pc[Us] \notin LockedSteps
    BY <1>1, <1>6 DEF LockInv
  <2>2. pc[Us] \notin GateSteps \ {"lock"}
    BY <2>1, LockedNames DEF GateSteps, Rewrites
  <2>3. QED
    BY <1>3, <1>4, <1>5, <2>2 DEF GateInv, GateSteps, Current, Rewrites
<1>7. CASE pc[p] \notin LockedSteps
  <2>1. file' = file /\ here' = here
    BY <1>2, <1>7 DEF Apart
  <2>2. QED
    BY <1>3, <1>4, <2>1 DEF GateInv, Current
<1>8. QED
  BY <1>6, <1>7

-----------------------------------------------------------------------------
(* The refresh that a commit owes.                                         *)

\* Ok is answered at the end of a call, with the journal gone and its unlink
\* durable.
LEMMA OkGone ==
  ASSUME OneName, Inv, NEW p \in Procs, CallInv(p), PlainStep(p),
         pc[p] # "idle", pc'[p] = "idle", result'[p] = "ok"
  PROVE  here' = NoJournal /\ kept' = NoJournal
<1>1. TypeOK
  BY DEF Inv
<1>2. \/ LockReplace(p) \/ Check(p) \/ ClearLocator(p) \/ FinishFailed(p)
      \/ DropMarker(p) \/ DoneClear(p) \/ LockRecover(p) \/ Locate(p)
      \/ StaleClear(p) \/ RbClear(p) \/ StepFails(p) \/ MarkerHalfSet(p)
      \/ Kill(p)
  BY ReturningSteps DEF PlainStep, ReplaceStep, RollbackStep
<1>3. here' = here /\ kept' = kept
  BY <1>2 DEF LockReplace, Check, ClearLocator, FinishFailed, DropMarker,
    DoneClear, LockRecover, Locate, StaleClear, RbClear, StepFails,
    MarkerHalfSet, Kill, here, kept
<1>4. ASSUME LockReplace(p) \/ LockRecover(p) \/ Check(p) \/ FinishFailed(p) \/ Locate(p)
      PROVE  FALSE
  <2>1. \E r \in Results \ {"ok"} : Return(p, r)
    BY <1>1, <1>4, GoesTo DEF LockReplace, LockRecover, Check, FinishFailed,
      Locate, Unresolved, Results
  <2>2. QED
    BY <1>1, <2>1, ReturnedResult
<1>5. ASSUME DropMarker(p) \/ StaleClear(p) \/ Kill(p) PROVE FALSE
  <2>1. \E r \in Results \ {"ok"} : Return(p, r)
    BY <1>5 DEF DropMarker, StaleClear, Kill, Results
  <2>2. QED
    BY <1>1, <2>1, ReturnedResult
<1>6. ASSUME StepFails(p) PROVE pc[p] \in {"doneClear", "rbClear"}
  <2>1. \E r \in FailureOf(p) \cup {"refused"} : Return(p, r)
    BY <1>1, <1>6, GoesTo DEF StepFails, Fail
  <2>2. "ok" \in FailureOf(p)
    BY <1>1, <2>1, ReturnedResult
  <2>3. pc[p] \in LockedSteps
    BY <1>6 DEF StepFails
  <2>4. QED
    BY <2>2, <2>3 DEF FailureOf, Unresolved, Late, RecoverSteps
<1>7. ASSUME MarkerHalfSet(p) PROVE pc[p] \in {"doneClear", "rbClear"}
  <2>1. pc[p] \notin RunSteps
    BY <1>1, <1>7, GoesTo DEF MarkerHalfSet
  <2>2. Return(p, CASE pc[p] = "dropMarker" -> "rolledBack"
                    [] pc[p] = "doneClear" -> "ok"
                    [] pc[p] = "staleClear" -> "journal"
                    [] pc[p] = "rbClear" -> Applied(p)
                    [] OTHER -> Late(p))
    BY <1>7, <2>1 DEF MarkerHalfSet
  <2>3. "ok" = CASE pc[p] = "dropMarker" -> "rolledBack"
                 [] pc[p] = "doneClear" -> "ok"
                 [] pc[p] = "staleClear" -> "journal"
                 [] pc[p] = "rbClear" -> Applied(p)
                 [] OTHER -> Late(p)
    BY <1>1, <2>2, ReturnedResult
  <2>4. QED
    BY <2>3 DEF Late
<1>8. pc[p] \in {"clear", "doneClear", "rbClear"}
  BY <1>2, <1>4, <1>5, <1>6, <1>7 DEF ClearLocator, DoneClear, RbClear, At
<1>9. here = NoJournal /\ kept = NoJournal
  BY <1>8 DEF CallInv, CompleteInv, CleanupInv, RollbackInv
<1>10. QED
  BY <1>3, <1>9

\* Only a call under way makes a plain step.
LEMMA PlainBusy ==
  ASSUME NEW p \in Procs, PlainStep(p) \/ FailsInPlace(p) \/ ValidateOwned(p)
                            \/ HookRows(p) \/ RbHookRows(p)
  PROVE  pc[p] # "idle"
<1>1. "idle" \notin LockedSteps
  BY DEF LockedSteps, RunSteps, CleanupSteps, RecoverSteps, RollbackSteps
<1>2. ASSUME FailsInPlace(p) PROVE pc[p] # "idle"
  BY <1>1, <1>2 DEF FailsInPlace
<1>3. ASSUME PlainStep(p) PROVE pc[p] # "idle"
  BY <1>1, <1>3 DEF PlainStep, LockReplace, Check, BuildJournal, MarkPrepared,
    Publish, SyncPublished, MarkActive, Truncate, SyncTruncate, WriteChunk,
    SyncWrite, MarkComplete, MarkDone, Unlink, SyncUnlink, ClearLocator,
    CleanupStep, FinishFailed, DropMarker, DoneSync, DoneClear, RecoverStep,
    LockRecover, Locate, StaleSync, StaleClear, RbTruncate, RbSyncTruncate,
    RbCopyChunk, RbTimes, RbSync, RbMark, RbMarkDone, RbUnlink, RbSyncUnlink,
    RbClear, ErrorStep, StepFails, MarkerHalfSet, PublishUnseen, Kill, At
<1>4. QED
  BY <1>2, <1>3 DEF ValidateOwned, Validate, HookRows, Hook, RbHookRows,
    RbHook, At

-----------------------------------------------------------------------------
(* The steps of the composition.                                           *)

\* The steps of a call that leave the rows alone.
QuietStep(p) ==
  \/ CommitStart(p) \/ RecoverStart(p) \/ ValidateOwned(p) \/ HookFails(p)
  \/ Refuse(p) \/ PlainStep(p)

\* What they do to the rows' variables.
LEMMA QuietFrame ==
  ASSUME NEW p \in Procs, QuietStep(p)
  PROVE  /\ rows' = rows /\ hashed' = hashed /\ JournalStep(p)
         /\ alone' => alone
         /\ RowsTypeOK => RowsTypeOK'
         /\ PlainStep(p) \/ UNCHANGED refreshVars
<1>1. rows' = rows /\ hashed' = hashed /\ (PlainStep(p) \/ UNCHANGED refreshVars)
  BY DEF QuietStep, CommitStart, RecoverStart, ValidateOwned, HookFails,
    Refuse, PlainStep, OweRefresh, refreshVars
<1>2. JournalStep(p)
  BY StepsOf DEF QuietStep, JournalStep
<1>3. ASSUME PlainStep(p), RowsTypeOK
      PROVE  (alone' => alone) /\ owed' \in SUBSET Overlays /\ alone' \in BOOLEAN
  BY <1>3 DEF PlainStep, OweRefresh, RowsTypeOK
<1>4. alone' => alone
  BY <1>1 DEF PlainStep, OweRefresh, refreshVars
<1>5. ASSUME RowsTypeOK PROVE RowsTypeOK'
  BY <1>1, <1>3, <1>5 DEF RowsTypeOK, refreshVars
<1>6. QED
  BY <1>1, <1>2, <1>4, <1>5

\* The premises of the composition's step lemmas.
RowsSteady == /\ OneName /\ OneOverlay
              /\ Inv /\ CrashInv /\ Inv' /\ CrashInv' /\ RowsInv

\* The overlay's own quiet steps.
LEMMA OwnQuietInv ==
  ASSUME RowsSteady, QuietStep(Us)
  PROVE  RowsInv'
<1>1. /\ Us \in Procs /\ Us \in Overlays /\ TypeOK /\ OneName /\ OneOverlay /\ Inv
      /\ CrashInv /\ RowsInv /\ CallInv(Us)
  BY OurProcess DEF RowsSteady, Inv, CrashInv
<1>2. /\ rows' = rows /\ hashed' = hashed /\ JournalStep(Us)
      /\ alone' => alone
      /\ RowsTypeOK'
      /\ PlainStep(Us) \/ UNCHANGED refreshVars
  BY <1>1, QuietFrame DEF RowsInv
<1>3. Others(Us)
  BY <1>1, <1>2, JournalApart DEF Apart
<1>4. AloneInv'
  BY <1>1, <1>2, <1>3 DEF RowsInv, AloneInv, Others
<1>5. ViaInv'
  <2>1. CASE CommitStart(Us)
    BY <1>1, <2>1 DEF CommitStart, ViaInv
  <2>2. CASE RecoverStart(Us)
    <3>1. CASE pc'[Us] = "rlock"
      BY <1>1, <2>2, <3>1 DEF RecoverStart, ViaInv
    <3>2. CASE pc'[Us] # "rlock"
      <4>1. job' = job
        BY <1>1, <2>2, <3>2, GoesTo DEF RecoverStart, Probe
      <4>2. QED
        BY <1>1, <4>1 DEF RowsInv, ViaInv
    <3>3. QED
      BY <3>1, <3>2
  <2>3. CASE ~CommitStart(Us) /\ ~RecoverStart(Us)
    <3>1. pc[Us] # "idle"
      BY <1>1, <2>3, StepsOf, PlainBusy DEF QuietStep
    <3>2. ~StartReplace(Us) /\ ~Probe(Us)
      BY <3>1 DEF StartReplace, Probe, At
    <3>3. ViaKept(Us)
      BY <1>1, <1>2, <3>2, StepKeepsVia
    <3>4. QED
      BY <1>1, <3>3 DEF ViaKept, ViaInv, RowsInv
  <2>4. QED
    BY <2>1, <2>2, <2>3
<1>6. OwedInv'
  <2>1. CASE CommitStart(Us) \/ RecoverStart(Us)
    <3>1. Us \notin owed /\ owed' = owed
      BY <1>1, <2>1 DEF CommitStart, RecoverStart, refreshVars
    <3>2. QED
      BY <1>1, <1>2, <3>1 DEF RowsInv, OwedInv
  <2>2. CASE ~CommitStart(Us) /\ ~RecoverStart(Us)
    <3>1. pc[Us] # "idle"
      BY <1>1, <2>2, StepsOf, PlainBusy DEF QuietStep
    <3>2. Us \notin owed /\ hashed[Us] = {}
      BY <1>1, <3>1 DEF RowsInv, OwedInv
    <3>3. ASSUME Us \in owed'
          PROVE  pc'[Us] = "idle" /\ here' = NoJournal /\ kept' = NoJournal
      <4>1. PlainStep(Us)
        BY <1>2, <3>2, <3>3 DEF refreshVars
      <4>2. pc'[Us] = "idle" /\ result'[Us] = "ok"
        BY <3>2, <3>3, <4>1 DEF PlainStep, OweRefresh
      <4>3. QED
        BY <1>1, <3>1, <4>1, <4>2, OkGone
    <3>4. QED
      BY <1>2, <3>2, <3>3 DEF OwedInv
  <2>3. QED
    BY <2>1, <2>2
<1>7. GateInv'
  <2>1. StartReplace(Us) => CommitStart(Us)
    <3>1. ASSUME StartReplace(Us) PROVE CommitStart(Us)
      <4>1. ~RecoverStart(Us)
        BY <1>1, <3>1, GoesTo DEF RecoverStart, StartReplace, Probe, At
      <4>2. QED
        BY <1>1, <3>1, <4>1, StepsOf, PlainBusy DEF QuietStep, StartReplace,
          At
    <3>2. QED
      BY <3>1
  <2>2. QED
    BY <1>1, <1>2, <2>1, GateOwn DEF RowsInv
<1>8. RowsDisk'
  <2>1. SUFFICES ASSUME alone PROVE RowsBeside'
    BY <1>2 DEF RowsDisk
  <2>2. Steady
    BY <1>1, <2>1 DEF Steady, RowsSteady, RowsInv, RowsDisk
  <2>3. QED
    BY <1>1, <1>2, <2>2, StepsOf, OwnRows DEF QuietStep, CommitStart,
      RecoverStart, ValidateOwned
<1>9. QED
  BY <1>2, <1>4, <1>5, <1>6, <1>7, <1>8 DEF RowsInv

\* The hooks of the overlay's calls.
LEMMA OwnHookInv ==
  ASSUME RowsSteady, HookRows(Us) \/ RbHookRows(Us)
  PROVE  RowsInv'
<1>1. /\ Us \in Procs /\ Us \in Overlays /\ TypeOK /\ OneName /\ OneOverlay /\ Inv
      /\ CrashInv /\ RowsInv
  BY OurProcess DEF RowsSteady, Inv
<1>2. owed' = owed /\ hashed' = hashed /\ alone' = alone /\ job' = job
      /\ \E forward : rows' = Restamped(Us, forward)
  BY <1>1 DEF HookRows, RbHookRows, RunHook, refreshVars, Hook, RbHook
<1>3. JournalStep(Us)
  BY <1>1, StepsOf DEF JournalStep
<1>4. Current.n \in Nat /\ Current.time \in Times
  BY <1>1 DEF TypeOK, Inode, Tail, Current, Stamp
<1>5. rows' \in Rows
  <2> DEFINE stamped == [rows EXCEPT !.n = Current.n, !.time = Current.time]
  <2>1. \/ rows' \in {rows, stamped}
        \/ \E g \in {"weak", "pending"} : rows' = [stamped EXCEPT !.digest = g]
    BY <1>2 DEF Restamped
  <2>2. rows \in Rows /\ stamped \in Rows
    BY <1>1, <1>4 DEF RowsInv, RowsTypeOK, Rows
  <2>3. \A g \in {"weak", "pending"} : [stamped EXCEPT !.digest = g] \in Rows
    <3> HIDE DEF stamped
    <3>1. QED
      BY <2>2 DEF Rows, Digest
  <2>4. QED
    BY <2>1, <2>2, <2>3
<1>6. RowsTypeOK'
  BY <1>1, <1>2, <1>5 DEF RowsInv, RowsTypeOK
<1>7. AloneInv' /\ ViaInv'
  <2>1. Others(Us)
    BY <1>1, <1>3, JournalApart DEF Apart
  <2>2. QED
    BY <1>1, <1>2, <2>1 DEF RowsInv, AloneInv, ViaInv, Others
<1>8. OwedInv'
  <2>1. Us \notin owed /\ hashed[Us] = {}
    BY <1>1, PlainBusy DEF RowsInv, OwedInv
  <2>2. QED
    BY <1>2, <2>1 DEF OwedInv
<1>9. GateInv'
  <2>1. pc'[Us] \in {"markD", "rbMarkD", "rbUnlink"}
    BY <1>1, GoesTo DEF HookRows, Hook, RbHookRows, RbHook
  <2>2. QED
    BY <2>1 DEF GateInv, Rewrites
<1>10. RowsDisk'
  <2>1. SUFFICES ASSUME alone PROVE RowsBeside'
    BY <1>2 DEF RowsDisk
  <2>2. Steady /\ RowsTypeOK /\ ViaInv
    BY <1>1, <2>1 DEF Steady, RowsSteady, RowsInv, RowsDisk
  <2>3. QED
    BY <2>2, HookedRows, RbHookedRows
<1>11. QED
  BY <1>6, <1>7, <1>8, <1>9, <1>10 DEF RowsInv

\* The calls of the other processes: while the overlay is alone they do not get
\* past the lock.
LEMMA OtherInv ==
  ASSUME RowsSteady, NEW p \in Procs, p # Us,
         QuietStep(p) \/ HookRows(p) \/ RbHookRows(p)
  PROVE  RowsInv'
<1>1. /\ Us \in Procs /\ TypeOK /\ OneName /\ OneOverlay /\ Inv
      /\ CrashInv /\ RowsInv /\ p \notin Overlays /\ Inv'
  BY OurProcess DEF RowsSteady, Inv
<1>2. /\ rows' = rows /\ hashed' = hashed /\ JournalStep(p)
      /\ alone' => alone
      /\ RowsTypeOK'
      /\ PlainStep(p) \/ UNCHANGED refreshVars
  <2>1. CASE QuietStep(p)
    BY <1>1, <2>1, QuietFrame DEF RowsInv
  <2>2. CASE HookRows(p) \/ RbHookRows(p)
    <3>1. rows' = rows /\ UNCHANGED refreshVars
      BY <1>1, <2>2 DEF HookRows, RbHookRows, RunHook
    <3>2. JournalStep(p)
      BY <2>2, StepsOf DEF JournalStep
    <3>3. QED
      BY <1>1, <3>1, <3>2 DEF refreshVars, RowsInv, RowsTypeOK
  <2>3. QED
    BY <2>1, <2>2
<1>3. Apart(p) /\ Others(p)
  BY <1>1, <1>2, JournalApart DEF Apart
<1>4. pc'[Us] = pc[Us] /\ job'[Us] = job[Us]
  BY <1>1, <1>3 DEF Others
<1>5. Us \in owed' <=> Us \in owed
  BY <1>1, <1>2 DEF PlainStep, OweRefresh, refreshVars
<1>6. ASSUME alone'
      PROVE  pc[p] \notin LockedSteps /\ pc'[p] \notin LockedSteps
  <2>1. pc[p] \notin LockedSteps
    BY <1>1, <1>2, <1>6 DEF RowsInv, AloneInv
  <2>2. CASE PlainStep(p)
    <3>1. lock' # p
      BY <1>1, <1>6, <2>2 DEF PlainStep, OweRefresh
    <3>2. QED
      BY <1>1, <2>1, <3>1 DEF Inv, LockInv
  <2>3. CASE ~PlainStep(p)
    <3>1. CommitStart(p) \/ RecoverStart(p)
      BY <2>1, <2>3, StepsOf, LockedNames DEF QuietStep, FailsInPlace,
        ValidateOwned, Validate, HookRows, Hook, RbHookRows, RbHook, At
    <3>2. pc'[p] \in {"lock", "rlock", "idle"}
      BY <1>1, <3>1, GoesTo DEF CommitStart, StartReplace, RecoverStart,
        Probe, At
    <3>3. QED
      BY <2>1, <3>2 DEF LockedSteps, RunSteps, CleanupSteps, RecoverSteps,
        RollbackSteps
  <2>4. QED
    BY <2>1, <2>2, <2>3
<1>7. ASSUME alone' PROVE file' = file /\ stable' = stable /\ here' = here /\ kept' = kept
  BY <1>3, <1>6, <1>7 DEF Apart
<1>8. AloneInv'
  BY <1>1, <1>2, <1>3, <1>6 DEF RowsInv, AloneInv, Others
<1>9. ViaInv'
  BY <1>1, <1>4 DEF RowsInv, ViaInv
<1>10. OwedInv'
  BY <1>1, <1>2, <1>4, <1>5, <1>7 DEF RowsInv, OwedInv
<1>11. GateInv'
  BY <1>1, <1>2, GateOthers DEF RowsInv
<1>12. RowsDisk'
  BY <1>1, <1>2, <1>4, <1>7, QuietRows DEF RowsInv, RowsDisk
<1>13. QED
  BY <1>2, <1>8, <1>9, <1>10, <1>11, <1>12 DEF RowsInv

\* The refresh: what is stored was hashed from the archive as it is.
LEMMA RefreshInv ==
  ASSUME RowsSteady, NEW p \in Procs,
         HashBase(p) \/ StoreBase(p) \/ RefreshFails(p)
  PROVE  RowsInv'
<1>1. /\ Us \in Procs /\ Us \in Overlays /\ TypeOK /\ OneName /\ OneOverlay /\ RowsInv
      /\ p = Us /\ Us \in owed
  BY OurProcess DEF RowsSteady, Inv, RowsInv, RowsTypeOK, HashBase, StoreBase,
    RefreshFails
<1>2. /\ file' = file /\ stable' = stable /\ entry' = entry /\ dentry' = dentry
      /\ pc' = pc /\ job' = job /\ fresh' = fresh /\ alone' = alone
  BY DEF HashBase, StoreBase, RefreshFails, vars
<1>3. here' = here /\ kept' = kept /\ Current' = Current
  BY <1>2 DEF here, kept, Current
<1>4. pc[Us] = "idle"
  BY <1>1 DEF RowsInv, OwedInv
<1>5. Current.n \in Nat /\ Current.time \in Times /\ file.tail \in Tail
  BY <1>1 DEF TypeOK, Inode, Tail, Current, Stamp
<1>6. ViaInv' /\ AloneInv'
  BY <1>1, <1>2 DEF RowsInv, ViaInv, AloneInv
<1>7. GateInv'
  BY <1>2, <1>4 DEF GateInv, Rewrites
<1>8. CASE HashBase(p)
  <2> DEFINE r == [n |-> Current.n, time |-> Current.time,
                   digest |-> IF rows.digest = "weak" THEN "weak"
                                                      ELSE VersionOf(file.tail)]
  <2>1. /\ rows' = rows /\ owed' = owed
        /\ hashed' = [hashed EXCEPT ![Us] = {r}]
    BY <1>1, <1>8 DEF HashBase
  <2>2. /\ VersionOf(file.tail) \in Contents \cup {Mixed}
        /\ VersionOf(file.tail) \in Contents =>
             Same(file.tail, Full(VersionOf(file.tail)))
    BY DEF VersionOf, Whole
  <2>3. r \in Rows
    BY <1>5, <2>2 DEF Rows, Digest
  <2>4. r.digest \in Contents => Same(file.tail, Full(r.digest))
    BY <2>2
  <2>5. RowsTypeOK'
    BY <1>1, <1>2, <2>1, <2>3 DEF RowsInv, RowsTypeOK
  <2>6. OwedInv'
    <3>1. hashed'[Us] = {r}
      BY <1>1, <2>1 DEF RowsInv, RowsTypeOK
    <3>2. QED
      BY <1>1, <1>2, <1>3, <2>1, <2>4, <3>1 DEF RowsInv, OwedInv
  <2>7. RowsDisk'
    BY <1>1, <1>2, <1>3, <2>1, QuietRows DEF RowsInv, RowsDisk
  <2>8. QED
    BY <1>6, <1>7, <2>5, <2>6, <2>7 DEF RowsInv
<1>9. CASE StoreBase(p) \/ RefreshFails(p)
  <2>1. owed' = owed \ {Us} /\ hashed' = [hashed EXCEPT ![Us] = {}]
    BY <1>1, <1>9 DEF StoreBase, RefreshFails, RefreshEnds
  <2>2. hashed'[Us] = {} /\ hashed' \in [Overlays -> SUBSET Rows]
        /\ owed' \in SUBSET Overlays
    BY <1>1, <2>1 DEF RowsInv, RowsTypeOK
  <2>3. OwedInv'
    BY <2>1, <2>2 DEF OwedInv
  <2>4. CASE RefreshFails(p)
    <3>1. rows' = rows
      BY <2>4 DEF RefreshFails
    <3>2. RowsTypeOK'
      BY <1>1, <1>2, <2>2, <3>1 DEF RowsInv, RowsTypeOK
    <3>3. RowsDisk'
      BY <1>1, <1>2, <1>3, <3>1, QuietRows DEF RowsInv, RowsDisk
    <3>4. QED
      BY <1>6, <1>7, <2>3, <3>2, <3>3 DEF RowsInv
  <2>5. CASE StoreBase(p)
    <3>1. PICK r \in hashed[Us] : Current = Stamp(r.n, r.time) /\ rows' = r
      BY <1>1, <2>5 DEF StoreBase
    <3>2. r \in Rows
      BY <1>1, <3>1 DEF RowsInv, RowsTypeOK
    <3>3. RowsTypeOK'
      BY <1>1, <1>2, <2>2, <3>1, <3>2 DEF RowsInv, RowsTypeOK
    <3>4. ASSUME alone PROVE RowsBeside'
      <4>1. here = NoJournal /\ (rows'.digest \in Contents =>
                                   Same(file.tail, Full(rows'.digest)))
        BY <1>1, <3>1, <3>4 DEF RowsInv, OwedInv
      <4>2. Settled
        BY <1>1, <3>4, <4>1 DEF RowsInv, RowsDisk, RowsBeside, Owned, Durable
      <4>3. SettledDisk'
        BY <1>2, <1>3, <4>2 DEF Settled, SettledDisk, RestDisk, CompleteDisk,
          DoneDisk, Marks, Durable, Level
      <4>4. Recorded' = Current'
        BY <1>3, <3>1 DEF Recorded
      <4>5. Settled'
        BY <1>2, <4>1, <4>2, <4>3, <4>4 DEF Settled, DigestOf
      <4>6. QED
        BY <1>2, <1>4, <4>5 DEF RowsBeside, DuringInv, Rewrites, Restoring
    <3>5. QED
      BY <1>2, <1>6, <1>7, <2>3, <3>3, <3>4 DEF RowsInv, RowsDisk
  <2>6. QED
    BY <1>9, <2>4, <2>5
<1>10. QED
  BY <1>8, <1>9

\* A power loss ends every call and the refresh.
LEMMA LossInv ==
  ASSUME RowsSteady, PowerLossRows
  PROVE  RowsInv'
<1>1. /\ Us \in Procs /\ Us \in Overlays /\ TypeOK /\ OneName /\ OneOverlay /\ RowsInv
      /\ PowerLoss /\ rows' = rows /\ alone' = alone
  BY OurProcess DEF RowsSteady, Inv, PowerLossRows
<1>2. \A q \in Procs : pc'[q] = "idle" /\ job'[q] = NoJob
  BY <1>1 DEF PowerLoss
<1>3. owed' = {} /\ hashed' = [p \in Overlays |-> {}]
  BY DEF PowerLossRows
<1>4. RowsTypeOK'
  BY <1>1, <1>3 DEF RowsInv, RowsTypeOK
<1>5. ViaInv' /\ OwedInv' /\ GateInv'
  BY <1>1, <1>2, <1>3 DEF ViaInv, OwedInv, GateInv, NoJob, Rewrites
<1>6. AloneInv'
  BY <1>2 DEF AloneInv, LockedSteps, RunSteps, CleanupSteps, RecoverSteps,
    RollbackSteps
<1>7. RowsDisk'
  BY <1>1, LossRows DEF RowsInv, RowsDisk
<1>8. QED
  BY <1>4, <1>5, <1>6, <1>7 DEF RowsInv

\* Directories are renamed, or nothing happens.
LEMMA StillInv ==
  ASSUME RowsSteady, RenameDirRows \/ UNCHANGED rowsVars
  PROVE  RowsInv'
<1>1. /\ file' = file /\ stable' = stable /\ entry' = entry /\ dentry' = dentry
      /\ pc' = pc /\ job' = job /\ fresh' = fresh /\ rows' = rows
      /\ owed' = owed /\ hashed' = hashed /\ alone' = alone
  BY DEF RenameDirRows, RenameDir, rowsVars, vars, refreshVars
<1>2. here' = here /\ kept' = kept
  BY <1>1 DEF here, kept
<1>3. RowsInv
  BY DEF RowsSteady
<1>4. RowsTypeOK' /\ ViaInv' /\ AloneInv' /\ OwedInv' /\ GateInv'
  BY <1>1, <1>2, <1>3 DEF RowsInv, RowsTypeOK, ViaInv, AloneInv, OwedInv,
    GateInv, Current, Recorded
<1>5. RowsDisk'
  BY <1>1, <1>2, <1>3, QuietRows DEF RowsInv, RowsDisk
<1>6. QED
  BY <1>4, <1>5 DEF RowsInv

\* Every step of the composition.
LEMMA RowsStep ==
  ASSUME OneName, OneOverlay, Inv, CrashInv, RowsInv, [RowsNext]_rowsVars
  PROVE  Inv' /\ CrashInv' /\ RowsInv'
<1>1. RowsSteady
  BY JournalHolds DEF RowsSteady
<1>2. ASSUME NEW p \in Procs,
             \/ CommitStart(p) \/ RecoverStart(p) \/ ValidateOwned(p)
             \/ HookRows(p) \/ RbHookRows(p) \/ HookFails(p)
             \/ Refuse(p) \/ PlainStep(p)
      PROVE  RowsInv'
  BY <1>1, <1>2, OwnQuietInv, OwnHookInv, OtherInv DEF QuietStep
<1>3. RowsInv'
  BY <1>1, <1>2, RefreshInv, LossInv, StillInv DEF RowsNext
<1>4. QED
  BY <1>1, <1>3 DEF RowsSteady

\* The overlay starts on an archive its rows describe.
LEMMA RowsStart ==
  ASSUME OneName, OneOverlay, RowsInit
  PROVE  Inv /\ CrashInv /\ RowsInv
<1>1. Init /\ Inv /\ CrashInv
  BY InitInv, CrashInit DEF RowsInit
<1>2. /\ Us \in Procs /\ Us \in Overlays /\ TypeOK
  BY <1>1, OurProcess DEF Inv
<1>3. PICK g \in {Base, "weak"} : rows = [n |-> file.tail.n, time |-> file.mtime, digest |-> g]
  BY DEF RowsInit
<1>4. RowsTypeOK
  BY <1>2, <1>3 DEF RowsInit, RowsTypeOK, Rows, Digest, TypeOK, Inode, Tail
<1>5. ViaInv /\ OwedInv /\ GateInv /\ DuringInv
  BY <1>1, <1>2 DEF RowsInit, Init, ViaInv, OwedInv, GateInv, DuringInv,
    NoJob, Rewrites, Restoring
<1>6. AloneInv
  BY <1>1 DEF Init, AloneInv, LockedSteps, RunSteps, CleanupSteps,
    RecoverSteps, RollbackSteps
<1>7. Settled
  <2>1. file.tail = Full(Base) /\ stable = file /\ file.marker.st = "-"
    BY <1>1 DEF Init, NoMarker
  <2>2. here = NoJournal /\ kept = NoJournal
    BY <1>1, OneDir DEF Init, here, kept
  <2>3. RestDisk
    BY <2>1, <2>2, FullWhole DEF RestDisk, Level, Marks
  <2>4. Recorded = Current
    BY <1>3 DEF Recorded, Current, Stamp
  <2>5. DigestOf(file.tail)
    BY <1>3, <2>1, FullType, SameRefl DEF DigestOf
  <2>6. QED
    BY <2>1, <2>3, <2>4, <2>5 DEF Settled, SettledDisk
<1>8. QED
  BY <1>1, <1>4, <1>5, <1>6, <1>7 DEF RowsInv, RowsDisk, RowsBeside

-----------------------------------------------------------------------------
(* The theorems.                                                           *)

\* The rows beside the disk, for every number of processes, faults, contents.
THEOREM RowsInvariance ==
  ASSUME OneName, OneOverlay
  PROVE  RowsSpec => [](Inv /\ CrashInv /\ RowsInv)
<1>1. RowsInit => Inv /\ CrashInv /\ RowsInv
  BY RowsStart
<1>2. Inv /\ CrashInv /\ RowsInv /\ [RowsNext]_rowsVars
        => (Inv /\ CrashInv /\ RowsInv)'
  BY RowsStep
<1>3. QED
  BY <1>1, <1>2, PTL DEF RowsSpec

\* The journal's own promises survive the composition, whose failing hooks and
\* refusals are no steps of Spec: no replacement overwrites bytes its plan did
\* not see, and recovery restores what a power loss leaves.
THEOREM JournalUnderRows ==
  ASSUME OneName, OneOverlay
  PROVE  RowsSpec => [](NoLostUpdate /\ PowerLossRecoverable)
<1>1. Inv /\ CrashInv /\ RowsInv => NoLostUpdate /\ PowerLossRecoverable
  BY InvNoLostUpdate, Recovers DEF Inv, CrashInv
<1>2. QED
  BY <1>1, RowsInvariance, PTL

\* With one directory, the journal left is one of two.
LEMMA LeftHere ==
  ASSUME OneName, NEW lost \in SUBSET Dirs, NEW d \in Dirs
  PROVE  Left(lost)[d] \in {here, kept}
BY OneDir DEF Left, here, kept

\* On settled rows, whatever a power loss leaves is at the recorded stamp.
LEMMA SettledImages ==
  ASSUME TypeOK, Settled, NEW t \in TailImages(stable.tail, file.tail),
         NEW i \in {stable, file}
  PROVE  t = file.tail /\ Recorded = Stamp(t.n, i.mtime)
<1>1. stable.tail = file.tail /\ stable.mtime = file.mtime /\ Recorded = Current
  BY DEF Settled, SettledDisk, RestDisk, CompleteDisk, DoneDisk, Level
<1>2. t = file.tail
  BY <1>1, LevelImages DEF TypeOK, Inode
<1>3. QED
  BY <1>1, <1>2 DEF Current

\* With no journal left, the rows describe the archive.
THEOREM RowsFollowArchiveHolds ==
  ASSUME OneName, OneOverlay
  PROVE  RowsSpec => []RowsFollowArchive
<1>1. Inv /\ CrashInv /\ RowsInv => RowsFollowArchive
  <2>1. SUFFICES ASSUME Inv, RowsInv, alone,
                        NEW t \in TailImages(stable.tail, file.tail),
                        NEW i \in {stable, file}, NEW lost \in SUBSET Dirs,
                        \A d \in Dirs : Left(lost)[d] = NoJournal
                 PROVE  /\ Recorded = Stamp(t.n, i.mtime)
                        /\ rows.digest \in Contents => Same(t, Full(rows.digest))
    BY DEF RowsFollowArchive
  <2>2. here = NoJournal \/ kept = NoJournal
    BY <2>1, LeftHere, OneDir
  <2>3. Settled
    BY <2>1, <2>2 DEF RowsInv, RowsDisk, RowsBeside, Owned, Durable
  <2>4. QED
    BY <2>1, <2>3, SettledImages DEF Inv, Settled, DigestOf
<1>2. QED
  BY <1>1, RowsInvariance, PTL

\* An overlay accepts the journal of its own crash.
THEOREM OwnJournalAgreesHolds ==
  ASSUME OneName, OneOverlay
  PROVE  RowsSpec => []OwnJournalAgrees
<1>1. Inv /\ CrashInv /\ RowsInv => OwnJournalAgrees
  <2>1. SUFFICES ASSUME Inv, RowsInv, alone,
                        NEW t \in TailImages(stable.tail, file.tail),
                        NEW i \in {stable, file}, NEW k \in {stable, file},
                        NEW lost \in SUBSET Dirs, NEW d \in Dirs,
                        Left(lost)[d] # NoJournal
                 PROVE  JournalAgrees(Stamp(t.n, i.mtime), Left(lost)[d],
                                      Complete(k.marker))
    BY DEF OwnJournalAgrees
  <2>2. PICK j \in {here, kept} : j # NoJournal /\ j = Left(lost)[d]
    BY <2>1, LeftHere
  <2>3. CASE Owned
    BY <2>2, <2>3 DEF Owned, Durable, JournalAgrees
  <2>4. CASE Settled
    <3>1. t = file.tail /\ Recorded = Stamp(t.n, i.mtime)
      BY <2>1, <2>4, SettledImages DEF Inv
    <3>2. CASE RestDisk
      <4>1. ~Complete(k.marker) /\ t.n = j.pre.n
        BY <2>1, <2>2, <3>1, <3>2 DEF RestDisk, Marks, Complete, Same
      <4>2. QED
        BY <2>2, <3>1, <4>1 DEF JournalAgrees, Stamp
    <3>3. CASE (CompleteDisk /\ Marks({"C", "D"})) \/ DoneDisk
      <4>1. Complete(k.marker) /\ t.n = j.new.n
        BY <2>1, <2>2, <3>1, <3>3 DEF CompleteDisk, DoneDisk, Durable, Marks,
          Complete, Same
      <4>2. QED
        BY <2>2, <3>1, <4>1 DEF JournalAgrees, Stamp
    <3>4. QED
      BY <2>4, <3>2, <3>3 DEF Settled, SettledDisk
  <2>5. QED
    BY <2>1, <2>3, <2>4 DEF RowsInv, RowsDisk, RowsBeside
<1>2. QED
  BY <1>1, RowsInvariance, PTL

\* A commit overwrites only an archive at the stamp its rows record.
THEOREM CommitsOnRecordedHolds ==
  ASSUME OneName, OneOverlay
  PROVE  RowsSpec => []CommitsOnRecorded
<1>1. Inv /\ CrashInv /\ RowsInv => CommitsOnRecorded
  BY OurProcess DEF RowsInv, GateInv, CommitsOnRecorded, Rewrites
<1>2. QED
  BY <1>1, RowsInvariance, PTL
=============================================================================
