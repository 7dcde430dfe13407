------------------------ MODULE CommitJournalProofs ------------------------
(***************************************************************************)
(* Proofs about CommitJournal, for every set of processes, versions and    *)
(* every bound: the types of the state, that no replacement overwrites     *)
(* bytes its plan did not see (NoLostUpdate), that a power loss at any     *)
(* moment leaves something recovery restores (PowerLossRecoverable), that  *)
(* the answers of replace and recover hold on disk (AnswersHold), and that *)
(* the version on disk changes only in a single step (Atomic).             *)
(*                                                                         *)
(* NoLostUpdate is not inductive: it rests on the flock (LockInv), on the  *)
(* stamp that still holds when the journal is built (PlanInv), on the      *)
(* identity of journals (IdInv) and on what the journals on disk and in    *)
(* the calls record (JournalInv).                                          *)
(*                                                                         *)
(* The other three rest on CrashInv, which says which of four states the   *)
(* disk is in, and ties each control point of a call to the state it       *)
(* counts on.  They are about an archive with one name (OneName), as in    *)
(* the run CrashAndRace.  A second hard link in another directory hides a  *)
(* published journal from a process that came by the first one: the        *)
(* README, disagreement 4.                                                 *)
(***************************************************************************)
EXTENDS CommitJournal, TLAPS

\* Which call a process is in, and its replacement's number: a replacement's
\* number is its own.
ReplaceSteps == {"lock", "check"} \cup RunSteps \cup CleanupSteps

IdInv ==
  /\ \A p \in Procs :
       /\ pc[p] \in ReplaceSteps => job[p].op = "replace"
       /\ pc[p] \in {"rlock"} \cup RecoverSteps => job[p].op = "recover"
       /\ job[p].op = "replace" => job[p].id \in 1 .. attempts
       /\ pc[p] \in RollbackSteps \ {"validate"} => job[p].hdr # NoJournal
  /\ \A p, q \in Procs :
       p # q /\ job[p].op = "replace" /\ job[q].op = "replace"
       => job[p].id # job[q].id

\* Who is past the flock holds it: no two processes are.
LockInv == \A p \in Procs : pc[p] \in LockedSteps => lock = p

\* A stamp that still agrees means the bytes of the plan.
PlanInv ==
  \A p \in Procs :
    /\ pc[p] \in {"lock", "check"} /\ fresh[p] => file.tail = job[p].base
    /\ pc[p] = "build" => file.tail = job[p].base

\* A journal of a replacement under way records the bytes of its plan.
Records(j, p) ==
  job[p].op = "replace" /\ j # NoJournal /\ j.id = job[p].id
    => j.pre = job[p].base

Old(j) == j # NoJournal => j.id <= attempts

JournalInv ==
  /\ \A p \in Procs : job[p].op = "replace" /\ job[p].hdr # NoJournal
                      => job[p].hdr.id = job[p].id
  /\ \A p \in Procs : Records(job[p].hdr, p)
  /\ \A d \in Dirs : Old(entry[d]) /\ Old(dentry[d])
  /\ \A d \in Dirs, p \in Procs : Records(entry[d], p) /\ Records(dentry[d], p)

Inv == TypeOK /\ IdInv /\ LockInv /\ PlanInv /\ JournalInv

-----------------------------------------------------------------------------
USE NamesAssumption, ContentAssumption, BoundAssumption, JournalAssumption

\* The idle local state is well typed.
LEMMA NoJobType == NoJob \in Job
BY DEF NoJob, Job, Full, Tail

\* The initial states are well typed.
LEMMA InitType == Init => TypeOK
BY NoJobType
DEF Init, TypeOK, Inode, Marker, NoMarker, Phases, Full, Tail, Steps, Results

-----------------------------------------------------------------------------
(* Types of the effects the actions share.                                 *)

\* Every control point named in an action is one of Steps.
LEMMA StepNames ==
  /\ {"idle", "lock", "rlock", "check", "build", "markP", "publish", "syncPub",
      "markA", "trunc", "truncSync", "write", "writeSync", "markC", "hook",
      "markD", "unlink", "unlinkSync", "clear"} \subseteq Steps
  /\ {"failed", "dropMarker", "doneSync", "doneClear", "locate", "staleSync",
      "staleClear", "validate", "rbTrunc", "rbTruncSync", "rbCopy", "rbTimes",
      "rbSync", "rbMark", "rbHook", "rbMarkD", "rbUnlink", "rbUnlinkSync",
      "rbClear"} \subseteq Steps
BY DEF Steps, LockedSteps, RunSteps, CleanupSteps, RecoverSteps, RollbackSteps

\* Return and Continue keep the types of what they assign.
LEMMA ReturnType ==
  ASSUME TypeOK, NEW p \in Procs, NEW r \in Results, Return(p, r)
  PROVE  /\ pc' \in [Procs -> Steps] /\ job' \in [Procs -> Job]
         /\ result' \in [Procs -> Results] /\ lock' \in Procs \cup {NoProc}
BY NoJobType DEF TypeOK, Return, Steps

LEMMA ContinueType ==
  ASSUME TypeOK, NEW p \in Procs, NEW s \in Steps, Continue(p, s)
  PROVE  /\ pc' \in [Procs -> Steps]
         /\ result' \in [Procs -> Results] /\ lock' \in Procs \cup {NoProc}
BY DEF TypeOK, Continue, Goto

\* Writes of the locator, the length and the bytes give an inode.
LEMMA MarkedType ==
  ASSUME TypeOK, NEW p \in Procs, NEW st \in Phases
  PROVE  Marked(p, st) \in Inode
BY DEF TypeOK, Marked, Inode, Marker, Job

LEMMA UnmarkedType ==
  ASSUME TypeOK
  PROVE  [file EXCEPT !.marker = NoMarker] \in Inode
BY DEF TypeOK, Inode, Marker, NoMarker, Phases

LEMMA WriteType ==
  ASSUME TypeOK, NEW f \in Inode, WriteInode(f) \/ WriteThrough(f)
  PROVE  file' \in Inode /\ stable' \in Inode /\ fresh' \in [Procs -> BOOLEAN]
BY DEF TypeOK, WriteInode, WriteThrough, Changed

LEMMA ClearType ==
  ASSUME TypeOK, ClearMarker
  PROVE  file' \in Inode /\ stable' \in Inode /\ fresh' \in [Procs -> BOOLEAN]
BY UnmarkedType, WriteType DEF ClearMarker, TypeOK

LEMMA TruncatedType ==
  ASSUME TypeOK, NEW src \in Contents \cup {Mixed}, NEW t \in Times
  PROVE  [Truncated(src) EXCEPT !.mtime = t] \in Inode
BY DEF TypeOK, Truncated, Inode, Tail

LEMMA AppendedType ==
  ASSUME TypeOK, NEW t \in Times
  PROVE  [Appended EXCEPT !.mtime = t] \in Inode
<1>1. [src |-> file.tail.src, n |-> file.tail.n + 1] \in Tail
  <2>1. file.tail \in Tail
    BY DEF TypeOK, Inode
  <2>2. QED
    BY <2>1 DEF Tail
<1>2. QED
  BY <1>1 DEF TypeOK, Appended, Inode

\* Directory syncs and unlinks keep the types of the journals.
LEMMA SyncParentType ==
  ASSUME TypeOK, NEW path, SyncParent(path) \/ Remove(path)
  PROVE  /\ entry' \in [Dirs -> Journal \cup {NoJournal}]
         /\ dentry' \in [Dirs -> Journal \cup {NoJournal}]
BY DEF TypeOK, SyncParent, Remove

\* The parts of the local state and of the inode.
LEMMA HdrType ==
  ASSUME TypeOK, NEW p \in Procs
  PROVE  /\ job[p].hdr \in Journal \cup {NoJournal}
         /\ job[p].new \in Tail /\ job[p].base \in Tail
         /\ file.tail \in Tail /\ stable.tail \in Tail
         /\ file.mtime \in Times /\ file.marker \in Marker
BY DEF TypeOK, Job, Inode

\* Updates of the local state of a call stay in Job.
LEMMA JobType ==
  ASSUME TypeOK, NEW p \in Procs, NEW r \in Job, job' = [job EXCEPT ![p] = r]
  PROVE  job' \in [Procs -> Job]
BY DEF TypeOK

LEMMA JobUpdate ==
  ASSUME NEW r \in Job
  PROVE  /\ [r EXCEPT !.prepared = TRUE] \in Job
         /\ [r EXCEPT !.published = TRUE] \in Job
         /\ [r EXCEPT !.completed = TRUE] \in Job
         /\ [r EXCEPT !.unlinked = TRUE] \in Job
         /\ [r EXCEPT !.synced = TRUE] \in Job
         /\ \A b \in BOOLEAN : [r EXCEPT !.complete = b] \in Job
         /\ \A h \in Journal : [r EXCEPT !.hdr = h] \in Job
         /\ \A x \in Paths \cup {NoPath} : [r EXCEPT !.jpath = x] \in Job
         /\ \A x \in Paths \cup {NoPath}, b \in BOOLEAN :
              [r EXCEPT !.jpath = x, !.complete = b] \in Job
<1>1. [r EXCEPT !.prepared = TRUE] \in Job
  BY DEF Job
<1>2. [r EXCEPT !.published = TRUE] \in Job
  BY DEF Job
<1>3. [r EXCEPT !.completed = TRUE] \in Job
  BY DEF Job
<1>4. [r EXCEPT !.unlinked = TRUE] \in Job
  BY DEF Job
<1>5. [r EXCEPT !.synced = TRUE] \in Job
  BY DEF Job
<1>6. ASSUME NEW b \in BOOLEAN PROVE [r EXCEPT !.complete = b] \in Job
  BY DEF Job
<1>7. ASSUME NEW h \in Journal PROVE [r EXCEPT !.hdr = h] \in Job
  BY DEF Job
<1>8. ASSUME NEW x \in Paths \cup {NoPath} PROVE [r EXCEPT !.jpath = x] \in Job
  BY DEF Job
<1>9. ASSUME NEW x \in Paths \cup {NoPath}, NEW b \in BOOLEAN
     PROVE  [r EXCEPT !.jpath = x, !.complete = b] \in Job
  BY DEF Job
<1>10. QED
  BY <1>1, <1>2, <1>3, <1>4, <1>5, <1>6, <1>7, <1>8, <1>9

\* What a power loss leaves of a tail is a tail.
LEMMA ImageType ==
  ASSUME NEW s \in Tail, NEW f \in Tail
  PROVE  TailImages(s, f) \subseteq Tail
BY DEF TailImages, Tail

-----------------------------------------------------------------------------
(* Every step keeps the types.                                             *)

\* The step of p fails, with nothing done.
FailsInPlace(p) ==
  /\ pc[p] \in LockedSteps
  /\ Fail(p)
  /\ UNCHANGED <<file, stable, entry, dentry, pathOf, fresh, attempts>>

\* Whatever it reports is a result, and cleanup is a step.
LEMMA FailType ==
  ASSUME TypeOK, NEW p \in Procs, FailsInPlace(p), faults' \in 0 .. MaxFaults
  PROVE  TypeOK'
BY StepNames, ReturnType, ContinueType
DEF TypeOK, FailsInPlace, Fail, FailureOf, Unresolved, Late, Applied, Results

\* No step leaves the types.  The bound on journal numbers needs IdInv.
LEMMA TypeStep ==
  ASSUME TypeOK, IdInv, Next
  PROVE  TypeOK'
<1>1. ASSUME NEW p \in Procs, LockReplace(p) PROVE TypeOK'
  BY StepNames, <1>1, ReturnType DEF TypeOK, LockReplace, Goto, Results
<1>2. ASSUME NEW p \in Procs, Check(p) PROVE TypeOK'
  BY StepNames, <1>2, ReturnType, ContinueType DEF TypeOK, Check, Results
<1>3. ASSUME NEW p \in Procs, MarkActive(p) PROVE TypeOK'
  BY StepNames, <1>3, ContinueType, MarkedType, WriteType
  DEF TypeOK, MarkActive, Phases
<1>4. ASSUME NEW p \in Procs, MarkDone(p) PROVE TypeOK'
  BY StepNames, <1>4, ContinueType, MarkedType, WriteType
  DEF TypeOK, MarkDone, Phases
<1>5. ASSUME NEW p \in Procs, RbMark(p) PROVE TypeOK'
  BY StepNames, <1>5, ContinueType, MarkedType, WriteType
  DEF TypeOK, RbMark, Phases
<1>6. ASSUME NEW p \in Procs, RbMarkDone(p) PROVE TypeOK'
  BY StepNames, <1>6, ContinueType, MarkedType, WriteType
  DEF TypeOK, RbMarkDone, Phases
<1>7. ASSUME NEW p \in Procs, MarkPrepared(p) PROVE TypeOK'
  <2>1. [job[p] EXCEPT !.prepared = TRUE] \in Job
    BY JobUpdate DEF TypeOK
  <2>2. job' \in [Procs -> Job]
    BY <1>7, <2>1, JobType DEF MarkPrepared
  <2>3. QED
    BY StepNames, <1>7, <2>2, ContinueType, MarkedType, WriteType
    DEF TypeOK, MarkPrepared, Phases
<1>8. ASSUME NEW p \in Procs, MarkComplete(p) PROVE TypeOK'
  <2>1. [job[p] EXCEPT !.completed = TRUE] \in Job
    BY JobUpdate DEF TypeOK
  <2>2. job' \in [Procs -> Job]
    BY <1>8, <2>1, JobType DEF MarkComplete
  <2>3. QED
    BY StepNames, <1>8, <2>2, ContinueType, MarkedType, WriteType
    DEF TypeOK, MarkComplete, Phases
<1>9. ASSUME NEW p \in Procs, Publish(p) PROVE TypeOK'
  <2>1. [job[p] EXCEPT !.published = TRUE] \in Job
    BY JobUpdate DEF TypeOK
  <2>2. job' \in [Procs -> Job]
    BY <1>9, <2>1, JobType DEF Publish
  <2>3. QED
    BY StepNames, <1>9, <2>2, ContinueType, HdrType DEF TypeOK, Publish
<1>10. ASSUME NEW p \in Procs, Unlink(p) PROVE TypeOK'
  <2>1. [job[p] EXCEPT !.unlinked = TRUE] \in Job
    BY JobUpdate DEF TypeOK
  <2>2. job' \in [Procs -> Job]
    BY <1>10, <2>1, JobType DEF Unlink
  <2>3. QED
    BY StepNames, <1>10, <2>2, ContinueType, SyncParentType DEF TypeOK, Unlink
<1>11. ASSUME NEW p \in Procs, SyncUnlink(p) PROVE TypeOK'
  <2>1. [job[p] EXCEPT !.synced = TRUE] \in Job
    BY JobUpdate DEF TypeOK
  <2>2. job' \in [Procs -> Job]
    BY <1>11, <2>1, JobType DEF SyncUnlink
  <2>3. QED
    BY StepNames, <1>11, <2>2, ContinueType, SyncParentType
    DEF TypeOK, SyncUnlink
<1>12. ASSUME NEW p \in Procs, SyncPublished(p) PROVE TypeOK'
  BY StepNames, <1>12, ContinueType, SyncParentType DEF TypeOK, SyncPublished
<1>13. ASSUME NEW p \in Procs, DoneSync(p) PROVE TypeOK'
  BY StepNames, <1>13, ContinueType, SyncParentType DEF TypeOK, DoneSync
<1>14. ASSUME NEW p \in Procs, RbUnlink(p) PROVE TypeOK'
  BY StepNames, <1>14, ContinueType, SyncParentType DEF TypeOK, RbUnlink
<1>15. ASSUME NEW p \in Procs, RbSyncUnlink(p) PROVE TypeOK'
  BY StepNames, <1>15, ContinueType, SyncParentType DEF TypeOK, RbSyncUnlink
<1>16. ASSUME NEW p \in Procs, Truncate(p) PROVE TypeOK'
  BY StepNames, <1>16, ContinueType, HdrType, TruncatedType, WriteType
  DEF TypeOK, Truncate, Tail
<1>17. ASSUME NEW p \in Procs, SyncTruncate(p) PROVE TypeOK'
  BY StepNames, <1>17, ContinueType DEF TypeOK, SyncTruncate, SyncInode
<1>18. ASSUME NEW p \in Procs, SyncWrite(p) PROVE TypeOK'
  BY StepNames, <1>18, ContinueType DEF TypeOK, SyncWrite, SyncInode
<1>19. ASSUME NEW p \in Procs, RbSyncTruncate(p) PROVE TypeOK'
  BY StepNames, <1>19, ContinueType DEF TypeOK, RbSyncTruncate, SyncInode
<1>20. ASSUME NEW p \in Procs, RbSync(p) PROVE TypeOK'
  BY StepNames, <1>20, ContinueType DEF TypeOK, RbSync, SyncInode
<1>21. ASSUME NEW p \in Procs, WriteChunk(p) PROVE TypeOK'
  BY StepNames, <1>21, ContinueType, AppendedType, WriteType
  DEF TypeOK, WriteChunk
<1>22. ASSUME NEW p \in Procs, Hook(p) PROVE TypeOK'
  BY StepNames, <1>22, ContinueType DEF TypeOK, Hook
<1>23. ASSUME NEW p \in Procs, ClearLocator(p) PROVE TypeOK'
  BY <1>23, ReturnType, ClearType DEF TypeOK, ClearLocator, Results
<1>24. ASSUME NEW p \in Procs, DropMarker(p) PROVE TypeOK'
  BY <1>24, ReturnType, ClearType DEF TypeOK, DropMarker, Results
<1>25. ASSUME NEW p \in Procs, DoneClear(p) PROVE TypeOK'
  BY <1>25, ReturnType, ClearType DEF TypeOK, DoneClear, Results
<1>26. ASSUME NEW p \in Procs, LockRecover(p) PROVE TypeOK'
  BY StepNames, <1>26, ReturnType DEF TypeOK, LockRecover, Goto, Results
<1>27. ASSUME NEW p \in Procs, StaleSync(p) PROVE TypeOK'
  BY StepNames, <1>27, ContinueType, SyncParentType DEF TypeOK, StaleSync
<1>28. ASSUME NEW p \in Procs, StaleClear(p) PROVE TypeOK'
  BY <1>28, ReturnType, ClearType DEF TypeOK, StaleClear, Results
<1>29. ASSUME NEW p \in Procs, RbCopyChunk(p) PROVE TypeOK'
  BY StepNames, <1>29, ContinueType, AppendedType, WriteType
  DEF TypeOK, RbCopyChunk
<1>30. ASSUME NEW p \in Procs, RbHook(p) PROVE TypeOK'
  BY StepNames, <1>30, ContinueType DEF TypeOK, RbHook
<1>31. ASSUME NEW p \in Procs, RbClear(p) PROVE TypeOK'
  BY <1>31, ReturnType, ClearType DEF TypeOK, RbClear, Applied, Results
<1>32. ASSUME NEW p \in Procs, StepFails(p) PROVE TypeOK'
  BY <1>32, FailType DEF TypeOK, StepFails, FailsInPlace
<1>33. ASSUME NEW p \in Procs, MarkerHalfSet(p) PROVE TypeOK'
  BY StepNames, <1>33, ReturnType, ContinueType, MarkedType, UnmarkedType,
    WriteType
  DEF TypeOK, MarkerHalfSet, HalfMarker, Late, Applied, Phases, Results
<1>34. ASSUME NEW p \in Procs, PublishUnseen(p) PROVE TypeOK'
  BY StepNames, <1>34, ContinueType, HdrType DEF TypeOK, PublishUnseen
<1>35. ASSUME NEW p \in Procs, Kill(p) PROVE TypeOK'
  BY <1>35, ReturnType DEF TypeOK, Kill, Results
<1>36. ASSUME NEW p \in Procs, StartReplace(p) PROVE TypeOK'
  <2>1. PICK d \in Dirs, c \in Contents :
          job' = [job EXCEPT ![p] = [NoJob EXCEPT
                 !.op = "replace", !.via = pathOf[d], !.jpath = pathOf[d],
                 !.base = file.tail, !.new = Full(c), !.id = attempts + 1]]
    BY <1>36 DEF StartReplace
  <2>2. [NoJob EXCEPT
           !.op = "replace", !.via = pathOf[d], !.jpath = pathOf[d],
           !.base = file.tail, !.new = Full(c), !.id = attempts + 1] \in Job
    <3>1. pathOf[d] \in Paths /\ Full(c) \in Tail /\ attempts + 1 \in Nat
      BY DEF TypeOK, Full, Tail
    <3>2. QED
      BY <3>1, NoJobType, HdrType DEF Job
  <2>3. job' \in [Procs -> Job]
    BY <2>1, <2>2 DEF TypeOK
  <2>4. attempts' \in 0 .. MaxAttempts
    BY <1>36 DEF StartReplace, TypeOK
  <2>5. QED
    BY StepNames, <1>36, <2>3, <2>4 DEF TypeOK, StartReplace, Goto
<1>37. ASSUME NEW p \in Procs, BuildJournal(p) PROVE TypeOK'
  <2> DEFINE j == [id |-> job[p].id, pre |-> file.tail,
                   preTime |-> file.mtime, new |-> job[p].new]
  <2>1. job[p].id \in 1 .. MaxAttempts
    BY <1>37 DEF BuildJournal, At, IdInv, ReplaceSteps, RunSteps, TypeOK
  <2>2. j \in Journal
    BY <2>1, HdrType DEF Journal
  <2>3. [job[p] EXCEPT !.hdr = j] \in Job
    BY <2>2, JobUpdate DEF TypeOK
  <2>4. job' \in [Procs -> Job]
    BY <1>37, <2>3 DEF BuildJournal, TypeOK
  <2>5. QED
    BY StepNames, <1>37, <2>4, ContinueType DEF TypeOK, BuildJournal
<1>38. ASSUME NEW p \in Procs, FinishFailed(p) PROVE TypeOK'
  <2>1. AttemptComplete(p) \in BOOLEAN /\ Unresolved(p) \in Results
    BY DEF AttemptComplete, Unresolved, Results, TypeOK, Job, RollsForward
  <2>2. [job[p] EXCEPT !.complete = AttemptComplete(p)] \in Job
    BY <2>1, JobUpdate DEF TypeOK
  <2>3. job' \in [Procs -> Job]
    BY <1>38, <2>1, <2>2, JobType, ReturnType DEF FinishFailed, TypeOK
  <2>4. /\ pc' \in [Procs -> Steps] /\ result' \in [Procs -> Results]
        /\ lock' \in Procs \cup {NoProc}
    BY StepNames, <1>38, <2>1, ReturnType, ContinueType DEF FinishFailed
  <2>5. QED
    BY <1>38, <2>3, <2>4 DEF TypeOK, FinishFailed
<1>39. ASSUME NEW p \in Procs, Probe(p) PROVE TypeOK'
  <2>1. PICK x \in Paths : \/ job' = [job EXCEPT ![p] =
                                [NoJob EXCEPT !.op = "recover", !.via = x]]
                           \/ job' = job
    BY <1>39 DEF Probe
  <2>2. [NoJob EXCEPT !.op = "recover", !.via = x] \in Job
    BY NoJobType DEF Job
  <2>3. job' \in [Procs -> Job]
    BY <2>1, <2>2 DEF TypeOK
  <2>4. pc' = [pc EXCEPT ![p] = "rlock"] \/ pc' = pc
    BY <1>39 DEF Probe, Goto
  <2>5. pc' \in [Procs -> Steps]
    BY <2>4, StepNames DEF TypeOK
  <2>6. result' = [result EXCEPT ![p] = "nothing"] \/ result' = result
    BY <1>39 DEF Probe
  <2>7. result' \in [Procs -> Results]
    BY <2>6 DEF TypeOK, Results
  <2>8. QED
    BY <1>39, <2>3, <2>5, <2>7 DEF TypeOK, Probe
<1>40. ASSUME NEW p \in Procs, Locate(p) PROVE TypeOK'
  <2> DEFINE path == LocatePath(file.marker, job[p].via)
  <2>1. path \in Paths \cup {NoPath}
    BY HdrType DEF LocatePath, Marker, TypeOK, Job
  <2>2. RollsForward(file.marker.st) \in BOOLEAN /\ job[p] \in Job
    BY DEF RollsForward, TypeOK
  <2>3. [job[p] EXCEPT !.jpath = path] \in Job
    BY <2>1, <2>2, JobUpdate
  <2>4. [job[p] EXCEPT !.jpath = path,
                       !.complete = RollsForward(file.marker.st)] \in Job
    BY <2>1, <2>2, JobUpdate
  <2>5. job' \in [Procs -> Job]
    <3>1. CASE job' = [job EXCEPT ![p].jpath = path,
                                  ![p].complete = RollsForward(file.marker.st)]
      BY <2>4, <3>1 DEF TypeOK
    <3>2. CASE job' = [job EXCEPT ![p].jpath = path]
      BY <2>3, <3>2 DEF TypeOK
    <3>3. CASE Return(p, "nothing") \/ Return(p, "committed") \/ Return(p, "journal")
      BY <3>3, ReturnType DEF Results
    <3>4. QED
      BY <1>40, <3>1, <3>2, <3>3 DEF Locate
  <2>6. /\ pc' \in [Procs -> Steps] /\ result' \in [Procs -> Results]
        /\ lock' \in Procs \cup {NoProc}
    BY StepNames, <1>40, ReturnType, ContinueType DEF Locate, Results
  <2>7. QED
    BY <1>40, <2>5, <2>6 DEF TypeOK, Locate
<1>41. ASSUME NEW p \in Procs, Validate(p) PROVE TypeOK'
  <2>1. PICK d \in Dirs : /\ entry[d] # NoJournal
                           /\ job' = [job EXCEPT ![p].hdr = entry[d]]
                           /\ Continue(p, RollbackFrom(p, entry[d]))
    BY <1>41 DEF Validate
  <2>2. [job[p] EXCEPT !.hdr = entry[d]] \in Job
    BY <2>1, JobUpdate DEF TypeOK
  <2>3. job' \in [Procs -> Job]
    BY <2>1, <2>2 DEF TypeOK
  <2>4. RollbackFrom(p, entry[d]) \in Steps
    BY StepNames DEF RollbackFrom
  <2>5. QED
    BY <1>41, <2>1, <2>3, <2>4, ContinueType DEF TypeOK, Validate
<1>42. ASSUME NEW p \in Procs, RbTruncate(p) PROVE TypeOK'
  <2>1. job[p].hdr.pre.src \in Contents \cup {Mixed}
    BY <1>42, HdrType DEF RbTruncate, At, IdInv, Journal, Tail, RollbackSteps
  <2>2. QED
    BY <1>42, <2>1, StepNames, ContinueType, TruncatedType, WriteType
    DEF TypeOK, RbTruncate
<1>43. ASSUME NEW p \in Procs, RbTimes(p) PROVE TypeOK'
  <2>1. job[p].hdr.preTime \in Times
    BY <1>43, HdrType DEF RbTimes, At, IdInv, Journal, RollbackSteps
  <2>2. [file EXCEPT !.mtime = job[p].hdr.preTime] \in Inode
    BY <2>1 DEF TypeOK, Inode
  <2>3. QED
    BY StepNames, <1>43, <2>2, ContinueType, WriteType DEF TypeOK, RbTimes
<1>44. ASSUME PowerLoss PROVE TypeOK'
  BY StepNames, <1>44, NoJobType, ImageType
  DEF TypeOK, PowerLoss, Inode, Results
<1>45. ASSUME RenameDir PROVE TypeOK'
  BY <1>45 DEF TypeOK, RenameDir
<1>46. QED
  BY <1>1, <1>2, <1>3, <1>4, <1>5, <1>6, <1>7, <1>8, <1>9, <1>10, <1>11,
    <1>12, <1>13, <1>14, <1>15, <1>16, <1>17, <1>18, <1>19, <1>20, <1>21,
    <1>22, <1>23, <1>24, <1>25, <1>26, <1>27, <1>28, <1>29, <1>30, <1>31,
    <1>32, <1>33, <1>34, <1>35, <1>36, <1>37, <1>38, <1>39, <1>40, <1>41,
    <1>42, <1>43, <1>44, <1>45
  DEF Next, ReplaceStep, CleanupStep,
    RecoverStep, RollbackStep, ErrorStep

-----------------------------------------------------------------------------
(* What most steps of a process have in common: they leave the other       *)
(* processes alone, keep the plan of their own call, move journals on disk *)
(* only between memory and the durable copy, and touch the archive only    *)
(* under the flock, which ends every stamp that was fresh.                 *)

Others(p) ==
  \A q \in Procs \ {p} : pc'[q] = pc[q] /\ job'[q] = job[q]

Kept(p) ==
  job'[p].op = "replace" =>
    /\ job[p].op = "replace"
    /\ job'[p].id = job[p].id
    /\ job'[p].base = job[p].base
    /\ job'[p].hdr = job[p].hdr

DiskKept ==
  \A d \in Dirs : /\ entry'[d] \in {entry[d], dentry[d], NoJournal}
                  /\ dentry'[d] \in {entry[d], dentry[d], NoJournal}

TailKept(p) ==
  \/ file'.tail = file.tail /\ fresh' = fresh
  \/ pc[p] \in LockedSteps /\ \A q \in Procs : ~fresh'[q]

Placed(p) ==
  /\ pc'[p] \in ReplaceSteps => job'[p].op = "replace"
  /\ pc'[p] \in {"rlock"} \cup RecoverSteps => job'[p].op = "recover"
  /\ pc'[p] \in RollbackSteps \ {"validate"} => job'[p].hdr # NoJournal

LockKept(p) ==
  \/ pc'[p] \notin LockedSteps /\ \A q \in Procs \ {p} : lock = q => lock' = q
  \/ lock' = lock /\ pc[p] \in LockedSteps
  \/ lock = NoProc /\ lock' = p

Shape(p) ==
  /\ Others(p) /\ Kept(p) /\ DiskKept /\ TailKept(p) /\ Placed(p)
  /\ LockKept(p)
  /\ pc'[p] \notin {"lock", "check", "build"}
  /\ attempts' = attempts

\* A call that returns forgets its plan and releases its flock.
LEMMA ReturnShape ==
  ASSUME TypeOK, NEW p \in Procs, NEW r, Return(p, r)
  PROVE  /\ Others(p) /\ Kept(p) /\ Placed(p) /\ LockKept(p)
         /\ pc'[p] \notin {"lock", "check", "build"}
<1>1. /\ pc'[p] = "idle" /\ job'[p] = NoJob /\ Others(p)
      /\ \A q \in Procs \ {p} : lock = q => lock' = q
  BY DEF TypeOK, Return, Others
<1>2. NoJob.op = "none"
  BY DEF NoJob
<1>3. QED
  BY <1>1, <1>2
  DEF Kept, Placed, LockKept, ReplaceSteps, LockedSteps, RunSteps,
    CleanupSteps, RecoverSteps, RollbackSteps

\* A locked call that goes on keeps the flock.
LEMMA ContinueShape ==
  ASSUME TypeOK, NEW p \in Procs, NEW s, Continue(p, s), pc[p] \in LockedSteps
  PROVE  /\ pc'[p] = s /\ \A q \in Procs \ {p} : pc'[q] = pc[q]
         /\ LockKept(p)
BY DEF TypeOK, Continue, Goto, LockKept

\* A step that leaves the local state alone keeps the plan.
LEMMA SameJobShape ==
  ASSUME TypeOK, NEW p \in Procs, NEW s, Continue(p, s), pc[p] \in LockedSteps,
         UNCHANGED job
  PROVE  Others(p) /\ Kept(p)
BY ContinueShape DEF Others, Kept

\* The flags and the path of a call are not part of its plan.
LEMMA FlagShape ==
  ASSUME TypeOK, NEW p \in Procs, NEW s, Continue(p, s), pc[p] \in LockedSteps,
         NEW x, NEW b,
         \/ job' = [job EXCEPT ![p].prepared = b]
         \/ job' = [job EXCEPT ![p].published = b]
         \/ job' = [job EXCEPT ![p].completed = b]
         \/ job' = [job EXCEPT ![p].unlinked = b]
         \/ job' = [job EXCEPT ![p].synced = b]
         \/ job' = [job EXCEPT ![p].complete = b]
         \/ job' = [job EXCEPT ![p].jpath = x]
         \/ job' = [job EXCEPT ![p].jpath = x, ![p].complete = b]
  PROVE  /\ Others(p) /\ Kept(p)
         /\ job'[p].op = job[p].op /\ job'[p].hdr = job[p].hdr
<1>1. job[p] \in Job /\ job \in [Procs -> Job]
  BY DEF TypeOK
<1>2. /\ job'[p].op = job[p].op /\ job'[p].hdr = job[p].hdr
      /\ job'[p].id = job[p].id /\ job'[p].base = job[p].base
  BY <1>1 DEF Job
<1>3. \A q \in Procs \ {p} : job'[q] = job[q]
  BY <1>1
<1>4. QED
  BY <1>2, <1>3, ContinueShape DEF Others, Kept

\* Directory syncs and unlinks make no journal of their own.
LEMMA DiskShape ==
  ASSUME TypeOK, NEW x,
         SyncParent(x) \/ Remove(x) \/ UNCHANGED <<entry, dentry>>
  PROVE  DiskKept
BY DEF TypeOK, DiskKept, SyncParent, Remove

\* A write of the archive ends every fresh stamp.
LEMMA FileShape ==
  ASSUME TypeOK, NEW p \in Procs, pc[p] \in LockedSteps, NEW f,
         \/ WriteInode(f) \/ WriteThrough(f) \/ SyncInode \/ ClearMarker
         \/ UNCHANGED <<file, fresh>>
  PROVE  TailKept(p)
BY DEF TypeOK, TailKept, WriteInode, WriteThrough, SyncInode, ClearMarker,
  Changed

\* The control points between the flock and the return.
LEMMA LockedNames ==
  /\ {"check", "build", "markP", "publish", "syncPub", "markA", "trunc",
      "truncSync", "write", "writeSync", "markC", "hook", "markD", "unlink",
      "unlinkSync", "clear", "failed", "dropMarker", "doneSync", "doneClear",
      "locate", "staleSync", "staleClear"} \subseteq LockedSteps
  /\ {"validate", "rbTrunc", "rbTruncSync", "rbCopy", "rbTimes", "rbSync",
      "rbMark", "rbHook", "rbMarkD", "rbUnlink", "rbUnlinkSync",
      "rbClear"} \subseteq LockedSteps
BY DEF LockedSteps, RunSteps, CleanupSteps, RecoverSteps, RollbackSteps

\* A call under way goes on in the same part of the code.
Goes(p, s) ==
  \/ /\ pc[p] \in ReplaceSteps
     /\ s \in ReplaceSteps \ {"lock", "check", "build"}
  \/ /\ pc[p] \in RecoverSteps
     /\ s \in RecoverSteps
  \/ /\ pc[p] \in RollbackSteps \ {"validate"}
     /\ s \in RollbackSteps \ {"validate"}

\* A step that goes on, with its plan kept, has the shape.
LEMMA GoesOn ==
  ASSUME TypeOK, IdInv, NEW p \in Procs, NEW s, Continue(p, s),
         pc[p] \in LockedSteps, Goes(p, s), Others(p), Kept(p),
         job'[p].op = job[p].op, job'[p].hdr = job[p].hdr,
         DiskKept, TailKept(p), attempts' = attempts
  PROVE  Shape(p)
<1>1. pc'[p] = s /\ LockKept(p)
  BY ContinueShape
<1>2. Placed(p) /\ s \notin {"lock", "check", "build"}
  BY <1>1 DEF IdInv, Goes, Placed, ReplaceSteps, RunSteps, CleanupSteps,
    RecoverSteps, RollbackSteps
<1>3. QED
  BY <1>1, <1>2 DEF Shape

\* A failed step: cleanup of a replacement, or the end of the call.
LEMMA FailShape ==
  ASSUME TypeOK, IdInv, NEW p \in Procs, FailsInPlace(p)
  PROVE  Shape(p)
<1>1. DiskKept /\ TailKept(p) /\ attempts' = attempts
      /\ pc[p] \in LockedSteps
  BY DEF FailsInPlace, DiskKept, TailKept
<1>2. ASSUME NEW r, Return(p, r) PROVE Shape(p)
  BY <1>1, <1>2, ReturnShape DEF Shape
<1>3. ASSUME pc[p] \in RunSteps, Continue(p, "failed"), UNCHANGED job
      PROVE  Shape(p)
  <2>1. /\ Others(p) /\ Kept(p) /\ LockKept(p) /\ pc'[p] = "failed"
        /\ job'[p].op = "replace"
    BY <1>1, <1>3, ContinueShape, SameJobShape DEF IdInv, ReplaceSteps
  <2>2. Placed(p)
    BY <2>1
    DEF Placed, ReplaceSteps, RunSteps, CleanupSteps, RecoverSteps,
      RollbackSteps
  <2>3. QED
    BY <1>1, <2>1, <2>2 DEF Shape
<1>4. QED
  BY <1>2, <1>3 DEF FailsInPlace, Fail

\* Every step of a process has the shape, but the ones that start a
\* replacement, check it, build, publish and read back its journal.
LEMMA ShapeStep ==
  ASSUME TypeOK, IdInv, NEW p \in Procs
  PROVE  /\ ReplaceStep(p) => \/ LockReplace(p) \/ Check(p) \/ BuildJournal(p)
                             \/ Publish(p) \/ Shape(p)
         /\ CleanupStep(p) => Shape(p)
         /\ RecoverStep(p) => Shape(p)
         /\ RollbackStep(p) => Validate(p) \/ Shape(p)
         /\ ErrorStep(p) => PublishUnseen(p) \/ Shape(p)
         /\ Kill(p) => Shape(p)
<1>1. ASSUME MarkPrepared(p) PROVE Shape(p)
  <2>1. DiskKept /\ TailKept(p)
    BY <1>1, LockedNames, DiskShape, FileShape DEF MarkPrepared, At
  <2>2. PICK s : Continue(p, s) /\ Goes(p, s)
    BY <1>1 DEF MarkPrepared, At, Goes, ReplaceSteps, RunSteps, CleanupSteps,
      RecoverSteps, RollbackSteps
  <2>3. QED
    BY <1>1, <2>1, <2>2, LockedNames, GoesOn, FlagShape DEF MarkPrepared, At
<1>2. ASSUME MarkComplete(p) PROVE Shape(p)
  <2>1. DiskKept /\ TailKept(p)
    BY <1>2, LockedNames, DiskShape, FileShape DEF MarkComplete, At
  <2>2. PICK s : Continue(p, s) /\ Goes(p, s)
    BY <1>2 DEF MarkComplete, At, Goes, ReplaceSteps, RunSteps, CleanupSteps,
      RecoverSteps, RollbackSteps
  <2>3. QED
    BY <1>2, <2>1, <2>2, LockedNames, GoesOn, FlagShape DEF MarkComplete, At
<1>3. ASSUME Unlink(p) PROVE Shape(p)
  <2>1. DiskKept /\ TailKept(p)
    BY <1>3, LockedNames, DiskShape, FileShape DEF Unlink, At
  <2>2. PICK s : Continue(p, s) /\ Goes(p, s)
    BY <1>3 DEF Unlink, At, Goes, ReplaceSteps, RunSteps, CleanupSteps,
      RecoverSteps, RollbackSteps
  <2>3. QED
    BY <1>3, <2>1, <2>2, LockedNames, GoesOn, FlagShape DEF Unlink, At
<1>4. ASSUME SyncUnlink(p) PROVE Shape(p)
  <2>1. DiskKept /\ TailKept(p)
    BY <1>4, LockedNames, DiskShape, FileShape DEF SyncUnlink, At
  <2>2. PICK s : Continue(p, s) /\ Goes(p, s)
    BY <1>4 DEF SyncUnlink, At, Goes, ReplaceSteps, RunSteps, CleanupSteps,
      RecoverSteps, RollbackSteps
  <2>3. QED
    BY <1>4, <2>1, <2>2, LockedNames, GoesOn, FlagShape DEF SyncUnlink, At
<1>5. ASSUME SyncPublished(p) PROVE Shape(p)
  <2>1. DiskKept /\ TailKept(p)
    BY <1>5, LockedNames, DiskShape, FileShape DEF SyncPublished, At
  <2>2. PICK s : Continue(p, s) /\ Goes(p, s)
    BY <1>5 DEF SyncPublished, At, Goes, ReplaceSteps, RunSteps, CleanupSteps,
      RecoverSteps, RollbackSteps
  <2>3. QED
    BY <1>5, <2>1, <2>2, LockedNames, GoesOn, SameJobShape
    DEF SyncPublished, At
<1>6. ASSUME MarkActive(p) PROVE Shape(p)
  <2>1. DiskKept /\ TailKept(p)
    BY <1>6, LockedNames, DiskShape, FileShape DEF MarkActive, At
  <2>2. PICK s : Continue(p, s) /\ Goes(p, s)
    BY <1>6 DEF MarkActive, At, Goes, ReplaceSteps, RunSteps, CleanupSteps,
      RecoverSteps, RollbackSteps
  <2>3. QED
    BY <1>6, <2>1, <2>2, LockedNames, GoesOn, SameJobShape DEF MarkActive, At
<1>7. ASSUME Truncate(p) PROVE Shape(p)
  <2>1. DiskKept /\ TailKept(p)
    BY <1>7, LockedNames, DiskShape, FileShape DEF Truncate, At
  <2>2. PICK s : Continue(p, s) /\ Goes(p, s)
    BY <1>7 DEF Truncate, At, Goes, ReplaceSteps, RunSteps, CleanupSteps,
      RecoverSteps, RollbackSteps
  <2>3. QED
    BY <1>7, <2>1, <2>2, LockedNames, GoesOn, SameJobShape DEF Truncate, At
<1>8. ASSUME SyncTruncate(p) PROVE Shape(p)
  <2>1. DiskKept /\ TailKept(p)
    BY <1>8, LockedNames, DiskShape, FileShape DEF SyncTruncate, At
  <2>2. PICK s : Continue(p, s) /\ Goes(p, s)
    BY <1>8 DEF SyncTruncate, At, Goes, ReplaceSteps, RunSteps, CleanupSteps,
      RecoverSteps, RollbackSteps
  <2>3. QED
    BY <1>8, <2>1, <2>2, LockedNames, GoesOn, SameJobShape DEF SyncTruncate,
      At
<1>9. ASSUME WriteChunk(p) PROVE Shape(p)
  <2>1. DiskKept /\ TailKept(p)
    BY <1>9, LockedNames, DiskShape, FileShape DEF WriteChunk, At
  <2>2. PICK s : Continue(p, s) /\ Goes(p, s)
    <3>1. pc[p] = "write" /\ (Continue(p, "write") \/ Continue(p, "writeSync"))
      BY <1>9 DEF WriteChunk, At
    <3>2. Goes(p, "write") /\ Goes(p, "writeSync")
      BY <3>1 DEF Goes, ReplaceSteps, RunSteps, CleanupSteps, RecoverSteps,
        RollbackSteps
    <3>3. QED
      BY <3>1, <3>2
  <2>3. QED
    BY <1>9, <2>1, <2>2, LockedNames, GoesOn, SameJobShape DEF WriteChunk, At
<1>10. ASSUME SyncWrite(p) PROVE Shape(p)
  <2>1. DiskKept /\ TailKept(p)
    BY <1>10, LockedNames, DiskShape, FileShape DEF SyncWrite, At
  <2>2. PICK s : Continue(p, s) /\ Goes(p, s)
    BY <1>10 DEF SyncWrite, At, Goes, ReplaceSteps, RunSteps, CleanupSteps,
      RecoverSteps, RollbackSteps
  <2>3. QED
    BY <1>10, <2>1, <2>2, LockedNames, GoesOn, SameJobShape DEF SyncWrite, At
<1>11. ASSUME Hook(p) PROVE Shape(p)
  <2>1. DiskKept /\ TailKept(p)
    BY <1>11, LockedNames, DiskShape, FileShape DEF Hook, At
  <2>2. PICK s : Continue(p, s) /\ Goes(p, s)
    BY <1>11 DEF Hook, At, Goes, ReplaceSteps, RunSteps, CleanupSteps,
      RecoverSteps, RollbackSteps
  <2>3. QED
    BY <1>11, <2>1, <2>2, LockedNames, GoesOn, SameJobShape DEF Hook, At
<1>12. ASSUME MarkDone(p) PROVE Shape(p)
  <2>1. DiskKept /\ TailKept(p)
    BY <1>12, LockedNames, DiskShape, FileShape DEF MarkDone, At
  <2>2. PICK s : Continue(p, s) /\ Goes(p, s)
    BY <1>12 DEF MarkDone, At, Goes, ReplaceSteps, RunSteps, CleanupSteps,
      RecoverSteps, RollbackSteps
  <2>3. QED
    BY <1>12, <2>1, <2>2, LockedNames, GoesOn, SameJobShape DEF MarkDone, At
<1>13. ASSUME DoneSync(p) PROVE Shape(p)
  <2>1. DiskKept /\ TailKept(p)
    BY <1>13, LockedNames, DiskShape, FileShape DEF DoneSync, At
  <2>2. PICK s : Continue(p, s) /\ Goes(p, s)
    BY <1>13 DEF DoneSync, At, Goes, ReplaceSteps, RunSteps, CleanupSteps,
      RecoverSteps, RollbackSteps
  <2>3. QED
    BY <1>13, <2>1, <2>2, LockedNames, GoesOn, SameJobShape DEF DoneSync, At
<1>14. ASSUME StaleSync(p) PROVE Shape(p)
  <2>1. DiskKept /\ TailKept(p)
    BY <1>14, LockedNames, DiskShape, FileShape DEF StaleSync, At
  <2>2. PICK s : Continue(p, s) /\ Goes(p, s)
    BY <1>14 DEF StaleSync, At, Goes, ReplaceSteps, RunSteps, CleanupSteps,
      RecoverSteps, RollbackSteps
  <2>3. QED
    BY <1>14, <2>1, <2>2, LockedNames, GoesOn, SameJobShape DEF StaleSync, At
<1>15. ASSUME RbTruncate(p) PROVE Shape(p)
  <2>1. DiskKept /\ TailKept(p)
    BY <1>15, LockedNames, DiskShape, FileShape DEF RbTruncate, At
  <2>2. PICK s : Continue(p, s) /\ Goes(p, s)
    BY <1>15 DEF RbTruncate, At, Goes, ReplaceSteps, RunSteps, CleanupSteps,
      RecoverSteps, RollbackSteps
  <2>3. QED
    BY <1>15, <2>1, <2>2, LockedNames, GoesOn, SameJobShape DEF RbTruncate, At
<1>16. ASSUME RbSyncTruncate(p) PROVE Shape(p)
  <2>1. DiskKept /\ TailKept(p)
    BY <1>16, LockedNames, DiskShape, FileShape DEF RbSyncTruncate, At
  <2>2. PICK s : Continue(p, s) /\ Goes(p, s)
    BY <1>16
    DEF RbSyncTruncate, At, Goes, ReplaceSteps, RunSteps, CleanupSteps,
      RecoverSteps, RollbackSteps
  <2>3. QED
    BY <1>16, <2>1, <2>2, LockedNames, GoesOn, SameJobShape
    DEF RbSyncTruncate, At
<1>17. ASSUME RbCopyChunk(p) PROVE Shape(p)
  <2>1. DiskKept /\ TailKept(p)
    BY <1>17, LockedNames, DiskShape, FileShape DEF RbCopyChunk, At
  <2>2. PICK s : Continue(p, s) /\ Goes(p, s)
    BY <1>17 DEF RbCopyChunk, At, Goes, ReplaceSteps, RunSteps, CleanupSteps,
      RecoverSteps, RollbackSteps
  <2>3. QED
    BY <1>17, <2>1, <2>2, LockedNames, GoesOn, SameJobShape DEF RbCopyChunk,
      At
<1>18. ASSUME RbTimes(p) PROVE Shape(p)
  <2>1. DiskKept /\ TailKept(p)
    BY <1>18, LockedNames, DiskShape, FileShape DEF RbTimes, At
  <2>2. PICK s : Continue(p, s) /\ Goes(p, s)
    BY <1>18 DEF RbTimes, At, Goes, ReplaceSteps, RunSteps, CleanupSteps,
      RecoverSteps, RollbackSteps
  <2>3. QED
    BY <1>18, <2>1, <2>2, LockedNames, GoesOn, SameJobShape DEF RbTimes, At
<1>19. ASSUME RbSync(p) PROVE Shape(p)
  <2>1. DiskKept /\ TailKept(p)
    BY <1>19, LockedNames, DiskShape, FileShape DEF RbSync, At
  <2>2. PICK s : Continue(p, s) /\ Goes(p, s)
    BY <1>19 DEF RbSync, At, Goes, ReplaceSteps, RunSteps, CleanupSteps,
      RecoverSteps, RollbackSteps
  <2>3. QED
    BY <1>19, <2>1, <2>2, LockedNames, GoesOn, SameJobShape DEF RbSync, At
<1>20. ASSUME RbMark(p) PROVE Shape(p)
  <2>1. DiskKept /\ TailKept(p)
    BY <1>20, LockedNames, DiskShape, FileShape DEF RbMark, At
  <2>2. PICK s : Continue(p, s) /\ Goes(p, s)
    BY <1>20 DEF RbMark, At, Goes, ReplaceSteps, RunSteps, CleanupSteps,
      RecoverSteps, RollbackSteps
  <2>3. QED
    BY <1>20, <2>1, <2>2, LockedNames, GoesOn, SameJobShape DEF RbMark, At
<1>21. ASSUME RbHook(p) PROVE Shape(p)
  <2>1. DiskKept /\ TailKept(p)
    BY <1>21, LockedNames, DiskShape, FileShape DEF RbHook, At
  <2>2. PICK s : Continue(p, s) /\ Goes(p, s)
    BY <1>21 DEF RbHook, At, Goes, ReplaceSteps, RunSteps, CleanupSteps,
      RecoverSteps, RollbackSteps
  <2>3. QED
    BY <1>21, <2>1, <2>2, LockedNames, GoesOn, SameJobShape DEF RbHook, At
<1>22. ASSUME RbMarkDone(p) PROVE Shape(p)
  <2>1. DiskKept /\ TailKept(p)
    BY <1>22, LockedNames, DiskShape, FileShape DEF RbMarkDone, At
  <2>2. PICK s : Continue(p, s) /\ Goes(p, s)
    BY <1>22 DEF RbMarkDone, At, Goes, ReplaceSteps, RunSteps, CleanupSteps,
      RecoverSteps, RollbackSteps
  <2>3. QED
    BY <1>22, <2>1, <2>2, LockedNames, GoesOn, SameJobShape DEF RbMarkDone, At
<1>23. ASSUME RbUnlink(p) PROVE Shape(p)
  <2>1. DiskKept /\ TailKept(p)
    BY <1>23, LockedNames, DiskShape, FileShape DEF RbUnlink, At
  <2>2. PICK s : Continue(p, s) /\ Goes(p, s)
    BY <1>23 DEF RbUnlink, At, Goes, ReplaceSteps, RunSteps, CleanupSteps,
      RecoverSteps, RollbackSteps
  <2>3. QED
    BY <1>23, <2>1, <2>2, LockedNames, GoesOn, SameJobShape DEF RbUnlink, At
<1>24. ASSUME RbSyncUnlink(p) PROVE Shape(p)
  <2>1. DiskKept /\ TailKept(p)
    BY <1>24, LockedNames, DiskShape, FileShape DEF RbSyncUnlink, At
  <2>2. PICK s : Continue(p, s) /\ Goes(p, s)
    BY <1>24 DEF RbSyncUnlink, At, Goes, ReplaceSteps, RunSteps, CleanupSteps,
      RecoverSteps, RollbackSteps
  <2>3. QED
    BY <1>24, <2>1, <2>2, LockedNames, GoesOn, SameJobShape
    DEF RbSyncUnlink, At
<1>25. ASSUME ClearLocator(p) PROVE Shape(p)
  BY <1>25, LockedNames, ReturnShape, DiskShape, FileShape
  DEF ClearLocator, At, Shape
<1>26. ASSUME DropMarker(p) PROVE Shape(p)
  BY <1>26, LockedNames, ReturnShape, DiskShape, FileShape
  DEF DropMarker, At, Shape
<1>27. ASSUME DoneClear(p) PROVE Shape(p)
  BY <1>27, LockedNames, ReturnShape, DiskShape, FileShape
  DEF DoneClear, At, Shape
<1>28. ASSUME StaleClear(p) PROVE Shape(p)
  BY <1>28, LockedNames, ReturnShape, DiskShape, FileShape
  DEF StaleClear, At, Shape
<1>29. ASSUME RbClear(p) PROVE Shape(p)
  BY <1>29, LockedNames, ReturnShape, DiskShape, FileShape
  DEF RbClear, At, Shape
<1>30. ASSUME LockRecover(p) PROVE Shape(p)
  <2>1. DiskKept /\ TailKept(p) /\ attempts' = attempts
    BY <1>30 DEF LockRecover, DiskKept, TailKept
  <2>2. CASE Return(p, "journal")
    BY <2>1, <2>2, ReturnShape DEF Shape
  <2>3. CASE /\ lock = NoProc /\ lock' = p /\ Goto(p, "locate")
             /\ UNCHANGED job
    <3>1. pc'[p] = "locate" /\ Others(p) /\ Kept(p) /\ LockKept(p)
      BY <2>3 DEF TypeOK, Goto, Others, Kept, LockKept
    <3>2. Placed(p)
      BY <1>30, <2>3, <3>1
      DEF LockRecover, At, IdInv, Placed, ReplaceSteps, RunSteps,
        CleanupSteps, RecoverSteps, RollbackSteps
    <3>3. QED
      BY <2>1, <3>1, <3>2 DEF Shape
  <2>4. QED
    BY <1>30, <2>2, <2>3 DEF LockRecover
<1>31. ASSUME Locate(p) PROVE Shape(p)
  <2>1. DiskKept /\ TailKept(p) /\ attempts' = attempts
        /\ pc[p] \in LockedSteps
        /\ job[p].op = "recover"
    BY <1>31, LockedNames
    DEF Locate, At, DiskKept, TailKept, IdInv, RecoverSteps
  <2>2. ASSUME NEW r, Return(p, r) PROVE Shape(p)
    BY <2>1, <2>2, ReturnShape DEF Shape
  <2> DEFINE path == LocatePath(file.marker, job[p].via)
  <2>3. ASSUME NEW s \in {"validate", "staleSync"},
               \/ job' = [job EXCEPT ![p].jpath = path]
               \/ job' = [job EXCEPT ![p].jpath = path,
                                    ![p].complete = RollsForward(file.marker.st)],
               Continue(p, s)
        PROVE  Shape(p)
    <3>1. job'[p].op = "recover" /\ \A q \in Procs \ {p} : job'[q] = job[q]
      BY <2>1, <2>3 DEF TypeOK, Job
    <3>2. Others(p) /\ Kept(p) /\ job'[p].op = "recover"
      BY <2>1, <2>3, <3>1, ContinueShape DEF Others, Kept
    <3>3. pc'[p] = s /\ LockKept(p)
      BY <2>1, <2>3, ContinueShape
    <3>4. Placed(p)
      BY <2>3, <3>2, <3>3
      DEF Placed, ReplaceSteps, RunSteps, CleanupSteps, RecoverSteps,
        RollbackSteps
    <3>5. QED
      BY <2>1, <2>3, <3>2, <3>3, <3>4 DEF Shape
  <2>4. QED
    BY <1>31, <2>2, <2>3 DEF Locate
<1>32. ASSUME FinishFailed(p) PROVE Shape(p)
  <2>1. DiskKept /\ TailKept(p) /\ attempts' = attempts
        /\ pc[p] \in LockedSteps
        /\ job[p].op = "replace"
    BY <1>32, LockedNames DEF FinishFailed, At, DiskKept, TailKept, IdInv,
      ReplaceSteps, CleanupSteps
  <2>2. ASSUME NEW r, Return(p, r) PROVE Shape(p)
    BY <2>1, <2>2, ReturnShape DEF Shape
  <2>3. ASSUME NEW s \in {"validate", "dropMarker", "doneClear", "doneSync"},
               NEW b,
               job' = job \/ job' = [job EXCEPT ![p].complete = b],
               Continue(p, s)
        PROVE  Shape(p)
    <3>1. Others(p) /\ Kept(p) /\ job'[p].op = "replace"
      BY <2>1, <2>3, FlagShape, SameJobShape
    <3>2. pc'[p] = s /\ LockKept(p)
      BY <2>1, <2>3, ContinueShape
    <3>3. Placed(p)
      BY <2>3, <3>1, <3>2
      DEF Placed, ReplaceSteps, RunSteps, CleanupSteps, RecoverSteps,
        RollbackSteps
    <3>4. QED
      BY <2>1, <2>3, <3>1, <3>2, <3>3 DEF Shape
  <2>4. QED
    BY <1>32, <2>2, <2>3 DEF FinishFailed
<1>33. ASSUME StepFails(p) PROVE Shape(p)
  BY <1>33, FailShape DEF StepFails, FailsInPlace
<1>34. ASSUME MarkerHalfSet(p) PROVE Shape(p)
  <2>1. DiskKept /\ TailKept(p) /\ attempts' = attempts
        /\ pc[p] \in LockedSteps
    BY <1>34, LockedNames, DiskShape, FileShape DEF MarkerHalfSet
  <2>2. ASSUME NEW r, Return(p, r) PROVE Shape(p)
    BY <2>1, <2>2, ReturnShape DEF Shape
  <2>3. ASSUME pc[p] \in RunSteps, Continue(p, "failed"), UNCHANGED job
        PROVE  Shape(p)
    <3>1. /\ Others(p) /\ Kept(p) /\ LockKept(p) /\ pc'[p] = "failed"
          /\ job'[p].op = "replace"
      BY <2>1, <2>3, ContinueShape, SameJobShape DEF IdInv, ReplaceSteps
    <3>2. Placed(p)
      BY <3>1
      DEF Placed, ReplaceSteps, RunSteps, CleanupSteps, RecoverSteps,
        RollbackSteps
    <3>3. QED
      BY <2>1, <3>1, <3>2 DEF Shape
  <2>4. QED
    BY <1>34, <2>2, <2>3 DEF MarkerHalfSet
<1>35. ASSUME Kill(p) PROVE Shape(p)
  BY <1>35, ReturnShape DEF Kill, Shape, DiskKept, TailKept
<1>36. QED
  BY <1>1, <1>2, <1>3, <1>4, <1>5, <1>6, <1>7, <1>8, <1>9, <1>10, <1>11,
    <1>12, <1>13, <1>14, <1>15, <1>16, <1>17, <1>18, <1>19, <1>20, <1>21,
    <1>22, <1>23, <1>24, <1>25, <1>26, <1>27, <1>28, <1>29, <1>30, <1>31,
    <1>32, <1>33, <1>34, <1>35
  DEF ReplaceStep, CleanupStep, RecoverStep, RollbackStep, ErrorStep

\* A recovery that starts has the shape.
LEMMA ProbeShape ==
  ASSUME TypeOK, IdInv, NEW p \in Procs, Probe(p)
  PROVE  Shape(p)
<1>1. /\ DiskKept /\ TailKept(p) /\ attempts' = attempts /\ lock' = lock
  BY DEF Probe, DiskKept, TailKept
<1>2. PICK x \in Paths :
        \/ /\ job' = [job EXCEPT ![p] = [NoJob EXCEPT !.op = "recover", !.via = x]]
           /\ Goto(p, "rlock")
        \/ UNCHANGED <<pc, job>> /\ pc[p] = "idle"
  BY DEF Probe, At
<1>3. CASE UNCHANGED <<pc, job>> /\ pc[p] = "idle"
  BY <1>1, <1>3 DEF Shape, Others, Kept, Placed, LockKept, ReplaceSteps,
    LockedSteps, RunSteps, CleanupSteps, RecoverSteps, RollbackSteps
<1>4. CASE /\ job' = [job EXCEPT ![p] = [NoJob EXCEPT !.op = "recover", !.via = x]]
           /\ Goto(p, "rlock")
  <2>1. job'[p].op = "recover" /\ \A q \in Procs \ {p} : job'[q] = job[q]
    BY <1>4 DEF TypeOK, NoJob
  <2>2. pc'[p] = "rlock" /\ \A q \in Procs \ {p} : pc'[q] = pc[q]
    BY <1>4 DEF TypeOK, Goto
  <2>3. QED
    BY <1>1, <2>1, <2>2
    DEF Shape, Others, Kept, Placed, LockKept, ReplaceSteps,
      LockedSteps, RunSteps, CleanupSteps, RecoverSteps, RollbackSteps
<1>5. QED
  BY <1>2, <1>3, <1>4

-----------------------------------------------------------------------------
(* The invariant is inductive.                                             *)

\* A step of that shape keeps each part of the invariant.
LEMMA ShapeKeepsId ==
  ASSUME IdInv, NEW p \in Procs, Others(p), Kept(p), Placed(p),
         attempts' = attempts
  PROVE  IdInv'
<1>1. ASSUME NEW q \in Procs
      PROVE  /\ pc'[q] \in ReplaceSteps => job'[q].op = "replace"
             /\ pc'[q] \in {"rlock"} \cup RecoverSteps => job'[q].op = "recover"
             /\ job'[q].op = "replace" => job'[q].id \in 1 .. attempts'
             /\ pc'[q] \in RollbackSteps \ {"validate"} => job'[q].hdr # NoJournal
  BY DEF IdInv, Others, Kept, Placed
<1>2. ASSUME NEW q \in Procs, NEW r \in Procs, q # r,
             job'[q].op = "replace", job'[r].op = "replace"
      PROVE  job'[q].id # job'[r].id
  BY <1>2 DEF IdInv, Others, Kept
<1>3. QED
  BY <1>1, <1>2 DEF IdInv

LEMMA ShapeKeepsLock ==
  ASSUME LockInv, NEW p \in Procs, Others(p), LockKept(p)
  PROVE  LockInv'
<1>1. SUFFICES ASSUME NEW q \in Procs, pc'[q] \in LockedSteps
               PROVE  lock' = q
  BY DEF LockInv
<1>2. QED
  BY <1>1 DEF LockInv, Others, LockKept

LEMMA ShapeKeepsPlan ==
  ASSUME PlanInv, LockInv, NEW p \in Procs, Others(p), TailKept(p),
         pc'[p] \notin {"lock", "check", "build"}
  PROVE  PlanInv'
<1>1. SUFFICES ASSUME NEW q \in Procs, q # p
               PROVE  /\ pc'[q] \in {"lock", "check"} /\ fresh'[q]
                         => file'.tail = job'[q].base
                      /\ pc'[q] = "build" => file'.tail = job'[q].base
  BY DEF PlanInv
<1>2. pc'[q] = pc[q] /\ job'[q] = job[q]
  BY <1>1 DEF Others
<1>3. CASE file'.tail = file.tail /\ fresh' = fresh
  BY <1>2, <1>3 DEF PlanInv
<1>4. CASE pc[p] \in LockedSteps /\ \A r \in Procs : ~fresh'[r]
  BY <1>1, <1>2, <1>4, LockedNames DEF LockInv
<1>5. QED
  BY <1>3, <1>4 DEF TailKept

LEMMA ShapeKeepsJournal ==
  ASSUME JournalInv, NEW p \in Procs, Others(p), Kept(p), DiskKept,
         attempts' = attempts
  PROVE  JournalInv'
<1>1. ASSUME NEW q \in Procs, job'[q].op = "replace"
      PROVE  /\ job[q].op = "replace" /\ job'[q].id = job[q].id
             /\ job'[q].base = job[q].base /\ job'[q].hdr = job[q].hdr
  BY <1>1 DEF Others, Kept
<1>2. \A q \in Procs : job'[q].op = "replace" /\ job'[q].hdr # NoJournal
                       => job'[q].hdr.id = job'[q].id
  BY <1>1 DEF JournalInv
<1>3. ASSUME NEW q \in Procs PROVE Records(job[q].hdr, q)'
  BY <1>1 DEF JournalInv, Records
<1>4. ASSUME NEW d \in Dirs PROVE Old(entry[d])' /\ Old(dentry[d])'
  BY <1>4 DEF JournalInv, DiskKept, Old
<1>5. ASSUME NEW d \in Dirs, NEW q \in Procs
      PROVE  Records(entry[d], q)' /\ Records(dentry[d], q)'
  BY <1>1 DEF JournalInv, DiskKept, Records
<1>6. QED
  BY <1>2, <1>3, <1>4, <1>5 DEF JournalInv

\* The four parts together.
LEMMA ShapeInv ==
  ASSUME IdInv, LockInv, PlanInv, JournalInv, NEW p \in Procs, Shape(p)
  PROVE  IdInv' /\ LockInv' /\ PlanInv' /\ JournalInv'
BY ShapeKeepsId, ShapeKeepsLock, ShapeKeepsPlan, ShapeKeepsJournal DEF Shape

\* A new replacement takes a number no journal and no other call has.
LEMMA StartInv ==
  ASSUME Inv, NEW p \in Procs, StartReplace(p)
  PROVE  IdInv' /\ LockInv' /\ PlanInv' /\ JournalInv'
<1>1. /\ job'[p].op = "replace" /\ job'[p].id = attempts + 1
      /\ job'[p].base = file.tail /\ job'[p].hdr = NoJournal
      /\ \A q \in Procs \ {p} : job'[q] = job[q]
  <2>1. PICK d \in Dirs, c \in Contents :
          job' = [job EXCEPT ![p] = [NoJob EXCEPT
                 !.op = "replace", !.via = pathOf[d], !.jpath = pathOf[d],
                 !.base = file.tail, !.new = Full(c), !.id = attempts + 1]]
    BY DEF StartReplace
  <2>2. QED
    BY <2>1 DEF Inv, TypeOK, NoJob
<1>2. /\ pc'[p] = "lock" /\ pc[p] = "idle"
      /\ \A q \in Procs \ {p} : pc'[q] = pc[q] /\ fresh'[q] = fresh[q]
  BY DEF Inv, TypeOK, StartReplace, Goto, At
<1>3. /\ attempts' = attempts + 1 /\ file' = file /\ lock' = lock
      /\ entry' = entry /\ dentry' = dentry
      /\ attempts \in Nat
  BY DEF StartReplace, Inv, TypeOK
<1>4. IdInv'
  <2>1. ASSUME NEW q \in Procs
        PROVE  /\ pc'[q] \in ReplaceSteps => job'[q].op = "replace"
               /\ pc'[q] \in {"rlock"} \cup RecoverSteps => job'[q].op = "recover"
               /\ job'[q].op = "replace" => job'[q].id \in 1 .. attempts'
               /\ pc'[q] \in RollbackSteps \ {"validate"}
                    => job'[q].hdr # NoJournal
    BY <1>1, <1>2, <1>3 DEF Inv, IdInv, RecoverSteps, RollbackSteps
  <2>2. ASSUME NEW q \in Procs, job[q].op = "replace"
        PROVE  job[q].id # attempts + 1
    BY <1>3, <2>2 DEF Inv, IdInv
  <2>3. ASSUME NEW q \in Procs, NEW r \in Procs, q # r,
               job'[q].op = "replace", job'[r].op = "replace"
        PROVE  job'[q].id # job'[r].id
    BY <1>1, <2>2, <2>3 DEF Inv, IdInv
  <2>4. QED
    BY <2>1, <2>3 DEF IdInv
<1>5. LockInv'
  BY <1>2, <1>3 DEF Inv, LockInv, LockedSteps, RunSteps,
      CleanupSteps, RecoverSteps, RollbackSteps
<1>6. PlanInv'
  BY <1>1, <1>2, <1>3 DEF Inv, PlanInv
<1>7. JournalInv'
  <2>1. ASSUME NEW d \in Dirs
        PROVE  /\ entry[d] # NoJournal => entry[d].id \in Nat
               /\ dentry[d] # NoJournal => dentry[d].id \in Nat
    BY <2>1 DEF Inv, TypeOK, Journal
  <2>2. ASSUME NEW d \in Dirs
        PROVE  /\ entry[d] # NoJournal => entry[d].id # attempts + 1
               /\ dentry[d] # NoJournal => dentry[d].id # attempts + 1
               /\ Old(entry[d])' /\ Old(dentry[d])'
    BY <1>3, <2>1 DEF Inv, JournalInv, Old
  <2>3. ASSUME NEW q \in Procs
        PROVE  /\ Records(job[q].hdr, q)'
               /\ job'[q].op = "replace" /\ job'[q].hdr # NoJournal
                    => job'[q].hdr.id = job'[q].id
    BY <1>1 DEF Inv, JournalInv, Records
  <2>4. ASSUME NEW d \in Dirs, NEW q \in Procs
        PROVE  Records(entry[d], q)' /\ Records(dentry[d], q)'
    <3>1. CASE q = p
      BY <1>1, <1>3, <2>2, <3>1 DEF Records
    <3>2. CASE q # p
      BY <1>1, <1>3, <3>2 DEF Inv, JournalInv, Records
    <3>3. QED
      BY <3>1, <3>2
  <2>5. QED
    BY <2>2, <2>3, <2>4 DEF JournalInv
<1>8. QED
  BY <1>4, <1>5, <1>6, <1>7

\* The flock: only a free one is taken.
LEMMA LockReplaceInv ==
  ASSUME Inv, NEW p \in Procs, LockReplace(p)
  PROVE  IdInv' /\ LockInv' /\ PlanInv' /\ JournalInv'
<1>1. /\ DiskKept /\ attempts' = attempts /\ TailKept(p)
      /\ file' = file /\ fresh' = fresh /\ pc[p] = "lock"
  BY DEF LockReplace, DiskKept, TailKept, At
<1>2. CASE Return(p, "refused")
  BY <1>1, <1>2, ReturnShape, ShapeInv DEF Inv, Shape
<1>3. CASE lock = NoProc /\ lock' = p /\ Goto(p, "check") /\ UNCHANGED job
  <2>1. /\ pc'[p] = "check" /\ Others(p) /\ Kept(p) /\ LockKept(p)
    BY <1>3 DEF Inv, TypeOK, Goto, Others, Kept, LockKept
  <2>2. Placed(p)
    BY <1>1, <1>3, <2>1 DEF Inv, IdInv, Placed, ReplaceSteps, RunSteps,
      CleanupSteps, RecoverSteps, RollbackSteps
  <2>3. PlanInv'
    BY <1>1, <1>3, <2>1 DEF Inv, PlanInv, Others
  <2>4. QED
    BY <1>1, <2>1, <2>2, <2>3, ShapeKeepsId, ShapeKeepsLock, ShapeKeepsJournal
    DEF Inv
<1>4. QED
  BY <1>2, <1>3 DEF LockReplace

\* The stamp is compared under the flock: from here to the journal nobody else
\* writes.
LEMMA CheckInv ==
  ASSUME Inv, NEW p \in Procs, Check(p)
  PROVE  IdInv' /\ LockInv' /\ PlanInv' /\ JournalInv'
<1>1. /\ DiskKept /\ attempts' = attempts /\ TailKept(p)
      /\ file' = file /\ fresh' = fresh /\ pc[p] = "check"
      /\ pc[p] \in LockedSteps
  BY LockedNames DEF Check, DiskKept, TailKept, At
<1>2. CASE Return(p, "refused")
  BY <1>1, <1>2, ReturnShape, ShapeInv DEF Inv, Shape
<1>3. CASE Continue(p, "build") /\ UNCHANGED job /\ fresh[p]
  <2>1. /\ pc'[p] = "build" /\ Others(p) /\ Kept(p) /\ LockKept(p)
    BY <1>1, <1>3, ContinueShape, SameJobShape DEF Inv
  <2>2. Placed(p)
    BY <1>1, <1>3, <2>1 DEF Inv, IdInv, Placed, ReplaceSteps, RunSteps,
      CleanupSteps, RecoverSteps, RollbackSteps
  <2>3. PlanInv'
    BY <1>1, <1>3, <2>1 DEF Inv, PlanInv, Others
  <2>4. QED
    BY <1>1, <2>1, <2>2, <2>3, ShapeKeepsId, ShapeKeepsLock, ShapeKeepsJournal
    DEF Inv
<1>4. QED
  BY <1>2, <1>3 DEF Check

\* The journal records the bytes of the plan.
LEMMA BuildInv ==
  ASSUME Inv, NEW p \in Procs, BuildJournal(p)
  PROVE  IdInv' /\ LockInv' /\ PlanInv' /\ JournalInv'
<1>1. /\ pc[p] = "build" /\ Continue(p, "markP") /\ pc[p] \in LockedSteps
      /\ DiskKept /\ TailKept(p) /\ attempts' = attempts
      /\ entry' = entry /\ dentry' = dentry
  BY LockedNames DEF BuildJournal, At, DiskKept, TailKept
<1>2. /\ job'[p].op = job[p].op /\ job'[p].id = job[p].id
      /\ job'[p].base = job[p].base
      /\ job'[p].hdr = [id |-> job[p].id, pre |-> file.tail,
                        preTime |-> file.mtime, new |-> job[p].new]
      /\ \A q \in Procs \ {p} : job'[q] = job[q]
  BY DEF BuildJournal, Inv, TypeOK, Job
<1>3. /\ job'[p].hdr.id = job[p].id /\ job'[p].hdr.pre = job[p].base
      /\ job[p].op = "replace"
  BY <1>1, <1>2 DEF Inv, PlanInv, IdInv, ReplaceSteps, RunSteps
<1>4. pc'[p] = "markP" /\ LockKept(p) /\ Others(p)
  BY <1>1, <1>2, ContinueShape DEF Inv, Others
<1>5. LockInv' /\ PlanInv'
  BY <1>1, <1>4, ShapeKeepsLock, ShapeKeepsPlan DEF Inv
<1>6. IdInv'
  <2>1. ASSUME NEW q \in Procs
        PROVE  /\ pc'[q] \in ReplaceSteps => job'[q].op = "replace"
               /\ pc'[q] \in {"rlock"} \cup RecoverSteps => job'[q].op = "recover"
               /\ job'[q].op = "replace" => job'[q].id \in 1 .. attempts'
               /\ pc'[q] \in RollbackSteps \ {"validate"}
                    => job'[q].hdr # NoJournal
    BY <1>1, <1>2, <1>3, <1>4
    DEF Inv, IdInv, Others, RecoverSteps, RollbackSteps
  <2>2. ASSUME NEW q \in Procs, NEW r \in Procs, q # r,
               job'[q].op = "replace", job'[r].op = "replace"
        PROVE  job'[q].id # job'[r].id
    <3>1. \A x \in Procs : job'[x].op = job[x].op /\ job'[x].id = job[x].id
      BY <1>2
    <3>2. QED
      BY <2>2, <3>1 DEF Inv, IdInv
  <2>3. QED
    BY <2>1, <2>2 DEF IdInv
<1>7. JournalInv'
  <2>1. ASSUME NEW q \in Procs
        PROVE  /\ Records(job[q].hdr, q)'
               /\ job'[q].op = "replace" /\ job'[q].hdr # NoJournal
                    => job'[q].hdr.id = job'[q].id
    BY <1>2, <1>3 DEF Inv, JournalInv, Records
  <2>2. ASSUME NEW d \in Dirs PROVE Old(entry[d])' /\ Old(dentry[d])'
    BY <1>1 DEF Inv, JournalInv, Old
  <2>3. ASSUME NEW d \in Dirs, NEW q \in Procs
        PROVE  Records(entry[d], q)' /\ Records(dentry[d], q)'
    BY <1>1, <1>2 DEF Inv, JournalInv, Records
  <2>4. QED
    BY <2>1, <2>2, <2>3 DEF JournalInv
<1>8. QED
  BY <1>5, <1>6, <1>7

\* The journal that gets its name is the one the attempt built: it is
\* recorded for this attempt, and no other attempt has its number.
LEMMA PublishInv ==
  ASSUME Inv, NEW p \in Procs, Publish(p) \/ PublishUnseen(p)
  PROVE  IdInv' /\ LockInv' /\ PlanInv' /\ JournalInv'
<1>1. /\ pc[p] = "publish" /\ pc[p] \in LockedSteps
      /\ TailKept(p) /\ attempts' = attempts /\ dentry' = dentry
      /\ \A d \in Dirs : entry'[d] \in {entry[d], job[p].hdr}
  BY LockedNames DEF Publish, PublishUnseen, At, TailKept
<1>2. PICK s \in {"syncPub", "failed"} : Continue(p, s)
  BY DEF Publish, PublishUnseen
<1>3. /\ pc'[p] = s /\ LockKept(p) /\ Others(p) /\ Kept(p)
      /\ job'[p].op = job[p].op
  BY <1>1, <1>2, ContinueShape, SameJobShape, FlagShape
  DEF Inv, Publish, PublishUnseen
<1>4. job[p].op = "replace"
  BY <1>1 DEF Inv, IdInv, ReplaceSteps, RunSteps
<1>5. Placed(p) /\ pc'[p] \notin {"lock", "check", "build"}
  BY <1>2, <1>3, <1>4 DEF Placed, ReplaceSteps, RunSteps, CleanupSteps,
    RecoverSteps, RollbackSteps
<1>6. IdInv' /\ LockInv' /\ PlanInv'
  BY <1>1, <1>3, <1>5, ShapeKeepsId, ShapeKeepsLock, ShapeKeepsPlan DEF Inv
<1>7. ASSUME NEW q \in Procs, job'[q].op = "replace"
      PROVE  /\ job[q].op = "replace" /\ job'[q].id = job[q].id
             /\ job'[q].base = job[q].base /\ job'[q].hdr = job[q].hdr
  BY <1>3, <1>7 DEF Others, Kept
<1>8. JournalInv'
  <2>1. ASSUME NEW q \in Procs
        PROVE  /\ Records(job[q].hdr, q)'
               /\ job'[q].op = "replace" /\ job'[q].hdr # NoJournal
                    => job'[q].hdr.id = job'[q].id
    BY <1>7 DEF Inv, JournalInv, Records
  <2>2. ASSUME NEW q \in Procs PROVE Records(job[p].hdr, q)
    BY <1>4 DEF Inv, JournalInv, IdInv, Records
  <2>3. Old(job[p].hdr)
    BY <1>4 DEF Inv, JournalInv, IdInv, Old
  <2>4. ASSUME NEW d \in Dirs PROVE Old(entry[d])' /\ Old(dentry[d])'
    BY <1>1, <2>3 DEF Inv, JournalInv, Old
  <2>5. ASSUME NEW d \in Dirs, NEW q \in Procs
        PROVE  Records(entry[d], q)' /\ Records(dentry[d], q)'
    BY <1>1, <1>7, <2>2 DEF Inv, JournalInv, Records
  <2>6. QED
    BY <2>1, <2>4, <2>5 DEF JournalInv
<1>9. QED
  BY <1>6, <1>8

\* finish_failed reads back only a journal with its own number, and such a
\* journal records the bytes of the plan.
LEMMA ValidateInv ==
  ASSUME Inv, NEW p \in Procs, Validate(p)
  PROVE  IdInv' /\ LockInv' /\ PlanInv' /\ JournalInv'
<1>1. PICK d \in Dirs : /\ entry[d] # NoJournal
                        /\ Fits(p, entry[d])
                        /\ job' = [job EXCEPT ![p].hdr = entry[d]]
                        /\ Continue(p, RollbackFrom(p, entry[d]))
  BY DEF Validate
<1>2. PICK s \in {"rbTrunc", "rbMark"} : Continue(p, s)
  BY <1>1 DEF RollbackFrom
<1>3. /\ pc[p] = "validate" /\ pc[p] \in LockedSteps
      /\ TailKept(p) /\ attempts' = attempts
      /\ entry' = entry /\ dentry' = dentry
  BY LockedNames DEF Validate, At, TailKept
<1>4. /\ job'[p].op = job[p].op /\ job'[p].id = job[p].id
      /\ job'[p].base = job[p].base /\ job'[p].hdr = entry[d]
      /\ \A q \in Procs \ {p} : job'[q] = job[q]
  BY <1>1 DEF Inv, TypeOK, Job
<1>5. pc'[p] = s /\ LockKept(p) /\ Others(p)
  BY <1>2, <1>3, <1>4, ContinueShape DEF Inv, Others
<1>6. LockInv' /\ PlanInv'
  BY <1>2, <1>3, <1>5, ShapeKeepsLock, ShapeKeepsPlan DEF Inv
<1>7. IdInv'
  <2>1. ASSUME NEW q \in Procs
        PROVE  /\ pc'[q] \in ReplaceSteps => job'[q].op = "replace"
               /\ pc'[q] \in {"rlock"} \cup RecoverSteps
                    => job'[q].op = "recover"
               /\ job'[q].op = "replace" => job'[q].id \in 1 .. attempts'
               /\ pc'[q] \in RollbackSteps \ {"validate"}
                    => job'[q].hdr # NoJournal
    <3>1. CASE q = p
      BY <1>1, <1>2, <1>3, <1>4, <1>5, <3>1
      DEF Inv, IdInv, ReplaceSteps, RunSteps, CleanupSteps, RecoverSteps
    <3>2. CASE q # p
      BY <1>3, <1>4, <1>5, <3>2 DEF Inv, IdInv, Others
    <3>3. QED
      BY <3>1, <3>2
  <2>2. ASSUME NEW q \in Procs, NEW r \in Procs, q # r,
               job'[q].op = "replace", job'[r].op = "replace"
        PROVE  job'[q].id # job'[r].id
    <3>1. \A x \in Procs : job'[x].op = job[x].op /\ job'[x].id = job[x].id
      BY <1>4
    <3>2. QED
      BY <2>2, <3>1 DEF Inv, IdInv
  <2>3. QED
    BY <2>1, <2>2 DEF IdInv
<1>8. JournalInv'
  <2>1. ASSUME NEW q \in Procs
        PROVE  /\ job'[q].op = job[q].op /\ job'[q].id = job[q].id
               /\ job'[q].base = job[q].base
    BY <1>4
  <2>2. ASSUME NEW q \in Procs
        PROVE  /\ Records(job[q].hdr, q)'
               /\ job'[q].op = "replace" /\ job'[q].hdr # NoJournal
                    => job'[q].hdr.id = job'[q].id
    <3>1. CASE q = p
      BY <1>1, <1>4, <3>1 DEF Inv, JournalInv, Records, Fits
    <3>2. CASE q # p
      BY <1>4, <3>2 DEF Inv, JournalInv, Records
    <3>3. QED
      BY <3>1, <3>2
  <2>3. ASSUME NEW e \in Dirs PROVE Old(entry[e])' /\ Old(dentry[e])'
    BY <1>3 DEF Inv, JournalInv, Old
  <2>4. ASSUME NEW e \in Dirs, NEW q \in Procs
        PROVE  Records(entry[e], q)' /\ Records(dentry[e], q)'
    BY <1>3, <2>1 DEF Inv, JournalInv, Records
  <2>5. QED
    BY <2>2, <2>3, <2>4 DEF JournalInv
<1>9. QED
  BY <1>6, <1>7, <1>8

\* A power loss ends every call, and keeps of each directory either copy.
LEMMA PowerLossInv ==
  ASSUME Inv, PowerLoss
  PROVE  IdInv' /\ LockInv' /\ PlanInv' /\ JournalInv'
<1>1. /\ \A p \in Procs : pc'[p] = "idle" /\ job'[p] = NoJob
      /\ attempts' = attempts
  BY DEF PowerLoss
<1>2. NoJob.op = "none"
  BY DEF NoJob
<1>3. \A d \in Dirs : /\ entry'[d] \in {entry[d], dentry[d]}
                      /\ dentry'[d] = entry'[d]
  BY DEF PowerLoss
<1>4. IdInv' /\ LockInv' /\ PlanInv'
  BY <1>1, <1>2 DEF IdInv, LockInv, PlanInv, ReplaceSteps, LockedSteps,
    RunSteps, CleanupSteps, RecoverSteps, RollbackSteps
<1>5. JournalInv'
  BY <1>1, <1>2, <1>3 DEF Inv, JournalInv, Records, Old
<1>6. QED
  BY <1>4, <1>5

\* The invariant holds at the start.
LEMMA InitInv == Init => Inv
<1>1. SUFFICES ASSUME Init PROVE Inv
  OBVIOUS
<1>2. NoJob.op = "none"
  BY DEF NoJob
<1>3. IdInv /\ LockInv /\ PlanInv
  BY <1>1, <1>2 DEF Init, IdInv, LockInv, PlanInv, ReplaceSteps, LockedSteps,
    RunSteps, CleanupSteps, RecoverSteps, RollbackSteps
<1>4. JournalInv
  BY <1>1, <1>2 DEF Init, JournalInv, Records, Old
<1>5. QED
  BY <1>1, <1>3, <1>4, InitType DEF Inv

\* Every step keeps the invariant.
LEMMA NextInv ==
  ASSUME Inv, Next
  PROVE  Inv'
<1>1. TypeOK'
  BY TypeStep DEF Inv
<1>2. ASSUME NEW p \in Procs, Shape(p)
      PROVE  IdInv' /\ LockInv' /\ PlanInv' /\ JournalInv'
  BY <1>2, ShapeInv DEF Inv
<1>3. ASSUME NEW p \in Procs, StartReplace(p) \/ Probe(p)
      PROVE  IdInv' /\ LockInv' /\ PlanInv' /\ JournalInv'
  BY <1>2, <1>3, StartInv, ProbeShape DEF Inv
<1>4. ASSUME NEW p \in Procs, ReplaceStep(p)
      PROVE  IdInv' /\ LockInv' /\ PlanInv' /\ JournalInv'
  BY <1>2, <1>4, ShapeStep, LockReplaceInv, CheckInv, BuildInv, PublishInv
  DEF Inv
<1>5. ASSUME NEW p \in Procs, CleanupStep(p) \/ RecoverStep(p)
      PROVE  IdInv' /\ LockInv' /\ PlanInv' /\ JournalInv'
  BY <1>2, <1>5, ShapeStep DEF Inv
<1>6. ASSUME NEW p \in Procs, RollbackStep(p)
      PROVE  IdInv' /\ LockInv' /\ PlanInv' /\ JournalInv'
  BY <1>2, <1>6, ShapeStep, ValidateInv DEF Inv
<1>7. ASSUME NEW p \in Procs, ErrorStep(p) \/ Kill(p)
      PROVE  IdInv' /\ LockInv' /\ PlanInv' /\ JournalInv'
  BY <1>2, <1>7, ShapeStep, PublishInv DEF Inv
<1>8. ASSUME RenameDir
      PROVE  IdInv' /\ LockInv' /\ PlanInv' /\ JournalInv'
  BY <1>8 DEF RenameDir, Inv, IdInv, LockInv, PlanInv, JournalInv, Records,
    Old
<1>9. IdInv' /\ LockInv' /\ PlanInv' /\ JournalInv'
  BY <1>3, <1>4, <1>5, <1>6, <1>7, <1>8, PowerLossInv DEF Next
<1>10. QED
  BY <1>1, <1>9 DEF Inv

-----------------------------------------------------------------------------
(* The theorems.                                                           *)

\* The inductive invariant: the flock excludes (LockInv), a stamp that still
\* agrees under it stands for the bytes of the plan (PlanInv), attempts and
\* their journals keep their identity through publication, power losses and
\* rollbacks (IdInv), and a journal of a replacement under way records the
\* bytes of its plan (JournalInv).
THEOREM Invariance == Spec => []Inv
<1>1. Inv /\ [Next]_vars => Inv'
  <2>1. SUFFICES ASSUME Inv, [Next]_vars PROVE Inv'
    OBVIOUS
  <2>2. CASE UNCHANGED vars
    BY <2>1, <2>2 DEF vars, Inv, TypeOK, IdInv, LockInv, PlanInv, JournalInv,
      Records, Old
  <2>3. QED
    BY <2>1, <2>2, NextInv
<1>2. QED
  BY <1>1, InitInv, PTL DEF Spec

\* The state keeps its types through every failure, kill and power loss: in
\* particular no length goes below zero in a truncation, no locator or journal
\* is made of undefined fields, and control stays at a step of the code.
THEOREM TypeCorrect == Spec => []TypeOK
<1>1. Inv => TypeOK
  BY DEF Inv
<1>2. QED
  BY <1>1, Invariance, PTL

\* flock(LOCK_EX): of the processes on one archive at most one is between the
\* lock and the return of replace or recover.
THEOREM MutualExclusion ==
  Spec => [](\A p, q \in Procs :
               pc[p] \in LockedSteps /\ pc[q] \in LockedSteps => p = q)
<1>1. Inv => \A p, q \in Procs :
                pc[p] \in LockedSteps /\ pc[q] \in LockedSteps => p = q
  BY DEF Inv, LockInv
<1>2. QED
  BY <1>1, Invariance, PTL

\* What the inductive invariant says of a journal's old version.
LEMMA InvNoLostUpdate == ASSUME Inv PROVE NoLostUpdate
<1>1. SUFFICES ASSUME NEW p \in Procs,
                      job[p].op = "replace", job[p].hdr # NoJournal
               PROVE  Same(job[p].hdr.pre, job[p].base)
  BY DEF NoLostUpdate
<1>2. job[p].hdr.pre = job[p].base
  BY <1>1 DEF Inv, JournalInv, Records
<1>3. job[p].base.n \in Nat
  BY <1>1 DEF Inv, TypeOK, Job, Tail
<1>4. QED
  BY <1>2, <1>3 DEF Same, Prefix

\* A replacement journals, and so overwrites, exactly the bytes its plan was
\* made from, for any number of processes, names, versions, replacements and
\* faults: the stamp is checked after the flock is taken, and no process
\* writes the archive without it.
THEOREM NoLostUpdateHolds == Spec => []NoLostUpdate
<1>1. Inv => NoLostUpdate
  BY InvNoLostUpdate
<1>2. QED
  BY <1>1, Invariance, PTL

-----------------------------------------------------------------------------
(* The disk under crashes: the invariant CrashInv.                         *)

\* The archive has one name, so its journal has one place.
OneName == \E d : Dirs = {d}
Dir == CHOOSE d \in Dirs : TRUE

\* The journal as the running system sees it, and as a power loss leaves it.
here == entry[Dir]
kept == dentry[Dir]

\* A journal that names two whole versions, and a tail from which it can be
\* carried on to one of them.
Good(j) == Whole(j.pre) /\ Whole(j.new)
Leads(t, j) == Prefix(t, j.pre) \/ Prefix(t, j.new)

\* The tail f in memory only extends the durable s, or has just been cut off.
Grown(s, f) == f.n = 0 \/ (s.src = f.src /\ s.n <= f.n)

\* Nothing of the bytes is waiting for an fsync; both copies of the locator
\* are in S; the journal j is durable.
Level == stable.tail = file.tail /\ Whole(file.tail)
Marks(S) == file.marker.st \in S /\ stable.marker.st \in S
Durable(j) == j # NoJournal /\ here = j /\ kept = j /\ Good(j)

\* No bytes were touched: a journal, if there is one, has what is on disk as
\* its old version, and the locator is not past prepared.
RestDisk ==
  /\ Level
  /\ here # NoJournal => Good(here) /\ Same(file.tail, here.pre)
  /\ kept # NoJournal => Good(kept) /\ Same(file.tail, kept.pre)
  /\ Marks({"-", "P", "D"})
  /\ here # NoJournal \/ kept # NoJournal => Marks({"-", "P"})

\* The bytes are being written over: the journal is durable and leads on from
\* whatever is there.
PendingDisk ==
  /\ Durable(here)
  /\ Marks({"-", "P", "A"})
  /\ Grown(stable.tail, file.tail)
  /\ Leads(file.tail, here) /\ Leads(stable.tail, here)

\* The new version is durable and decided; the journal is still there.
CompleteDisk ==
  /\ Durable(here)
  /\ file.marker.st \in {"C", "D"} /\ stable.marker.st \in {"A", "C", "D"}
  /\ Level /\ Same(file.tail, here.new)

\* The journal is unlinked and the unlink not yet durable: the done locator
\* stands in for it.
DoneDisk ==
  /\ here = NoJournal /\ kept # NoJournal /\ Good(kept)
  /\ Marks({"D"})
  /\ Level /\ Same(file.tail, kept.new)

\* One of the four.
DiskInv == RestDisk \/ PendingDisk \/ CompleteDisk \/ DoneDisk

\* The control points by what the call may have done so far.
BeforePublish == {"check", "build", "markP", "publish"}
Rewrites == {"trunc", "truncSync", "write", "writeSync", "markC"}
Published == {"syncPub", "markA"} \cup Rewrites \cup {"hook", "markD", "unlink"}
Restoring == {"rbTrunc", "rbTruncSync", "rbCopy", "rbTimes", "rbSync"}

\* The plan: whole versions only, and a journal carries its own new version.
PlanOf(p) ==
  /\ pc[p] = "idle" => job[p].op = "none"
  /\ job[p].op = "replace" =>
       /\ Whole(job[p].new)
       /\ job[p].hdr # NoJournal => job[p].hdr.new = job[p].new

\* The stages run records tell where it is.
FlagsOf(p) ==
  /\ pc[p] \in {"lock"} \cup BeforePublish =>
       ~job[p].published /\ ~job[p].completed /\ ~job[p].unlinked /\ ~job[p].synced
  /\ pc[p] \in Published =>
       job[p].published /\ ~job[p].unlinked /\ ~job[p].synced /\ job[p].hdr # NoJournal
  /\ pc[p] \in {"syncPub", "markA"} \cup Rewrites => ~job[p].completed
  /\ pc[p] = "unlinkSync" => job[p].published /\ job[p].unlinked /\ ~job[p].synced
  /\ pc[p] = "clear" => job[p].published /\ job[p].unlinked /\ job[p].synced

\* Up to the active locator the bytes are those of the plan.
PrepareInv(p) ==
  /\ pc[p] \in {"build", "markP"} => file.marker.st = "-"
  /\ pc[p] \in {"markP", "publish"} =>
       /\ job[p].hdr # NoJournal
       /\ job[p].hdr.pre = file.tail /\ file.tail = job[p].base
  /\ pc[p] \in {"publish", "syncPub", "markA"} => Marks({"P"}) /\ stable.tail = file.tail
  /\ pc[p] \in {"syncPub", "markA"} => RestDisk /\ here = job[p].hdr
  /\ pc[p] = "markA" => kept = job[p].hdr

\* While the bytes are written over the journal is durable.
RewriteInv(p) ==
  /\ pc[p] \in Rewrites => Durable(job[p].hdr) /\ PendingDisk /\ Marks({"A"})
  /\ pc[p] = "truncSync" => file.tail.src = job[p].new.src /\ file.tail.n = 0
  /\ pc[p] = "write" => /\ file.tail.src = job[p].new.src /\ stable.tail.src = file.tail.src
                        /\ stable.tail.n <= file.tail.n /\ file.tail.n <= job[p].new.n
  /\ pc[p] \in {"writeSync", "markC"} => file.tail = job[p].new
  /\ pc[p] = "markC" => stable.tail = file.tail

\* After the complete locator the new version is on disk, and the journal goes
\* only under a durable done locator.
CompleteInv(p) ==
  /\ pc[p] \in {"hook", "markD", "unlink"} =>
       CompleteDisk /\ here = job[p].hdr /\ Marks({IF pc[p] = "unlink" THEN "D" ELSE "C"})
  /\ pc[p] \in {"unlinkSync", "clear"} => here = NoJournal /\ Marks({"D"})
                                          /\ Same(file.tail, job[p].new)
  /\ pc[p] = "clear" => kept = NoJournal

\* What finish_failed relies on, by the stage that failed.
FailedInv(p) ==
  IF ~job[p].published
  THEN file.marker.st \in {"-", "P"} /\ file.tail = job[p].base /\ ~job[p].completed
  ELSE IF job[p].unlinked
  THEN /\ here = NoJournal /\ Same(file.tail, job[p].new)
       /\ file.marker.st \in {"-", "D"}
       /\ IF job[p].synced THEN kept = NoJournal ELSE Marks({"D"})
  ELSE /\ here = job[p].hdr /\ job[p].hdr # NoJournal
       /\ job[p].completed => file.marker.st \in {"C", "D"}

\* The branches of finish_failed.
CleanupInv(p) ==
  /\ pc[p] = "failed" => FailedInv(p)
  /\ pc[p] = "dropMarker" => /\ file.marker.st \in {"-", "P"}
                             /\ file.tail = job[p].base
  /\ pc[p] \in {"doneSync", "doneClear"} =>
       here = NoJournal /\ Same(file.tail, job[p].new) /\ file.marker.st \in {"-", "D"}
  /\ pc[p] = "doneSync" => Marks({"D"})
  /\ pc[p] = "doneClear" => kept = NoJournal

\* The steps of a recovery: while it restores, the journal leads; after that the
\* archive is the version the journal decided on.
RollbackInv(p) ==
  /\ pc[p] \in {"staleSync", "staleClear"} => file.marker.st = "P"
  /\ pc[p] = "validate" =>
       /\ job[p].complete <=> file.marker.st \in {"C", "D"}
       /\ job[p].op = "replace" => here = job[p].hdr /\ here # NoJournal
  /\ pc[p] \in RollbackSteps => job[p].op \in {"replace", "recover"}
  /\ pc[p] \in Restoring \cup {"rbMark", "rbHook", "rbMarkD", "rbUnlink"} =>
       here = job[p].hdr
  /\ pc[p] \in Restoring => ~job[p].complete /\ PendingDisk
  /\ pc[p] = "rbTruncSync" => file.tail.src = job[p].hdr.pre.src /\ file.tail.n = 0
  /\ pc[p] = "rbCopy" => /\ file.tail.src = job[p].hdr.pre.src
                         /\ stable.tail.src = file.tail.src
                         /\ stable.tail.n <= file.tail.n /\ file.tail.n <= job[p].hdr.pre.n
  /\ pc[p] \in {"rbTimes", "rbSync"} => file.tail = job[p].hdr.pre
  /\ pc[p] \in RollbackSteps \ (Restoring \cup {"validate"}) =>
       IF job[p].complete
       THEN /\ file.marker.st \in {"C", "D"} /\ Same(file.tail, job[p].hdr.new)
       ELSE /\ file.marker.st \notin {"C", "D"} /\ Same(file.tail, job[p].hdr.pre)
  /\ pc[p] = "rbHook" => Marks(IF job[p].complete THEN {"C"} ELSE {"P"})
  /\ pc[p] \in {"rbHook", "rbUnlink"} /\ ~job[p].complete => RestDisk
  /\ pc[p] = "rbMarkD" => job[p].complete /\ Marks({"C"})
  /\ pc[p] \in {"rbUnlink", "rbUnlinkSync", "rbClear"} =>
       Marks(IF job[p].complete THEN {"D"} ELSE {"P"})
  /\ pc[p] \in {"rbUnlinkSync", "rbClear"} => here = NoJournal
  /\ pc[p] = "rbClear" => kept = NoJournal

\* What a call counts on at its control point.
CallInv(p) == /\ PlanOf(p) /\ FlagsOf(p) /\ PrepareInv(p) /\ RewriteInv(p)
              /\ CompleteInv(p) /\ CleanupInv(p) /\ RollbackInv(p)

\* The inductive invariant.
CrashInv == DiskInv /\ \A p \in Procs : CallInv(p)

-----------------------------------------------------------------------------

(* Bytes.                                                                  *)

\* Full versions are tails.
LEMMA FullType ==
  ASSUME NEW c \in Contents
  PROVE  Full(c) \in Tail
BY DEF Full, Tail

\* A copy that is not shorter than its source, and grew along it, is the source.
LEMMA WrittenOut ==
  ASSUME NEW t \in Tail, NEW u \in Tail, t.src = u.src, t.n <= u.n, ~(t.n < u.n)
  PROVE  t = u
<1>1. ASSUME NEW i \in Nat, NEW k \in Nat, i <= k, ~(i < k) PROVE i = k
  BY <1>1
<1>2. t.n = u.n
  BY <1>1 DEF Tail
<1>3. QED
  BY <1>2 DEF Tail

\* Same is an equivalence of tails: common prefixes compose.
LEMMA SameRefl ==
  ASSUME NEW t \in Tail
  PROVE  Same(t, t) /\ Prefix(t, t)
BY DEF Same, Prefix, Tail

\* It is symmetric.
LEMMA SameSym ==
  ASSUME NEW t \in Tail, NEW u \in Tail, Same(t, u)
  PROVE  Same(u, t)
BY PrefixAssumption DEF Same, Prefix, Tail

\* A prefix of a prefix is a prefix: common prefixes are ultrametric.
LEMMA PrefixTrans ==
  ASSUME NEW t \in Tail, NEW u \in Tail, NEW v \in Tail,
         Prefix(t, u), Prefix(u, v)
  PROVE  Prefix(t, v)
<1>1. CASE t.n = 0
  BY <1>1 DEF Prefix, Tail
<1>2. CASE t.src = u.src \/ u.src = v.src
  BY <1>2 DEF Prefix, Tail
<1>3. CASE t.n # 0 /\ t.src # u.src /\ u.src # v.src
  <2>1. /\ t.src \in Contents /\ u.src \in Contents /\ v.src \in Contents
        /\ t.n <= Common[t.src][u.src] /\ t.n <= Common[u.src][v.src]
        /\ t.n <= v.n
    BY <1>3 DEF Prefix, Tail
  <2>2. t.n <= Common[t.src][v.src]
    BY <2>1, PrefixAssumption DEF Tail
  <2>3. QED
    BY <2>1, <2>2 DEF Prefix
<1>4. QED
  BY <1>1, <1>2, <1>3

\* Same is transitive.
LEMMA SameTrans ==
  ASSUME NEW t \in Tail, NEW u \in Tail, NEW v \in Tail,
         Same(t, u), Same(u, v)
  PROVE  Same(t, v)
BY PrefixTrans DEF Same

\* Which versions a tail holds depends on its bytes alone.
LEMMA SameWhole ==
  ASSUME NEW t \in Tail, NEW u \in Tail, Same(t, u)
  PROVE  /\ Whole(t) <=> Whole(u)
         /\ VersionOf(t) = VersionOf(u)
<1>1. ASSUME NEW c \in Contents
      PROVE  Same(t, Full(c)) <=> Same(u, Full(c))
  BY FullType, SameSym, SameTrans
<1>2. Whole(t) <=> Whole(u)
  BY <1>1 DEF Whole
<1>3. (CHOOSE c \in Contents : Same(t, Full(c)))
        = (CHOOSE c \in Contents : Same(u, Full(c)))
  BY <1>1
<1>4. CASE Whole(t)
  <2>1. VersionOf(t) = CHOOSE c \in Contents : Same(t, Full(c))
    BY <1>4, Zenon DEF VersionOf
  <2>2. VersionOf(u) = CHOOSE c \in Contents : Same(u, Full(c))
    BY <1>2, <1>4, Zenon DEF VersionOf
  <2>3. QED
    BY <1>2, <1>3, <2>1, <2>2, Zenon
<1>5. CASE ~Whole(t)
  BY <1>2, <1>5, Zenon DEF VersionOf
<1>6. QED
  BY <1>2, <1>4, <1>5

\* A whole archive has a version.
LEMMA WholeVersion ==
  ASSUME NEW t, Whole(t)
  PROVE  VersionOf(t) \in Contents
BY DEF Whole, VersionOf

\* A full version is whole.
LEMMA FullWhole ==
  ASSUME NEW c \in Contents
  PROVE  Whole(Full(c))
BY FullType, SameRefl DEF Whole

\* A power loss leaves what is level as it is.
LEMMA LevelImages ==
  ASSUME NEW f \in Tail, NEW t \in TailImages(f, f)
  PROVE  t = f
<1>1. CASE t \in {[src |-> f.src, n |-> k] : k \in f.n .. f.n}
  <2>1. t = [src |-> f.src, n |-> f.n]
    BY <1>1 DEF Tail
  <2>2. QED
    BY <2>1 DEF Tail
<1>2. QED
  BY <1>1 DEF TailImages

\* A write in progress that only grows, or starts from nothing, is torn into
\* prefixes of itself.
LEMMA GrownImages ==
  ASSUME NEW s \in Tail, NEW f \in Tail, Grown(s, f), NEW t \in TailImages(s, f)
  PROVE  t = s \/ Prefix(t, f)
<1>1. CASE t \in {[src |-> f.src, n |-> k] : k \in {i \in s.n .. f.n : s.src = f.src}}
  <2>1. PICK k \in s.n .. f.n : t = [src |-> f.src, n |-> k]
    BY <1>1
  <2>2. QED
    BY <2>1 DEF Prefix, Tail
<1>2. CASE t = f
  BY <1>2, SameRefl
<1>3. QED
  BY <1>1, <1>2 DEF TailImages, Grown

\* Whatever it is torn into, the journal leads on from it.
LEMMA LeadsImages ==
  ASSUME NEW s \in Tail, NEW f \in Tail, Grown(s, f), NEW t \in TailImages(s, f),
         NEW j \in Journal, Leads(s, j), Leads(f, j)
  PROVE  Leads(t, j)
<1>1. j.pre \in Tail /\ j.new \in Tail /\ t \in Tail
  BY ImageType DEF Journal
<1>2. QED
  BY <1>1, GrownImages, PrefixTrans DEF Leads

-----------------------------------------------------------------------------
(* One directory: the journal is here or it is nowhere.                    *)

\* The only name of the archive.
LEMMA OneDir ==
  ASSUME OneName
  PROVE  Dir \in Dirs /\ \A d \in Dirs : d = Dir
BY DEF OneName, Dir

\* What a lookup, a sync, an unlink and a publication do there.
LEMMA HereNames ==
  ASSUME OneName, NEW path
  PROVE  /\ DirExists(path) <=> pathOf[Dir] = path
         /\ JournalAt(path) <=> pathOf[Dir] = path /\ here # NoJournal
BY OneDir DEF DirExists, JournalAt, here

\* An fsync of the directory makes what it shows durable.
LEMMA HereSync ==
  ASSUME OneName, TypeOK, NEW path, SyncParent(path)
  PROVE  here' = here /\ kept' = here
BY OneDir DEF SyncParent, DirExists, here, kept

\* An unlink takes the journal from the running system only.
LEMMA HereRemove ==
  ASSUME OneName, TypeOK, NEW path, Remove(path)
  PROVE  here # NoJournal /\ here' = NoJournal /\ kept' = kept
BY OneDir DEF Remove, JournalAt, here, kept

\* Both copies of the directory hold a journal or nothing.
LEMMA HereType ==
  ASSUME OneName, TypeOK
  PROVE  here \in Journal \cup {NoJournal} /\ kept \in Journal \cup {NoJournal}
BY OneDir DEF TypeOK, here, kept

-----------------------------------------------------------------------------
(* Writes of the inode.                                                    *)

\* A locator written through makes the tail durable with it.
LEMMA MarkThrough ==
  ASSUME TypeOK, NEW p \in Procs, NEW st, WriteThrough(Marked(p, st))
  PROVE  /\ file'.tail = file.tail /\ stable'.tail = file.tail
         /\ file'.marker.st = st /\ stable'.marker.st = st
BY DEF TypeOK, Inode, WriteThrough, Marked

\* A locator whose fsync failed is set in memory alone.
LEMMA MarkHalf ==
  ASSUME TypeOK, NEW p \in Procs, NEW st, WriteInode(Marked(p, st))
  PROVE  /\ file'.tail = file.tail /\ stable' = stable
         /\ file'.marker.st = st
BY DEF TypeOK, Inode, WriteInode, Marked

-----------------------------------------------------------------------------
(* Calls.                                                                  *)

\* Nobody's call is disturbed by a step of another process: the flock is what
\* lets one change the disk.
LEMMA OthersKeep ==
  ASSUME Inv, NEW p \in Procs, NEW q \in Procs, q # p, CallInv(q), Others(p),
         \/ file' = file /\ stable' = stable /\ here' = here /\ kept' = kept
         \/ pc[p] \in LockedSteps
  PROVE  CallInv(q)'
<1>1. pc'[q] = pc[q] /\ job'[q] = job[q]
  BY DEF Others
<1>2. CASE pc[p] \in LockedSteps
  <2>1. pc[q] \notin LockedSteps
    BY <1>2 DEF Inv, LockInv
  <2>2. PlanOf(q)' /\ FlagsOf(q)'
    BY <1>1 DEF CallInv, PlanOf, FlagsOf
  <2>3. PrepareInv(q)' /\ RewriteInv(q)' /\ CompleteInv(q)' /\ CleanupInv(q)' /\ RollbackInv(q)'
    BY <1>1, <2>1 DEF PrepareInv, RewriteInv, CompleteInv, CleanupInv,
      RollbackInv, LockedSteps, RunSteps, CleanupSteps, RecoverSteps,
      RollbackSteps, Rewrites, Restoring
  <2>4. QED
    BY <2>2, <2>3 DEF CallInv
<1>3. CASE file' = file /\ stable' = stable /\ here' = here /\ kept' = kept
  BY <1>1, <1>3 DEF CallInv, PlanOf, FlagsOf, PrepareInv, RewriteInv,
    CompleteInv, CleanupInv, RollbackInv, FailedInv, RestDisk, PendingDisk,
    CompleteDisk, Durable, Level, Marks
<1>4. QED
  BY <1>2, <1>3

\* A call that returned has nothing to keep.
LEMMA CallDone ==
  ASSUME TypeOK, NEW p \in Procs, NEW r, Return(p, r)
  PROVE  CallInv(p)'
<1>1. pc'[p] = "idle" /\ job'[p] = NoJob /\ NoJob.op = "none"
  BY DEF TypeOK, Return, NoJob
<1>2. QED
  BY <1>1 DEF CallInv, PlanOf, FlagsOf, PrepareInv, RewriteInv, CompleteInv,
    CleanupInv, RollbackInv, BeforePublish, Published, Rewrites, Restoring,
    RollbackSteps

\* A disk left alone keeps its state.
LEMMA DiskStays ==
  ASSUME DiskInv, file' = file, stable' = stable, here' = here, kept' = kept
  PROVE  DiskInv'
BY DEF DiskInv, RestDisk, PendingDisk, CompleteDisk, DoneDisk, Durable,
  Level, Marks

\* The prepared locator: the archive is at rest.
LEMMA PreparedKeeps ==
  ASSUME OneName, Inv, DiskInv, NEW p \in Procs, CallInv(p), MarkPrepared(p)
  PROVE  DiskInv' /\ CallInv(p)'
<1>1. /\ pc[p] = "markP" /\ pc'[p] = "publish" /\ here' = here /\ kept' = kept
      /\ job'[p] = [job[p] EXCEPT !.prepared = TRUE] /\ job[p] \in Job
  BY DEF MarkPrepared, At, Continue, Goto, here, kept, Inv, TypeOK
<1>2. /\ file'.tail = file.tail /\ stable'.tail = file.tail
      /\ file'.marker.st = "P" /\ stable'.marker.st = "P"
  BY MarkThrough DEF MarkPrepared, Inv
<1>3. DiskInv'
  BY <1>1, <1>2, HdrType DEF Inv, Tail, Grown, DiskInv, RestDisk,
    PendingDisk, CompleteDisk, DoneDisk, Durable, Level, Marks, CallInv,
    PrepareInv
<1>4. CallInv(p)'
  BY <1>1, <1>2 DEF CallInv, PlanOf, FlagsOf, PrepareInv, RewriteInv,
    CompleteInv, CleanupInv, RollbackInv, BeforePublish, Published, Rewrites,
    Restoring, RollbackSteps, Marks, Job
<1>5. QED
  BY <1>3, <1>4

\* The journal gets its name over an archive at rest.
LEMMA PublishKeeps ==
  ASSUME OneName, Inv, DiskInv, NEW p \in Procs, CallInv(p), pc[p] = "publish",
         DirExists(job[p].jpath), ~JournalAt(job[p].jpath),
         entry' = [d \in Dirs |->
                     IF pathOf[d] = job[p].jpath THEN job[p].hdr ELSE entry[d]],
         UNCHANGED <<file, stable, dentry>>
  PROVE  /\ here = NoJournal /\ here' = job[p].hdr /\ kept' = kept
         /\ RestDisk'
<1>1. here = NoJournal /\ here' = job[p].hdr /\ kept' = kept
  BY OneDir, HereNames DEF DirExists, here, kept
<1>2. /\ job[p].hdr # NoJournal /\ job[p].hdr.pre = file.tail
      /\ job[p].hdr.new = job[p].new /\ Whole(job[p].new)
  BY DEF CallInv, PrepareInv, PlanOf, Inv, IdInv, ReplaceSteps, RunSteps
<1>3. RestDisk /\ Marks({"P"})
  BY <1>1, <1>2 DEF CallInv, PrepareInv, DiskInv, RestDisk, PendingDisk,
    CompleteDisk, DoneDisk, Durable, Level, Marks
<1>4. QED
  BY <1>1, <1>2, <1>3, HdrType, SameRefl DEF Inv, RestDisk, Level, Good, Marks

\* Publish.
LEMMA PublishedKeeps ==
  ASSUME OneName, Inv, DiskInv, NEW p \in Procs, CallInv(p), Publish(p)
  PROVE  DiskInv' /\ CallInv(p)'
<1>1. /\ pc[p] = "publish" /\ pc'[p] = "syncPub"
      /\ job'[p] = [job[p] EXCEPT !.published = TRUE] /\ job[p] \in Job
  BY DEF Publish, At, Continue, Goto, Inv, TypeOK
<1>2. here' = job[p].hdr /\ RestDisk'
  BY PublishKeeps DEF Publish, At
<1>3. CallInv(p)'
  BY <1>1, <1>2 DEF Publish, CallInv, PlanOf, FlagsOf, PrepareInv,
    RewriteInv, CompleteInv, CleanupInv, RollbackInv, BeforePublish,
    Published, Rewrites, Restoring, RollbackSteps, Marks, Job
<1>4. QED
  BY <1>2, <1>3 DEF DiskInv

\* The publication is synced: the journal is durable, the bytes untouched.
LEMMA SyncPublishedKeeps ==
  ASSUME OneName, Inv, DiskInv, NEW p \in Procs, CallInv(p), SyncPublished(p)
  PROVE  DiskInv' /\ CallInv(p)'
<1>1. /\ pc[p] = "syncPub" /\ pc'[p] = "markA" /\ job' = job
      /\ file' = file /\ stable' = stable
  BY DEF SyncPublished, At, Continue, Goto, Inv, TypeOK
<1>2. here' = here /\ kept' = here
  BY HereSync DEF SyncPublished, Inv
<1>3. RestDisk'
  BY <1>1, <1>2 DEF CallInv, PrepareInv, RestDisk, Level, Marks
<1>4. CallInv(p)'
  BY <1>1, <1>2, <1>3 DEF CallInv, PlanOf, FlagsOf, PrepareInv, RewriteInv,
    CompleteInv, CleanupInv, RollbackInv, BeforePublish, Published, Rewrites,
    Restoring, RollbackSteps, Marks
<1>5. QED
  BY <1>3, <1>4 DEF DiskInv

\* The active locator: from here on the journal decides.
LEMMA ActiveKeeps ==
  ASSUME OneName, Inv, DiskInv, NEW p \in Procs, CallInv(p), MarkActive(p)
  PROVE  DiskInv' /\ CallInv(p)'
<1>1. /\ pc[p] = "markA" /\ pc'[p] = "trunc" /\ job' = job /\ here' = here /\ kept' = kept
  BY DEF MarkActive, At, Continue, Goto, Inv, TypeOK, here, kept
<1>2. /\ file'.tail = file.tail /\ stable'.tail = file.tail
      /\ file'.marker.st = "A" /\ stable'.marker.st = "A"
  BY MarkThrough DEF MarkActive, Inv
<1>3. PendingDisk' /\ Durable(job[p].hdr)'
  BY <1>1, <1>2, HdrType DEF CallInv, FlagsOf, Published, PrepareInv,
    RestDisk, PendingDisk, Durable, Leads, Same, Marks, Grown, Inv, Tail
<1>4. CallInv(p)'
  BY <1>1, <1>2, <1>3 DEF CallInv, PlanOf, FlagsOf, PrepareInv, RewriteInv,
    CompleteInv, CleanupInv, RollbackInv, BeforePublish, Published, Rewrites,
    Restoring, RollbackSteps, Marks
<1>5. QED
  BY <1>3, <1>4 DEF DiskInv

\* The bytes are written over: each write leaves a prefix of the new version
\* under a durable journal.
LEMMA TruncateKeeps ==
  ASSUME OneName, Inv, DiskInv, NEW p \in Procs, CallInv(p), Truncate(p)
  PROVE  DiskInv' /\ CallInv(p)'
<1>1. /\ pc[p] = "trunc" /\ pc'[p] = "truncSync" /\ job' = job /\ here' = here /\ kept' = kept
  BY DEF Truncate, At, Continue, Goto, Inv, TypeOK, here, kept
<1>2. /\ file'.tail = [src |-> job[p].new.src, n |-> 0] /\ file'.marker = file.marker
      /\ stable' = stable
  BY DEF Truncate, WriteInode, Truncated, Inv, TypeOK, Inode
<1>3. PendingDisk' /\ Durable(job[p].hdr)' /\ Marks({"A"})'
  BY <1>1, <1>2, HereType DEF CallInv, RewriteInv, Rewrites, PendingDisk,
    Durable, Leads, Prefix, Marks, Grown, Inv, Journal, Tail
<1>4. CallInv(p)'
  BY <1>1, <1>2, <1>3 DEF CallInv, PlanOf, FlagsOf, PrepareInv, RewriteInv,
    CompleteInv, CleanupInv, RollbackInv, BeforePublish, Published, Rewrites,
    Restoring, RollbackSteps, Marks
<1>5. QED
  BY <1>3, <1>4 DEF DiskInv

\* The cut is made durable: nothing of the old version is left in the way.
LEMMA SyncTruncateKeeps ==
  ASSUME OneName, Inv, DiskInv, NEW p \in Procs, CallInv(p), SyncTruncate(p)
  PROVE  DiskInv' /\ CallInv(p)'
<1>1. /\ pc[p] = "truncSync" /\ pc'[p] = "write" /\ job' = job /\ here' = here /\ kept' = kept
      /\ file' = file /\ stable' = file
  BY DEF SyncTruncate, SyncInode, At, Continue, Goto, Inv, TypeOK, here, kept
<1>2. PendingDisk' /\ Durable(job[p].hdr)' /\ Marks({"A"})'
  BY <1>1 DEF CallInv, RewriteInv, Rewrites, PendingDisk, Durable, Marks,
    Grown
<1>3. CallInv(p)'
  BY <1>1, <1>2, HdrType DEF CallInv, PlanOf, FlagsOf, PrepareInv,
    RewriteInv, CompleteInv, CleanupInv, RollbackInv, BeforePublish,
    Published, Rewrites, Restoring, RollbackSteps, Marks, Inv, Tail
<1>4. QED
  BY <1>2, <1>3 DEF DiskInv

\* A chunk grows the new version; the last one completes it.
LEMMA WriteKeeps ==
  ASSUME OneName, Inv, DiskInv, NEW p \in Procs, CallInv(p), WriteChunk(p)
  PROVE  DiskInv' /\ CallInv(p)'
<1>1. /\ pc[p] = "write" /\ job' = job /\ here' = here /\ kept' = kept /\ stable' = stable
  BY DEF WriteChunk, WriteInode, At, here, kept
<1>2. /\ job[p].hdr \in Journal /\ job[p].hdr.new = job[p].new /\ here = job[p].hdr
      /\ job[p].new \in Tail /\ file.tail \in Tail /\ stable.tail \in Tail
  BY <1>1, HdrType DEF CallInv, PlanOf, RewriteInv, Rewrites, Durable, Inv,
    IdInv, ReplaceSteps, RunSteps
<1>3. CASE file.tail.n < job[p].new.n
  <2>1. /\ pc'[p] = "write" /\ file'.tail = [src |-> file.tail.src, n |-> file.tail.n + 1]
        /\ file'.marker = file.marker
    <3>1. PICK t \in Times : file' = [Appended EXCEPT !.mtime = t]
      BY <1>3 DEF WriteChunk, WriteInode
    <3>2. file \in Inode
      BY DEF Inv, TypeOK
    <3>3. pc'[p] = "write"
      BY <1>1, <1>3 DEF WriteChunk, Continue, Goto, Inv, TypeOK
    <3>4. QED
      BY <3>1, <3>2, <3>3 DEF Appended, Inode
  <2>2. PendingDisk' /\ Durable(job[p].hdr)' /\ Marks({"A"})'
    <3>1. /\ Durable(here) /\ Marks({"A"}) /\ Leads(stable.tail, here)
          /\ file.tail.src = job[p].new.src /\ stable.tail.src = file.tail.src
          /\ stable.tail.n <= file.tail.n
      BY <1>1, <1>2 DEF CallInv, RewriteInv, Rewrites, PendingDisk
    <3>2. Durable(here)' /\ Durable(job[p].hdr)' /\ Marks({"A"})'
      BY <1>1, <1>2, <2>1, <3>1 DEF Durable, Marks
    <3>3. Grown(stable.tail, file.tail)'
      BY <1>1, <1>2, <2>1, <3>1 DEF Grown, Tail
    <3>4. Leads(file.tail, here)'
      BY <1>1, <1>2, <1>3, <2>1, <3>1 DEF Leads, Prefix, Tail
    <3>5. QED
      BY <1>1, <3>1, <3>2, <3>3, <3>4 DEF PendingDisk, Marks, Leads
  <2>3. CallInv(p)'
    BY <1>1, <1>2, <1>3, <2>1, <2>2 DEF CallInv, PlanOf, FlagsOf, PrepareInv,
      RewriteInv, CompleteInv, CleanupInv, RollbackInv, BeforePublish,
      Published, Rewrites, Restoring, RollbackSteps, Marks, Tail
  <2>4. QED
    BY <2>2, <2>3 DEF DiskInv
<1>4. CASE ~(file.tail.n < job[p].new.n)
  <2>1. pc'[p] = "writeSync" /\ file' = file
    BY <1>1, <1>4 DEF WriteChunk, Continue, Goto, Inv, TypeOK
  <2>2. file.tail.src = job[p].new.src /\ file.tail.n <= job[p].new.n
    BY <1>1 DEF CallInv, RewriteInv
  <2>3. file.tail = job[p].new
    BY <1>2, <1>4, <2>2, WrittenOut
  <2>4. CallInv(p)'
    BY <1>1, <2>1, <2>3 DEF CallInv, PlanOf, FlagsOf, PrepareInv, RewriteInv,
      CompleteInv, CleanupInv, RollbackInv, BeforePublish, Published,
      Rewrites, Restoring, RollbackSteps, Marks, PendingDisk, Durable
  <2>5. QED
    BY <1>1, <2>1, <2>4, DiskStays
<1>5. QED
  BY <1>3, <1>4

\* The whole new version is durable.
LEMMA SyncWriteKeeps ==
  ASSUME OneName, Inv, DiskInv, NEW p \in Procs, CallInv(p), SyncWrite(p)
  PROVE  DiskInv' /\ CallInv(p)'
<1>1. /\ pc[p] = "writeSync" /\ pc'[p] = "markC" /\ job' = job /\ here' = here /\ kept' = kept
      /\ file' = file /\ stable' = file
  BY DEF SyncWrite, SyncInode, At, Continue, Goto, Inv, TypeOK, here, kept
<1>2. PendingDisk' /\ Durable(job[p].hdr)' /\ Marks({"A"})'
  BY <1>1, HdrType DEF CallInv, RewriteInv, Rewrites, PendingDisk, Durable,
    Marks, Grown, Inv, Tail
<1>3. CallInv(p)'
  BY <1>1, <1>2 DEF CallInv, PlanOf, FlagsOf, PrepareInv, RewriteInv,
    CompleteInv, CleanupInv, RollbackInv, BeforePublish, Published, Rewrites,
    Restoring, RollbackSteps
<1>4. QED
  BY <1>2, <1>3 DEF DiskInv

\* The complete locator: the new version is decided.
LEMMA CompleteKeeps ==
  ASSUME OneName, Inv, DiskInv, NEW p \in Procs, CallInv(p), MarkComplete(p)
  PROVE  DiskInv' /\ CallInv(p)'
<1>1. /\ pc[p] = "markC" /\ pc'[p] = "hook" /\ here' = here /\ kept' = kept
      /\ job'[p] = [job[p] EXCEPT !.completed = TRUE] /\ job[p] \in Job
  BY DEF MarkComplete, At, Continue, Goto, here, kept, Inv, TypeOK
<1>2. /\ file'.tail = file.tail /\ stable'.tail = file.tail
      /\ file'.marker.st = "C" /\ stable'.marker.st = "C"
  BY MarkThrough DEF MarkComplete, Inv
<1>3. /\ file.tail = job[p].hdr.new /\ Whole(file.tail) /\ here = job[p].hdr /\ Durable(here)
  BY <1>1 DEF CallInv, PlanOf, RewriteInv, Rewrites, Durable, Inv, IdInv,
    ReplaceSteps, RunSteps
<1>4. CompleteDisk'
  BY <1>1, <1>2, <1>3, HdrType, SameRefl DEF CompleteDisk, Durable, Level, Inv
<1>5. CallInv(p)'
  BY <1>1, <1>2, <1>3, <1>4 DEF CallInv, PlanOf, FlagsOf, PrepareInv,
    RewriteInv, CompleteInv, CleanupInv, RollbackInv, BeforePublish,
    Published, Rewrites, Restoring, RollbackSteps, Marks
<1>6. QED
  BY <1>4, <1>5 DEF DiskInv

\* The completion hook leaves the disk alone.
LEMMA HookKeeps ==
  ASSUME OneName, Inv, DiskInv, NEW p \in Procs, CallInv(p), Hook(p)
  PROVE  DiskInv' /\ CallInv(p)'
<1>1. /\ pc[p] = "hook" /\ pc'[p] = "markD" /\ job' = job /\ here' = here /\ kept' = kept
      /\ file' = file /\ stable' = stable
  BY DEF Hook, At, Continue, Goto, Inv, TypeOK, here, kept
<1>2. CallInv(p)'
  BY <1>1 DEF CallInv, PlanOf, FlagsOf, PrepareInv, RewriteInv, CompleteInv,
    CleanupInv, RollbackInv, BeforePublish, Published, Rewrites, Restoring,
    RollbackSteps, Marks, CompleteDisk, Durable, Level
<1>3. QED
  BY <1>1, <1>2, DiskStays

\* The done locator goes over the complete one.
LEMMA DoneKeeps ==
  ASSUME OneName, Inv, DiskInv, NEW p \in Procs, CallInv(p), MarkDone(p)
  PROVE  DiskInv' /\ CallInv(p)'
<1>1. /\ pc[p] = "markD" /\ pc'[p] = "unlink" /\ job' = job /\ here' = here /\ kept' = kept
  BY DEF MarkDone, At, Continue, Goto, here, kept, Inv, TypeOK
<1>2. /\ file'.tail = file.tail /\ stable'.tail = file.tail
      /\ file'.marker.st = "D" /\ stable'.marker.st = "D"
  BY MarkThrough DEF MarkDone, Inv
<1>3. CompleteDisk'
  BY <1>1, <1>2 DEF CallInv, CompleteInv, CompleteDisk, Durable, Level
<1>4. CallInv(p)'
  BY <1>1, <1>2, <1>3 DEF CallInv, PlanOf, FlagsOf, PrepareInv, RewriteInv,
    CompleteInv, CleanupInv, RollbackInv, BeforePublish, Published, Rewrites,
    Restoring, RollbackSteps, Marks
<1>5. QED
  BY <1>3, <1>4 DEF DiskInv

\* The journal goes only under a durable done locator.
LEMMA UnlinkKeeps ==
  ASSUME OneName, Inv, DiskInv, NEW p \in Procs, CallInv(p), Unlink(p)
  PROVE  DiskInv' /\ CallInv(p)'
<1>1. /\ pc[p] = "unlink" /\ pc'[p] = "unlinkSync" /\ file' = file /\ stable' = stable
      /\ job'[p] = [job[p] EXCEPT !.unlinked = TRUE] /\ job[p] \in Job
  BY DEF Unlink, At, Continue, Goto, Inv, TypeOK
<1>2. here' = NoJournal /\ kept' = kept
  BY HereRemove DEF Unlink, Inv
<1>3. DoneDisk'
  BY <1>1, <1>2 DEF CallInv, CompleteInv, CompleteDisk, DoneDisk, Durable,
    Level, Marks
<1>4. job[p].hdr.new = job[p].new
  BY <1>1 DEF CallInv, FlagsOf, Published, PlanOf, Inv, IdInv, ReplaceSteps,
    RunSteps
<1>5. CallInv(p)'
  BY <1>1, <1>2, <1>4 DEF CallInv, PlanOf, FlagsOf, PrepareInv, RewriteInv,
    CompleteInv, CleanupInv, RollbackInv, BeforePublish, Published, Rewrites,
    Restoring, RollbackSteps, Marks, CompleteDisk
<1>6. QED
  BY <1>3, <1>5 DEF DiskInv

\* With the unlink durable the archive is at rest.
LEMMA SyncUnlinkKeeps ==
  ASSUME OneName, Inv, DiskInv, NEW p \in Procs, CallInv(p), SyncUnlink(p)
  PROVE  DiskInv' /\ CallInv(p)'
<1>1. /\ pc[p] = "unlinkSync" /\ pc'[p] = "clear" /\ file' = file /\ stable' = stable
      /\ job'[p] = [job[p] EXCEPT !.synced = TRUE] /\ job[p] \in Job
  BY DEF SyncUnlink, At, Continue, Goto, Inv, TypeOK
<1>2. here' = here /\ kept' = here
  BY HereSync DEF SyncUnlink, Inv
<1>3. RestDisk'
  BY <1>1, <1>2 DEF CallInv, CompleteInv, DiskInv, RestDisk, PendingDisk,
    CompleteDisk, DoneDisk, Durable, Level, Marks
<1>4. CallInv(p)'
  BY <1>1, <1>2 DEF CallInv, PlanOf, FlagsOf, PrepareInv, RewriteInv,
    CompleteInv, CleanupInv, RollbackInv, BeforePublish, Published, Rewrites,
    Restoring, RollbackSteps, Marks, Job
<1>5. QED
  BY <1>3, <1>4 DEF DiskInv

-----------------------------------------------------------------------------
(* The locator is cleared.                                                 *)

\* fremovexattr, with or without the fsync after it, leaves the tail.
Cleared ==
  /\ file'.tail = file.tail /\ file'.marker.st = "-"
  /\ stable' = stable \/ (stable'.tail = file.tail /\ stable'.marker.st = "-")

\* Every clearing of the locator does it, synced or not.
LEMMA ClearsMarker ==
  ASSUME TypeOK,
         ClearMarker \/ WriteInode([file EXCEPT !.marker = NoMarker])
  PROVE  Cleared
BY DEF ClearMarker, WriteThrough, WriteInode, NoMarker, Cleared, TypeOK, Inode

\* A prepared locator means the journal decides without it; any other is
\* cleared only once the journal is durably gone.
LEMMA ClearKeeps ==
  ASSUME OneName, TypeOK, DiskInv, Cleared, UNCHANGED <<entry, dentry>>,
         file.marker.st \in {"-", "P"} \/ (here = NoJournal /\ kept = NoJournal)
  PROVE  DiskInv'
<1>1. here' = here /\ kept' = kept
  BY DEF here, kept
<1>2. file.tail \in Tail
  BY DEF TypeOK, Inode
<1>3. CASE RestDisk
  BY <1>1, <1>3 DEF Cleared, DiskInv, RestDisk, Level, Marks
<1>4. CASE PendingDisk
  BY <1>1, <1>2, <1>4 DEF Cleared, DiskInv, PendingDisk, Durable, Marks,
    Grown, Tail
<1>5. QED
  BY <1>3, <1>4 DEF DiskInv, CompleteDisk, DoneDisk, Durable, Marks

\* Where the code clears it.
LEMMA ClearStepKeeps ==
  ASSUME OneName, Inv, DiskInv, NEW p \in Procs, CallInv(p),
         pc[p] \in {"clear", "dropMarker", "doneClear", "staleClear", "rbClear"},
         ClearMarker \/ WriteInode([file EXCEPT !.marker = NoMarker]),
         UNCHANGED <<entry, dentry>>
  PROVE  DiskInv' /\ Cleared
<1>1. file.marker.st \in {"-", "P"} \/ (here = NoJournal /\ kept = NoJournal)
  BY DEF CallInv, CompleteInv, CleanupInv, RollbackInv
<1>2. QED
  BY <1>1, ClearsMarker, ClearKeeps DEF Inv

-----------------------------------------------------------------------------
(* finish_failed.                                                          *)

\* Each branch finds the disk the stage left.
LEMMA FinishKeeps ==
  ASSUME OneName, Inv, DiskInv, NEW p \in Procs, CallInv(p), FinishFailed(p)
  PROVE  DiskInv' /\ CallInv(p)'
<1>1. /\ pc[p] = "failed" /\ here' = here /\ kept' = kept /\ file' = file /\ stable' = stable
      /\ job[p] \in Job
  BY DEF FinishFailed, At, here, kept, Inv, TypeOK
<1>2. DiskInv'
  BY <1>1, DiskStays
<1>3. CASE ~job[p].published /\ Continue(p, "dropMarker") /\ UNCHANGED job
  <2>1. pc'[p] = "dropMarker"
    BY <1>3 DEF Continue, Goto, Inv, TypeOK
  <2>2. QED
    BY <1>1, <1>2, <1>3, <2>1 DEF CallInv, PlanOf, FlagsOf, PrepareInv,
      RewriteInv, CompleteInv, CleanupInv, RollbackInv, BeforePublish,
      Published, Rewrites, Restoring, RollbackSteps, Marks, FailedInv
<1>4. CASE /\ job[p].published /\ job[p].unlinked
           /\ Continue(p, IF job[p].synced THEN "doneClear" ELSE "doneSync")
           /\ UNCHANGED job
  <2>1. pc'[p] = IF job[p].synced THEN "doneClear" ELSE "doneSync"
    BY <1>4 DEF Continue, Goto, Inv, TypeOK
  <2>2. QED
    BY <1>1, <1>2, <1>4, <2>1 DEF CallInv, PlanOf, FlagsOf, PrepareInv,
      RewriteInv, CompleteInv, CleanupInv, RollbackInv, BeforePublish,
      Published, Rewrites, Restoring, RollbackSteps, Marks, FailedInv
<1>5. CASE Return(p, Unresolved(p))
  BY <1>2, <1>5, CallDone DEF Inv
<1>6. CASE /\ job[p].published /\ ~job[p].unlinked
           /\ job' = [job EXCEPT ![p].complete = AttemptComplete(p)]
           /\ Continue(p, "validate")
  <2>1. pc'[p] = "validate" /\ job'[p] = [job[p] EXCEPT !.complete = AttemptComplete(p)]
    BY <1>6 DEF Continue, Goto, Inv, TypeOK
  <2>2. AttemptComplete(p) <=> file.marker.st \in {"C", "D"}
    BY <1>1, <1>6 DEF AttemptComplete, RollsForward, CallInv, CleanupInv,
      FailedInv
  <2>3. job[p].op = "replace"
    BY <1>1 DEF Inv, IdInv, ReplaceSteps, CleanupSteps
  <2>4. QED
    BY <1>1, <1>2, <1>6, <2>1, <2>2, <2>3 DEF CallInv, PlanOf, FlagsOf,
      PrepareInv, RewriteInv, CompleteInv, CleanupInv, RollbackInv,
      BeforePublish, Published, Rewrites, Restoring, RollbackSteps, Marks,
      FailedInv, Job
<1>7. QED
  BY <1>3, <1>4, <1>5, <1>6 DEF FinishFailed

\* The unlink that run could not sync is synced here.
LEMMA DoneSyncKeeps ==
  ASSUME OneName, Inv, DiskInv, NEW p \in Procs, CallInv(p), DoneSync(p)
  PROVE  DiskInv' /\ CallInv(p)'
<1>1. /\ pc[p] = "doneSync" /\ pc'[p] = "doneClear" /\ file' = file /\ stable' = stable
      /\ job' = job
  BY DEF DoneSync, At, Continue, Goto, Inv, TypeOK
<1>2. here' = here /\ kept' = here
  BY HereSync DEF DoneSync, Inv
<1>3. RestDisk'
  BY <1>1, <1>2 DEF CallInv, CleanupInv, DiskInv, RestDisk, PendingDisk,
    CompleteDisk, DoneDisk, Durable, Level, Marks
<1>4. CallInv(p)'
  BY <1>1, <1>2 DEF CallInv, PlanOf, FlagsOf, PrepareInv, RewriteInv,
    CompleteInv, CleanupInv, RollbackInv, BeforePublish, Published, Rewrites,
    Restoring, RollbackSteps
<1>5. QED
  BY <1>3, <1>4 DEF DiskInv

-----------------------------------------------------------------------------
(* A call begins.                                                          *)

\* Steps before the first locator write leave the disk alone.
LEMMA StartKeeps ==
  ASSUME OneName, Inv, DiskInv, NEW p \in Procs, CallInv(p), StartReplace(p)
  PROVE  DiskInv' /\ CallInv(p)'
<1>1. /\ pc'[p] = "lock" /\ here' = here /\ kept' = kept /\ file' = file /\ stable' = stable
  BY DEF StartReplace, Goto, here, kept, Inv, TypeOK
<1>2. /\ ~job'[p].published /\ ~job'[p].completed /\ ~job'[p].unlinked /\ ~job'[p].synced
      /\ job'[p].hdr = NoJournal /\ Whole(job'[p].new)
  BY FullWhole DEF StartReplace, NoJob, Inv, TypeOK
<1>3. CallInv(p)'
  BY <1>1, <1>2 DEF CallInv, PlanOf, FlagsOf, PrepareInv, RewriteInv,
    CompleteInv, CleanupInv, RollbackInv, BeforePublish, Published, Rewrites,
    Restoring, RollbackSteps
<1>4. QED
  BY <1>1, <1>3, DiskStays

\* Taking the flock changes nothing on disk.
LEMMA LockReplaceKeeps ==
  ASSUME OneName, Inv, DiskInv, NEW p \in Procs, CallInv(p), LockReplace(p)
  PROVE  DiskInv' /\ CallInv(p)'
<1>1. /\ pc[p] = "lock" /\ here' = here /\ kept' = kept /\ file' = file /\ stable' = stable
  BY DEF LockReplace, At, here, kept
<1>2. ASSUME Return(p, "refused") PROVE CallInv(p)'
  BY <1>2, CallDone DEF Inv
<1>3. ASSUME Goto(p, "check") /\ UNCHANGED job
      PROVE  CallInv(p)'
  <2>1. pc'[p] = "check"
    BY <1>3 DEF Goto, Inv, TypeOK
  <2>2. QED
    BY <1>1, <1>3, <2>1 DEF CallInv, PlanOf, FlagsOf, PrepareInv, RewriteInv,
      CompleteInv, CleanupInv, RollbackInv, BeforePublish, Published,
      Rewrites, Restoring, RollbackSteps, Marks
<1>4. CallInv(p)'
  BY <1>2, <1>3 DEF LockReplace
<1>5. QED
  BY <1>1, <1>4, DiskStays

\* A replacement goes on only over an archive with no locator.
LEMMA CheckKeeps ==
  ASSUME OneName, Inv, DiskInv, NEW p \in Procs, CallInv(p), Check(p)
  PROVE  DiskInv' /\ CallInv(p)'
<1>1. /\ pc[p] = "check" /\ here' = here /\ kept' = kept /\ file' = file /\ stable' = stable
  BY DEF Check, At, here, kept
<1>2. ASSUME Return(p, "refused") PROVE CallInv(p)'
  BY <1>2, CallDone DEF Inv
<1>3. ASSUME ~PendingRefusal(job[p].via) /\ Continue(p, "build") /\ UNCHANGED job
      PROVE  CallInv(p)'
  <2>1. pc'[p] = "build" /\ file.marker.st = "-"
    BY <1>3 DEF Continue, Goto, PendingRefusal, Inv, TypeOK
  <2>2. QED
    BY <1>1, <1>3, <2>1 DEF CallInv, PlanOf, FlagsOf, PrepareInv, RewriteInv,
      CompleteInv, CleanupInv, RollbackInv, BeforePublish, Published,
      Rewrites, Restoring, RollbackSteps, Marks
<1>4. CallInv(p)'
  BY <1>2, <1>3 DEF Check
<1>5. QED
  BY <1>1, <1>4, DiskStays

\* The journal is built from the bytes of the plan.
LEMMA BuildKeeps ==
  ASSUME OneName, Inv, DiskInv, NEW p \in Procs, CallInv(p), BuildJournal(p)
  PROVE  DiskInv' /\ CallInv(p)'
<1> DEFINE j == [id |-> job[p].id, pre |-> file.tail,
                 preTime |-> file.mtime, new |-> job[p].new]
<1>1. /\ pc[p] = "build" /\ here' = here /\ kept' = kept /\ file' = file /\ stable' = stable
      /\ pc'[p] = "markP" /\ job'[p] = [job[p] EXCEPT !.hdr = j] /\ job[p] \in Job
  BY DEF BuildJournal, At, Continue, Goto, here, kept, Inv, TypeOK
<1>2. job[p].id \in 1 .. MaxAttempts
  BY <1>1 DEF Inv, IdInv, ReplaceSteps, RunSteps, TypeOK
<1>3. j \in Journal
  BY <1>2, HdrType DEF Inv, Journal
<1>4. j # NoJournal /\ j.pre = file.tail /\ j.new = job[p].new
  BY <1>3
<1>5. file.tail = job[p].base
  BY <1>1 DEF Inv, PlanInv
<1>6. /\ job'[p].hdr = j /\ job'[p].new = job[p].new /\ job'[p].base = job[p].base
      /\ job'[p].op = job[p].op
      /\ job'[p].published = job[p].published /\ job'[p].completed = job[p].completed
      /\ job'[p].unlinked = job[p].unlinked /\ job'[p].synced = job[p].synced
  BY <1>1 DEF Job
<1> HIDE DEF j
<1>7. CallInv(p)'
  BY <1>1, <1>4, <1>5, <1>6 DEF CallInv, PlanOf, FlagsOf, PrepareInv,
    RewriteInv, CompleteInv, CleanupInv, RollbackInv, BeforePublish,
    Published, Rewrites, Restoring, RollbackSteps, Marks
<1>8. QED
  BY <1>1, <1>7, DiskStays

\* recover begins.
LEMMA ProbeKeeps ==
  ASSUME OneName, Inv, DiskInv, NEW p \in Procs, CallInv(p), Probe(p)
  PROVE  DiskInv' /\ CallInv(p)'
<1>1. /\ pc[p] = "idle" /\ here' = here /\ kept' = kept /\ file' = file /\ stable' = stable
  BY DEF Probe, At, here, kept
<1>2. ASSUME pc'[p] = "rlock" /\ job'[p].op = "recover"
      PROVE  CallInv(p)'
  BY <1>2 DEF CallInv, PlanOf, FlagsOf, PrepareInv, RewriteInv, CompleteInv,
    CleanupInv, RollbackInv, BeforePublish, Published, Rewrites, Restoring,
    RollbackSteps, Marks
<1>3. ASSUME UNCHANGED <<pc, job>>
      PROVE  CallInv(p)'
  BY <1>1, <1>3 DEF CallInv, PlanOf, FlagsOf, PrepareInv, RewriteInv,
    CompleteInv, CleanupInv, RollbackInv, BeforePublish, Published, Rewrites,
    Restoring, RollbackSteps
<1>4. CallInv(p)'
  <2>1. PICK path \in Paths :
          \/ /\ job' = [job EXCEPT ![p] = [NoJob EXCEPT !.op = "recover", !.via = path]]
             /\ Goto(p, "rlock")
          \/ UNCHANGED <<pc, job>>
    BY DEF Probe
  <2>2. CASE UNCHANGED <<pc, job>>
    BY <1>3, <2>2
  <2>3. CASE /\ job' = [job EXCEPT ![p] = [NoJob EXCEPT !.op = "recover", !.via = path]]
             /\ Goto(p, "rlock")
    <3>1. job'[p].op = "recover"
      BY <2>3 DEF Inv, TypeOK, NoJob
    <3>2. QED
      BY <1>2, <2>3, <3>1 DEF Goto, Inv, TypeOK
  <2>4. QED
    BY <2>1, <2>2, <2>3
<1>5. QED
  BY <1>1, <1>4, DiskStays

\* recover takes the flock.
LEMMA LockRecoverKeeps ==
  ASSUME OneName, Inv, DiskInv, NEW p \in Procs, CallInv(p), LockRecover(p)
  PROVE  DiskInv' /\ CallInv(p)'
<1>1. /\ pc[p] = "rlock" /\ here' = here /\ kept' = kept /\ file' = file /\ stable' = stable
  BY DEF LockRecover, At, here, kept
<1>2. ASSUME Return(p, "journal") PROVE CallInv(p)'
  BY <1>2, CallDone DEF Inv
<1>3. ASSUME Goto(p, "locate") /\ UNCHANGED job
      PROVE  CallInv(p)'
  <2>1. pc'[p] = "locate"
    BY <1>3 DEF Goto, Inv, TypeOK
  <2>2. QED
    BY <1>1, <1>3, <2>1 DEF CallInv, PlanOf, FlagsOf, PrepareInv, RewriteInv,
      CompleteInv, CleanupInv, RollbackInv, BeforePublish, Published,
      Rewrites, Restoring, RollbackSteps, Marks
<1>4. CallInv(p)'
  BY <1>2, <1>3 DEF LockRecover
<1>5. QED
  BY <1>1, <1>4, DiskStays

-----------------------------------------------------------------------------
(* recover.                                                                *)

\* Whatever locate decides, the rollback starts from what the locator says.
LEMMA LocateKeeps ==
  ASSUME OneName, Inv, DiskInv, NEW p \in Procs, CallInv(p), Locate(p)
  PROVE  DiskInv' /\ CallInv(p)'
<1> DEFINE path == LocatePath(file.marker, job[p].via)
<1>1. /\ pc[p] = "locate" /\ here' = here /\ kept' = kept /\ file' = file /\ stable' = stable
      /\ job[p] \in Job
  BY DEF Locate, At, here, kept, Inv, TypeOK
<1>2. job[p].op = "recover"
  BY <1>1 DEF Inv, IdInv, RecoverSteps
<1>3. ASSUME NEW r, Return(p, r) PROVE CallInv(p)'
  BY <1>3, CallDone DEF Inv
<1>4. ASSUME Continue(p, "validate"),
             job' = [job EXCEPT ![p].jpath = path,
                                ![p].complete = RollsForward(file.marker.st)]
      PROVE  CallInv(p)'
  <2>1. /\ pc'[p] = "validate" /\ job'[p].op = "recover"
        /\ job'[p].complete = RollsForward(file.marker.st)
    BY <1>1, <1>2, <1>4 DEF Continue, Goto, Inv, TypeOK, Job
  <2>2. QED
    BY <1>1, <2>1 DEF CallInv, PlanOf, FlagsOf, PrepareInv, RewriteInv,
      CompleteInv, CleanupInv, RollbackInv, BeforePublish, Published,
      Rewrites, Restoring, RollbackSteps, Marks, RollsForward
<1>5. ASSUME file.marker.st = "P", Continue(p, "staleSync"),
             job' = [job EXCEPT ![p].jpath = path]
      PROVE  CallInv(p)'
  <2>1. pc'[p] = "staleSync" /\ job'[p].op = "recover"
    BY <1>1, <1>2, <1>5 DEF Continue, Goto, Inv, TypeOK, Job
  <2>2. QED
    BY <1>1, <1>5, <2>1 DEF CallInv, PlanOf, FlagsOf, PrepareInv, RewriteInv,
      CompleteInv, CleanupInv, RollbackInv, BeforePublish, Published,
      Rewrites, Restoring, RollbackSteps, Marks
<1>6. CallInv(p)'
  BY <1>3, <1>4, <1>5 DEF Locate
<1>7. QED
  BY <1>1, <1>6, DiskStays

\* A prepared locator with no journal: the directory is synced before it goes.
LEMMA StaleSyncKeeps ==
  ASSUME OneName, Inv, DiskInv, NEW p \in Procs, CallInv(p), StaleSync(p)
  PROVE  DiskInv' /\ CallInv(p)'
<1>1. /\ pc[p] = "staleSync" /\ pc'[p] = "staleClear" /\ file' = file /\ stable' = stable
      /\ job' = job
  BY DEF StaleSync, At, Continue, Goto, Inv, TypeOK
<1>2. here' = here /\ (kept' = here \/ kept' = kept)
  BY HereSync DEF StaleSync, Inv, here, kept
<1>3. DiskInv'
  BY <1>1, <1>2 DEF DiskInv, RestDisk, PendingDisk, CompleteDisk, DoneDisk,
    Durable, Level, Marks
<1>4. job[p].op = "recover"
  BY <1>1 DEF Inv, IdInv, RecoverSteps
<1>5. CallInv(p)'
  BY <1>1, <1>2, <1>4 DEF CallInv, PlanOf, FlagsOf, PrepareInv, RewriteInv,
    CompleteInv, CleanupInv, RollbackInv, BeforePublish, Published, Rewrites,
    Restoring, RollbackSteps, Marks
<1>6. QED
  BY <1>3, <1>5

-----------------------------------------------------------------------------
(* rollback.                                                               *)

\* The journal is read under the flock.  Bytes to write back mean that the
\* journal is durable.
LEMMA ValidateKeeps ==
  ASSUME OneName, Inv, DiskInv, NEW p \in Procs, CallInv(p), Validate(p)
  PROVE  DiskInv' /\ CallInv(p)'
<1>1. /\ pc[p] = "validate" /\ here' = here /\ kept' = kept /\ file' = file /\ stable' = stable
      /\ job[p] \in Job
  BY DEF Validate, At, here, kept, Inv, TypeOK
<1>2. /\ here # NoJournal /\ Fits(p, here)
      /\ job'[p] = [job[p] EXCEPT !.hdr = here] /\ pc'[p] = RollbackFrom(p, here)
  BY OneDir DEF Validate, here, Continue, Goto, Inv, TypeOK
<1>3. /\ job'[p].hdr = here /\ job'[p].new = job[p].new /\ job'[p].op = job[p].op
      /\ job'[p].complete = job[p].complete
  BY <1>1, <1>2 DEF Job
<1>4. job[p].complete <=> file.marker.st \in {"C", "D"}
  BY <1>1 DEF CallInv, RollbackInv
<1>5. PlanOf(p)'
  BY <1>1, <1>2, <1>3 DEF CallInv, PlanOf, RollbackInv, RollbackFrom
<1>6. CASE ~job[p].complete /\ ~Same(file.tail, here.pre)
  <2>1. pc'[p] = "rbTrunc"
    BY <1>2, <1>6 DEF RollbackFrom
  <2>2. PendingDisk
    BY <1>2, <1>4, <1>6 DEF DiskInv, RestDisk, CompleteDisk, DoneDisk
  <2>3. PendingDisk'
    BY <1>1, <2>2 DEF PendingDisk, Durable, Marks
  <2>4. CallInv(p)'
    BY <1>1, <1>3, <1>5, <1>6, <2>1, <2>3 DEF CallInv, PlanOf, FlagsOf,
      PrepareInv, RewriteInv, CompleteInv, CleanupInv, RollbackInv,
      BeforePublish, Published, Rewrites, Restoring, RollbackSteps, Marks
  <2>5. QED
    BY <2>3, <2>4 DEF DiskInv
<1>7. CASE job[p].complete \/ Same(file.tail, here.pre)
  <2>1. pc'[p] = "rbMark"
    BY <1>2, <1>7 DEF RollbackFrom
  <2>2. job[p].complete => Same(file.tail, here.new)
    BY <1>2 DEF Fits
  <2>3. CallInv(p)'
    BY <1>1, <1>3, <1>4, <1>5, <1>7, <2>1, <2>2 DEF CallInv, PlanOf, FlagsOf,
      PrepareInv, RewriteInv, CompleteInv, CleanupInv, RollbackInv,
      BeforePublish, Published, Rewrites, Restoring, RollbackSteps, Marks
  <2>4. QED
    BY <1>1, <2>3, DiskStays
<1>8. QED
  BY <1>6, <1>7

\* The old bytes are written back: each write leaves a prefix of them.
LEMMA RbTruncateKeeps ==
  ASSUME OneName, Inv, DiskInv, NEW p \in Procs, CallInv(p), RbTruncate(p)
  PROVE  DiskInv' /\ CallInv(p)'
<1>1. /\ pc[p] = "rbTrunc" /\ pc'[p] = "rbTruncSync" /\ job' = job /\ here' = here /\ kept' = kept
  BY DEF RbTruncate, At, Continue, Goto, Inv, TypeOK, here, kept
<1>2. /\ file'.tail = [src |-> job[p].hdr.pre.src, n |-> 0] /\ file'.marker = file.marker
      /\ stable' = stable
  BY DEF RbTruncate, WriteInode, Truncated, Inv, TypeOK, Inode
<1>3. PendingDisk'
  BY <1>1, <1>2, HereType DEF CallInv, RollbackInv, Restoring, PendingDisk,
    Durable, Leads, Prefix, Marks, Grown, Inv, Journal, Tail
<1>4. CallInv(p)'
  BY <1>1, <1>2, <1>3 DEF CallInv, PlanOf, FlagsOf, PrepareInv, RewriteInv,
    CompleteInv, CleanupInv, RollbackInv, BeforePublish, Published, Rewrites,
    Restoring, RollbackSteps, Marks
<1>5. QED
  BY <1>3, <1>4 DEF DiskInv

\* The cut of the restore is made durable.
LEMMA RbSyncTruncateKeeps ==
  ASSUME OneName, Inv, DiskInv, NEW p \in Procs, CallInv(p), RbSyncTruncate(p)
  PROVE  DiskInv' /\ CallInv(p)'
<1>1. /\ pc[p] = "rbTruncSync" /\ pc'[p] = "rbCopy" /\ job' = job /\ here' = here /\ kept' = kept
      /\ file' = file /\ stable' = file
  BY DEF RbSyncTruncate, SyncInode, At, Continue, Goto, Inv, TypeOK, here,
    kept
<1>2. PendingDisk'
  BY <1>1 DEF CallInv, RollbackInv, Restoring, PendingDisk, Durable, Marks,
    Grown
<1>3. job[p].hdr \in Journal
  BY <1>1, HdrType DEF Inv, IdInv, RollbackSteps
<1>4. CallInv(p)'
  BY <1>1, <1>2, <1>3, HdrType DEF CallInv, PlanOf, FlagsOf, PrepareInv,
    RewriteInv, CompleteInv, CleanupInv, RollbackInv, BeforePublish,
    Published, Rewrites, Restoring, RollbackSteps, Marks, Inv, Tail, Journal
<1>5. QED
  BY <1>2, <1>4 DEF DiskInv

\* A chunk grows the old version; the last one restores it.
LEMMA RbCopyKeeps ==
  ASSUME OneName, Inv, DiskInv, NEW p \in Procs, CallInv(p), RbCopyChunk(p)
  PROVE  DiskInv' /\ CallInv(p)'
<1>1. /\ pc[p] = "rbCopy" /\ job' = job /\ here' = here /\ kept' = kept /\ stable' = stable
  BY DEF RbCopyChunk, WriteInode, At, here, kept
<1>2. /\ here = job[p].hdr /\ job[p].hdr.pre \in Tail
      /\ file.tail \in Tail /\ stable.tail \in Tail
  BY <1>1, HdrType DEF CallInv, RollbackInv, Restoring, Inv, IdInv,
    RollbackSteps, Journal
<1>3. CASE file.tail.n < job[p].hdr.pre.n
  <2>1. /\ pc'[p] = "rbCopy" /\ file'.tail = [src |-> file.tail.src, n |-> file.tail.n + 1]
        /\ file'.marker = file.marker
    <3>1. PICK t \in Times : file' = [Appended EXCEPT !.mtime = t]
      BY <1>3 DEF RbCopyChunk, WriteInode
    <3>2. file \in Inode
      BY DEF Inv, TypeOK
    <3>3. pc'[p] = "rbCopy"
      BY <1>1, <1>3 DEF RbCopyChunk, Continue, Goto, Inv, TypeOK
    <3>4. QED
      BY <3>1, <3>2, <3>3 DEF Appended, Inode
  <2>2. PendingDisk'
    BY <1>1, <1>2, <1>3, <2>1 DEF CallInv, RollbackInv, Restoring,
      PendingDisk, Durable, Leads, Prefix, Marks, Grown, Tail
  <2>3. CallInv(p)'
    BY <1>1, <1>2, <1>3, <2>1, <2>2 DEF CallInv, PlanOf, FlagsOf, PrepareInv,
      RewriteInv, CompleteInv, CleanupInv, RollbackInv, BeforePublish,
      Published, Rewrites, Restoring, RollbackSteps, Marks, Tail
  <2>4. QED
    BY <2>2, <2>3 DEF DiskInv
<1>4. CASE ~(file.tail.n < job[p].hdr.pre.n)
  <2>1. pc'[p] = "rbTimes" /\ file' = file
    BY <1>1, <1>4 DEF RbCopyChunk, Continue, Goto, Inv, TypeOK
  <2>2. file.tail.src = job[p].hdr.pre.src /\ file.tail.n <= job[p].hdr.pre.n
    BY <1>1 DEF CallInv, RollbackInv
  <2>3. file.tail = job[p].hdr.pre
    <3>1. PICK u \in Tail : u = job[p].hdr.pre
      BY <1>2
    <3>2. file.tail.src = u.src /\ file.tail.n <= u.n /\ ~(file.tail.n < u.n)
      BY <1>4, <2>2, <3>1
    <3>3. file.tail \in Tail
      BY <1>2
    <3>4. file.tail = u
      BY <3>2, <3>3, WrittenOut
    <3>5. QED
      BY <3>1, <3>4
  <2>4. CallInv(p)'
    BY <1>1, <2>1, <2>3 DEF CallInv, PlanOf, FlagsOf, PrepareInv, RewriteInv,
      CompleteInv, CleanupInv, RollbackInv, BeforePublish, Published,
      Rewrites, Restoring, RollbackSteps, Marks, PendingDisk, Durable
  <2>5. QED
    BY <1>1, <2>1, <2>4, DiskStays
<1>5. QED
  BY <1>3, <1>4

\* The times are no part of the bytes.
LEMMA RbTimesKeeps ==
  ASSUME OneName, Inv, DiskInv, NEW p \in Procs, CallInv(p), RbTimes(p)
  PROVE  DiskInv' /\ CallInv(p)'
<1>1. /\ pc[p] = "rbTimes" /\ pc'[p] = "rbSync" /\ job' = job /\ here' = here /\ kept' = kept
  BY DEF RbTimes, At, Continue, Goto, Inv, TypeOK, here, kept
<1>2. file'.tail = file.tail /\ file'.marker = file.marker /\ stable' = stable
  BY DEF RbTimes, WriteInode, Inv, TypeOK, Inode
<1>3. PendingDisk'
  BY <1>1, <1>2 DEF CallInv, RollbackInv, Restoring, PendingDisk, Durable,
    Marks
<1>4. CallInv(p)'
  BY <1>1, <1>2, <1>3 DEF CallInv, PlanOf, FlagsOf, PrepareInv, RewriteInv,
    CompleteInv, CleanupInv, RollbackInv, BeforePublish, Published, Rewrites,
    Restoring, RollbackSteps, Marks
<1>5. QED
  BY <1>3, <1>4 DEF DiskInv

\* The restored version is durable.
LEMMA RbSyncKeeps ==
  ASSUME OneName, Inv, DiskInv, NEW p \in Procs, CallInv(p), RbSync(p)
  PROVE  DiskInv' /\ CallInv(p)'
<1>1. /\ pc[p] = "rbSync" /\ pc'[p] = "rbMark" /\ job' = job /\ here' = here /\ kept' = kept
      /\ file' = file /\ stable' = file
  BY DEF RbSync, SyncInode, At, Continue, Goto, Inv, TypeOK, here, kept
<1>2. PendingDisk'
  BY <1>1, HdrType DEF CallInv, RollbackInv, Restoring, PendingDisk, Durable,
    Marks, Grown, Inv, Tail
<1>3. Same(file.tail, job[p].hdr.pre)
  BY <1>1, HdrType, SameRefl DEF CallInv, RollbackInv, Inv
<1>4. CallInv(p)'
  BY <1>1, <1>2, <1>3 DEF CallInv, PlanOf, FlagsOf, PrepareInv, RewriteInv,
    CompleteInv, CleanupInv, RollbackInv, BeforePublish, Published, Rewrites,
    Restoring, RollbackSteps, Marks, PendingDisk
<1>5. QED
  BY <1>2, <1>4 DEF DiskInv

\* The locator after the bytes: complete stays complete, and a restored
\* archive is at rest again.
LEMMA RbMarkKeeps ==
  ASSUME OneName, Inv, DiskInv, NEW p \in Procs, CallInv(p), RbMark(p)
  PROVE  DiskInv' /\ CallInv(p)'
<1>1. /\ pc[p] = "rbMark" /\ pc'[p] = "rbHook" /\ job' = job /\ here' = here /\ kept' = kept
  BY DEF RbMark, At, Continue, Goto, Inv, TypeOK, here, kept
<1>2. here = job[p].hdr /\ here # NoJournal /\ here \in Journal /\ file.tail \in Tail
  BY <1>1, HdrType DEF CallInv, RollbackInv, Inv, IdInv, RollbackSteps
<1>3. CASE job[p].complete
  <2>1. /\ file'.tail = file.tail /\ stable'.tail = file.tail
        /\ file'.marker.st = "C" /\ stable'.marker.st = "C"
    BY <1>3, MarkThrough DEF RbMark, Inv
  <2>2. CompleteDisk
    BY <1>1, <1>2, <1>3 DEF CallInv, RollbackInv, RollbackSteps, Restoring,
      DiskInv, RestDisk, PendingDisk, CompleteDisk, DoneDisk, Durable, Level,
      Marks
  <2>3. CompleteDisk'
    BY <1>1, <2>1, <2>2 DEF CompleteDisk, Durable, Level
  <2>4. CallInv(p)'
    BY <1>1, <1>3, <2>1 DEF CallInv, PlanOf, FlagsOf, PrepareInv, RewriteInv,
      CompleteInv, CleanupInv, RollbackInv, BeforePublish, Published,
      Rewrites, Restoring, RollbackSteps, Marks
  <2>5. QED
    BY <2>3, <2>4 DEF DiskInv
<1>4. CASE ~job[p].complete
  <2>1. /\ file'.tail = file.tail /\ stable'.tail = file.tail
        /\ file'.marker.st = "P" /\ stable'.marker.st = "P"
    BY <1>4, MarkThrough DEF RbMark, Inv
  <2>2. Same(file.tail, here.pre) /\ file.marker.st \notin {"C", "D"}
    BY <1>1, <1>2, <1>4 DEF CallInv, RollbackInv, RollbackSteps, Restoring
  <2>3. /\ Good(here) /\ Whole(file.tail)
        /\ kept # NoJournal => Good(kept) /\ Same(file.tail, kept.pre)
    <3>1. CASE RestDisk
      BY <1>2, <3>1 DEF RestDisk, Level
    <3>2. CASE PendingDisk
      <4>1. here.pre \in Tail /\ Whole(here.pre) /\ Good(here) /\ kept = here
        BY <1>2, <3>2 DEF PendingDisk, Durable, Good, Journal
      <4>2. Whole(file.tail)
        BY <1>2, <2>2, <4>1, SameWhole
      <4>3. QED
        BY <2>2, <4>1, <4>2
    <3>3. QED
      BY <1>2, <2>2, <3>1, <3>2 DEF DiskInv, CompleteDisk, DoneDisk
  <2>4. RestDisk'
    BY <1>1, <2>1, <2>2, <2>3 DEF RestDisk, Level, Marks
  <2>5. CallInv(p)'
    BY <1>1, <1>4, <2>1, <2>4 DEF CallInv, PlanOf, FlagsOf, PrepareInv,
      RewriteInv, CompleteInv, CleanupInv, RollbackInv, BeforePublish,
      Published, Rewrites, Restoring, RollbackSteps, Marks
  <2>6. QED
    BY <2>4, <2>5 DEF DiskInv
<1>5. QED
  BY <1>3, <1>4

\* The recovery hook leaves the disk alone.
LEMMA RbHookKeeps ==
  ASSUME OneName, Inv, DiskInv, NEW p \in Procs, CallInv(p), RbHook(p)
  PROVE  DiskInv' /\ CallInv(p)'
<1>1. /\ pc[p] = "rbHook" /\ job' = job /\ here' = here /\ kept' = kept
      /\ file' = file /\ stable' = stable
      /\ pc'[p] = IF job[p].complete THEN "rbMarkD" ELSE "rbUnlink"
  BY DEF RbHook, At, Continue, Goto, Inv, TypeOK, here, kept
<1>2. RestDisk => RestDisk'
  BY <1>1 DEF RestDisk, Level, Marks
<1>3. CASE job[p].complete
  BY <1>1, <1>3, DiskStays DEF CallInv, PlanOf, FlagsOf, PrepareInv,
    RewriteInv, CompleteInv, CleanupInv, RollbackInv, BeforePublish,
    Published, Rewrites, Restoring, RollbackSteps, Marks
<1>4. CASE ~job[p].complete
  BY <1>1, <1>2, <1>4, DiskStays DEF CallInv, PlanOf, FlagsOf, PrepareInv,
    RewriteInv, CompleteInv, CleanupInv, RollbackInv, BeforePublish,
    Published, Rewrites, Restoring, RollbackSteps, Marks
<1>5. QED
  BY <1>3, <1>4

\* The done locator of a completed journal.
LEMMA RbDoneKeeps ==
  ASSUME OneName, Inv, DiskInv, NEW p \in Procs, CallInv(p), RbMarkDone(p)
  PROVE  DiskInv' /\ CallInv(p)'
<1>1. /\ pc[p] = "rbMarkD" /\ pc'[p] = "rbUnlink" /\ job' = job /\ here' = here /\ kept' = kept
  BY DEF RbMarkDone, At, Continue, Goto, Inv, TypeOK, here, kept
<1>2. /\ file'.tail = file.tail /\ stable'.tail = file.tail
      /\ file'.marker.st = "D" /\ stable'.marker.st = "D"
  BY MarkThrough DEF RbMarkDone, Inv
<1>3. here = job[p].hdr /\ here # NoJournal /\ job[p].complete
  BY <1>1 DEF CallInv, RollbackInv, Inv, IdInv, RollbackSteps
<1>4. CompleteDisk
  BY <1>1, <1>3 DEF CallInv, RollbackInv, DiskInv, RestDisk, PendingDisk,
    CompleteDisk, DoneDisk, Durable, Level, Marks
<1>5. CompleteDisk'
  BY <1>1, <1>2, <1>4 DEF CompleteDisk, Durable, Level
<1>6. CallInv(p)'
  BY <1>1, <1>2, <1>3 DEF CallInv, PlanOf, FlagsOf, PrepareInv, RewriteInv,
    CompleteInv, CleanupInv, RollbackInv, BeforePublish, Published, Rewrites,
    Restoring, RollbackSteps, Marks
<1>7. QED
  BY <1>5, <1>6 DEF DiskInv

\* The journal goes from an archive at rest or under a done locator.
LEMMA RbUnlinkKeeps ==
  ASSUME OneName, Inv, DiskInv, NEW p \in Procs, CallInv(p), RbUnlink(p)
  PROVE  DiskInv' /\ CallInv(p)'
<1>1. /\ pc[p] = "rbUnlink" /\ pc'[p] = "rbUnlinkSync" /\ job' = job
      /\ file' = file /\ stable' = stable
  BY DEF RbUnlink, At, Continue, Goto, Inv, TypeOK
<1>2. here # NoJournal /\ here' = NoJournal /\ kept' = kept
  BY HereRemove DEF RbUnlink, Inv
<1>3. CallInv(p)'
  BY <1>1, <1>2 DEF CallInv, PlanOf, FlagsOf, PrepareInv, RewriteInv,
    CompleteInv, CleanupInv, RollbackInv, BeforePublish, Published, Rewrites,
    Restoring, RollbackSteps, Marks
<1>4. CASE job[p].complete
  <2>1. CompleteDisk /\ Marks({"D"})
    BY <1>1, <1>2, <1>4 DEF CallInv, RollbackInv, DiskInv, RestDisk,
      PendingDisk, CompleteDisk, DoneDisk, Durable, Level, Marks
  <2>2. DoneDisk'
    BY <1>1, <1>2, <2>1 DEF CompleteDisk, DoneDisk, Durable, Level, Marks
  <2>3. QED
    BY <1>3, <2>2 DEF DiskInv
<1>5. CASE ~job[p].complete
  <2>1. RestDisk
    BY <1>1, <1>5 DEF CallInv, RollbackInv
  <2>2. RestDisk'
    BY <1>1, <1>2, <2>1 DEF RestDisk, Level, Marks
  <2>3. QED
    BY <1>3, <2>2 DEF DiskInv
<1>6. QED
  BY <1>4, <1>5

\* With its unlink durable the archive is at rest.
LEMMA RbSyncUnlinkKeeps ==
  ASSUME OneName, Inv, DiskInv, NEW p \in Procs, CallInv(p), RbSyncUnlink(p)
  PROVE  DiskInv' /\ CallInv(p)'
<1>1. /\ pc[p] = "rbUnlinkSync" /\ pc'[p] = "rbClear" /\ job' = job
      /\ file' = file /\ stable' = stable
  BY DEF RbSyncUnlink, At, Continue, Goto, Inv, TypeOK
<1>2. here = NoJournal /\ here' = here /\ kept' = here
  BY <1>1, HereSync DEF RbSyncUnlink, Inv, CallInv, RollbackInv
<1>3. RestDisk'
  BY <1>1, <1>2 DEF DiskInv, RestDisk, PendingDisk, CompleteDisk, DoneDisk,
    Durable, Level, Marks
<1>4. CallInv(p)'
  BY <1>1, <1>2 DEF CallInv, PlanOf, FlagsOf, PrepareInv, RewriteInv,
    CompleteInv, CleanupInv, RollbackInv, BeforePublish, Published, Rewrites,
    Restoring, RollbackSteps, Marks
<1>5. QED
  BY <1>3, <1>4 DEF DiskInv

-----------------------------------------------------------------------------
(* Failures.                                                               *)

\* Wherever run fails, finish_failed finds what it expects.
LEMMA RunFails ==
  ASSUME OneName, Inv, DiskInv, NEW p \in Procs, CallInv(p), pc[p] \in RunSteps
  PROVE  FailedInv(p)
<1>1. CASE pc[p] \in {"build", "markP", "publish"}
  BY <1>1 DEF Inv, PlanInv, CallInv, FlagsOf, BeforePublish, PrepareInv,
    FailedInv, Marks
<1>2. CASE pc[p] \in {"syncPub", "markA"} \cup Rewrites
  BY <1>2 DEF CallInv, FlagsOf, Published, Rewrites, PrepareInv, RewriteInv,
    Durable, FailedInv
<1>3. CASE pc[p] \in {"hook", "markD", "unlink"}
  BY <1>3 DEF CallInv, FlagsOf, Published, CompleteInv, CompleteDisk,
    FailedInv
<1>4. CASE pc[p] \in {"unlinkSync", "clear"}
  BY <1>4 DEF CallInv, FlagsOf, CompleteInv, FailedInv, Marks
<1>5. QED
  BY <1>1, <1>2, <1>3, <1>4 DEF RunSteps, Rewrites

\* A call that fails leaves the disk as it is.
LEMMA FailsKeep ==
  ASSUME OneName, Inv, DiskInv, NEW p \in Procs, CallInv(p), FailsInPlace(p)
  PROVE  DiskInv' /\ CallInv(p)'
<1>1. here' = here /\ kept' = kept /\ file' = file /\ stable' = stable
  BY DEF FailsInPlace, here, kept
<1>2. ASSUME NEW r, Return(p, r) PROVE CallInv(p)'
  BY <1>2, CallDone DEF Inv
<1>3. ASSUME pc[p] \in RunSteps, Continue(p, "failed"), UNCHANGED job
      PROVE  CallInv(p)'
  <2>1. pc'[p] = "failed"
    BY <1>3 DEF Continue, Goto, Inv, TypeOK
  <2>2. FailedInv(p)'
    BY <1>1, <1>3, RunFails DEF FailedInv, Marks
  <2>3. QED
    BY <1>3, <2>1, <2>2 DEF CallInv, PlanOf, FlagsOf, PrepareInv, RewriteInv,
      CompleteInv, CleanupInv, RollbackInv, BeforePublish, Published,
      Rewrites, Restoring, RollbackSteps, Marks
<1>4. CallInv(p)'
  BY <1>2, <1>3 DEF FailsInPlace, Fail
<1>5. QED
  BY <1>1, <1>4, DiskStays

\* A publication that happened and was reported as failed.
LEMMA UnseenKeeps ==
  ASSUME OneName, Inv, DiskInv, NEW p \in Procs, CallInv(p), PublishUnseen(p)
  PROVE  DiskInv' /\ CallInv(p)'
<1>1. pc[p] = "publish" /\ pc'[p] = "failed" /\ job' = job /\ file' = file
  BY DEF PublishUnseen, At, Continue, Goto, Inv, TypeOK
<1>2. RestDisk'
  BY PublishKeeps DEF PublishUnseen, At
<1>3. FailedInv(p)'
  BY <1>1 DEF CallInv, FlagsOf, BeforePublish, PrepareInv, FailedInv, Marks
<1>4. CallInv(p)'
  BY <1>1, <1>3 DEF CallInv, PlanOf, FlagsOf, PrepareInv, RewriteInv,
    CompleteInv, CleanupInv, RollbackInv, BeforePublish, Published, Rewrites,
    Restoring, RollbackSteps
<1>5. QED
  BY <1>2, <1>4 DEF DiskInv

\* A locator set in memory alone: of a journal that decides without it, or of
\* one whose durable copy still says active.
LEMMA HalfRunKeeps ==
  ASSUME OneName, Inv, DiskInv, NEW p \in Procs, CallInv(p), MarkerHalfSet(p),
         pc[p] \in RunSteps
  PROVE  DiskInv' /\ CallInv(p)'
<1>1. /\ pc'[p] = "failed" /\ job' = job /\ here' = here /\ kept' = kept
      /\ WriteInode(HalfMarker(p)) /\ UNCHANGED <<entry, dentry>>
  BY DEF MarkerHalfSet, Continue, Goto, here, kept, Inv, TypeOK
<1>2. pc[p] \in {"markP", "markA", "markC", "markD", "clear"}
  BY DEF MarkerHalfSet, RunSteps
<1>3. FailedInv(p) /\ file.tail \in Tail
  BY RunFails, HdrType DEF Inv
<1>4. ASSUME NEW st, WriteInode(Marked(p, st))
      PROVE  file'.tail = file.tail /\ stable' = stable /\ file'.marker.st = st
  BY <1>4, MarkHalf DEF Inv
<1>5. DiskInv' /\ FailedInv(p)'
  <2>1. CASE pc[p] = "markP"
    <3>1. file'.tail = file.tail /\ stable' = stable /\ file'.marker.st = "P"
      BY <1>1, <1>4, <2>1 DEF HalfMarker
    <3>2. file.marker.st = "-" /\ ~job[p].published
      BY <2>1 DEF CallInv, FlagsOf, BeforePublish, PrepareInv
    <3>3. DiskInv'
      BY <1>1, <3>1, <3>2 DEF DiskInv, RestDisk, PendingDisk, CompleteDisk,
        DoneDisk, Durable, Level, Marks
    <3>4. QED
      BY <1>1, <1>3, <3>1, <3>2, <3>3 DEF FailedInv
  <2>2. CASE pc[p] = "markA"
    <3>1. file'.tail = file.tail /\ stable' = stable /\ file'.marker.st = "A"
      BY <1>1, <1>4, <2>2 DEF HalfMarker
    <3>2. PendingDisk'
      BY <1>1, <1>3, <2>2, <3>1 DEF CallInv, FlagsOf, Published, PrepareInv,
        RestDisk, PendingDisk, Durable, Leads, Same, Marks, Grown, Tail
    <3>3. FailedInv(p)'
      BY <1>1, <2>2 DEF CallInv, FlagsOf, Published, PrepareInv, FailedInv
    <3>4. QED
      BY <3>2, <3>3 DEF DiskInv
  <2>3. CASE pc[p] = "markC"
    <3>1. file'.tail = file.tail /\ stable' = stable /\ file'.marker.st = "C"
      BY <1>1, <1>4, <2>3 DEF HalfMarker
    <3>2. /\ file.tail = job[p].hdr.new /\ Whole(file.tail) /\ here = job[p].hdr /\ Durable(here)
      BY <2>3 DEF CallInv, PlanOf, RewriteInv, Rewrites, Durable, Inv, IdInv,
        ReplaceSteps
    <3>3. CompleteDisk'
      BY <1>1, <1>3, <2>3, <3>1, <3>2, SameRefl DEF CallInv, RewriteInv,
        Rewrites, CompleteDisk, Durable, Level, Marks
    <3>4. FailedInv(p)'
      BY <1>1, <2>3, <3>1, <3>2 DEF CallInv, FlagsOf, Published, Rewrites,
        FailedInv
    <3>5. QED
      BY <3>3, <3>4 DEF DiskInv
  <2>4. CASE pc[p] = "markD"
    <3>1. file'.tail = file.tail /\ stable' = stable /\ file'.marker.st = "D"
      BY <1>1, <1>4, <2>4 DEF HalfMarker
    <3>2. CompleteDisk'
      BY <1>1, <2>4, <3>1 DEF CallInv, CompleteInv, CompleteDisk, Durable,
        Level
    <3>3. FailedInv(p)'
      BY <1>1, <2>4, <3>1 DEF CallInv, FlagsOf, Published, CompleteInv,
        FailedInv
    <3>4. QED
      BY <3>2, <3>3 DEF DiskInv
  <2>5. CASE pc[p] = "clear"
    <3>1. WriteInode([file EXCEPT !.marker = NoMarker])
      BY <1>1, <2>5 DEF HalfMarker
    <3>2. DiskInv' /\ Cleared
      BY <1>1, <2>5, <3>1, ClearStepKeeps
    <3>3. FailedInv(p)'
      BY <1>1, <2>5, <3>2 DEF CallInv, FlagsOf, CompleteInv, FailedInv,
        Cleared
    <3>4. QED
      BY <3>2, <3>3
  <2>6. QED
    BY <1>2, <2>1, <2>2, <2>3, <2>4, <2>5
<1>6. CallInv(p)'
  BY <1>1, <1>5 DEF CallInv, PlanOf, FlagsOf, PrepareInv, RewriteInv,
    CompleteInv, CleanupInv, RollbackInv, BeforePublish, Published, Rewrites,
    Restoring, RollbackSteps
<1>7. QED
  BY <1>5, <1>6

\* The same in finish_failed and recovery.
LEMMA HalfEndKeeps ==
  ASSUME OneName, Inv, DiskInv, NEW p \in Procs, CallInv(p), MarkerHalfSet(p),
         pc[p] \notin RunSteps
  PROVE  DiskInv' /\ CallInv(p)'
<1>1. /\ here' = here /\ kept' = kept
      /\ WriteInode(HalfMarker(p)) /\ UNCHANGED <<entry, dentry>>
  BY DEF MarkerHalfSet, here, kept
<1>2. pc[p] \in {"rbMark", "rbMarkD", "dropMarker", "doneClear", "staleClear", "rbClear"}
  BY DEF MarkerHalfSet, RunSteps
<1>3. CallInv(p)'
  BY CallDone DEF MarkerHalfSet, Inv
<1>4. ASSUME NEW st, WriteInode(Marked(p, st))
      PROVE  file'.tail = file.tail /\ stable' = stable /\ file'.marker.st = st
  BY <1>4, MarkHalf DEF Inv
<1>5. CASE pc[p] \in {"rbMark", "rbMarkD"}
  <2>1. here = job[p].hdr /\ here # NoJournal
    BY <1>5 DEF CallInv, RollbackInv, Inv, IdInv, RollbackSteps
  <2>2. CASE job[p].complete
    <3>1. /\ file'.tail = file.tail /\ stable' = stable /\ file'.marker.st \in {"C", "D"}
      BY <1>1, <1>4, <1>5, <2>2 DEF HalfMarker
    <3>2. CompleteDisk
      BY <1>5, <2>1, <2>2 DEF CallInv, RollbackInv, RollbackSteps, Restoring,
        DiskInv, RestDisk, PendingDisk, CompleteDisk, DoneDisk, Durable,
        Level, Marks
    <3>3. CompleteDisk'
      BY <1>1, <3>1, <3>2 DEF CompleteDisk, Durable, Level
    <3>4. QED
      BY <1>3, <3>3 DEF DiskInv
  <2>3. CASE ~job[p].complete
    <3>1. pc[p] = "rbMark"
      BY <1>5, <2>3 DEF CallInv, RollbackInv
    <3>2. /\ file'.tail = file.tail /\ stable' = stable /\ file'.marker.st = "P"
      BY <1>1, <1>4, <2>3, <3>1 DEF HalfMarker
    <3>3. file.marker.st \notin {"C", "D"}
      BY <2>3, <3>1 DEF CallInv, RollbackInv, RollbackSteps, Restoring
    <3>4. DiskInv'
      BY <1>1, <2>1, <3>2, <3>3 DEF DiskInv, RestDisk, PendingDisk,
        CompleteDisk, DoneDisk, Durable, Level, Marks
    <3>5. QED
      BY <1>3, <3>4
  <2>4. QED
    BY <2>2, <2>3
<1>6. CASE pc[p] \in {"dropMarker", "doneClear", "staleClear", "rbClear"}
  <2>1. WriteInode([file EXCEPT !.marker = NoMarker])
    BY <1>1, <1>6 DEF HalfMarker
  <2>2. QED
    BY <1>1, <1>3, <1>6, <2>1, ClearStepKeeps
<1>7. QED
  BY <1>2, <1>5, <1>6

-----------------------------------------------------------------------------
(* A power loss.                                                           *)

\* What it leaves of one directory: either copy of the journal, and of the
\* inode either copy of each part.
LEMMA PowerLossLeaves ==
  ASSUME OneName, TypeOK, PowerLoss
  PROVE  /\ file'.tail \in TailImages(stable.tail, file.tail)
         /\ file'.marker \in {stable.marker, file.marker}
         /\ stable' = file' /\ kept' = here'
         /\ here' \in {here, kept}
BY OneDir DEF PowerLoss, here, kept, TypeOK

\* It leaves an archive at rest at rest, a rewrite to its journal, and decides
\* a completion or an unlink that was on its way.
LEMMA PowerLossKeeps ==
  ASSUME OneName, Inv, DiskInv, PowerLoss
  PROVE  DiskInv'
<1>1. /\ file'.tail \in TailImages(stable.tail, file.tail)
      /\ file'.marker \in {stable.marker, file.marker}
      /\ stable' = file' /\ kept' = here' /\ here' \in {here, kept}
  BY PowerLossLeaves DEF Inv
<1>2. /\ file.tail \in Tail /\ stable.tail \in Tail /\ file'.tail \in Tail
      /\ here \in Journal \cup {NoJournal}
  BY <1>1, ImageType, HereType DEF Inv, TypeOK, Inode
<1>3. Level => file'.tail = file.tail
  BY <1>1, <1>2, LevelImages DEF Level
<1>4. CASE RestDisk
  <2>1. RestDisk'
    BY <1>1, <1>3, <1>4 DEF RestDisk, Level, Marks
  <2>2. QED
    BY <2>1 DEF DiskInv
<1>5. CASE PendingDisk
  <2>1. here' = here /\ kept' = here /\ here \in Journal
    BY <1>1, <1>2, <1>5 DEF PendingDisk, Durable
  <2>2. Leads(file'.tail, here)
    BY <1>1, <1>2, <1>5, <2>1, LeadsImages DEF PendingDisk
  <2>3. PendingDisk'
    BY <1>1, <1>2, <1>5, <2>1, <2>2 DEF PendingDisk, Durable, Marks, Grown,
      Tail
  <2>4. QED
    BY <2>3 DEF DiskInv
<1>6. CASE CompleteDisk
  <2>1. here' = here /\ kept' = here /\ file'.tail = file.tail
    BY <1>1, <1>3, <1>6 DEF CompleteDisk, Durable
  <2>2. CASE file'.marker.st = "A"
    <3>1. PendingDisk'
      BY <1>1, <1>2, <1>6, <2>1, <2>2 DEF CompleteDisk, PendingDisk, Durable,
        Marks, Leads, Same, Grown, Tail
    <3>2. QED
      BY <3>1 DEF DiskInv
  <2>3. CASE file'.marker.st # "A"
    <3>1. CompleteDisk'
      BY <1>1, <1>6, <2>1, <2>3 DEF CompleteDisk, Durable, Level
    <3>2. QED
      BY <3>1 DEF DiskInv
  <2>4. QED
    BY <2>2, <2>3
<1>7. CASE DoneDisk
  <2>1. RestDisk' \/ CompleteDisk'
    BY <1>1, <1>3, <1>7 DEF DoneDisk, RestDisk, CompleteDisk, Durable, Level,
      Marks
  <2>2. QED
    BY <2>1 DEF DiskInv
<1>8. QED
  BY <1>4, <1>5, <1>6, <1>7 DEF DiskInv

-----------------------------------------------------------------------------
(* Every step.                                                             *)

\* What a step of a process leaves to the others.
Apart(p) ==
  /\ Others(p)
  /\ \/ file' = file /\ stable' = stable /\ here' = here /\ kept' = kept
     \/ pc[p] \in LockedSteps

\* Only the holder of the flock changes the disk.
LEMMA StepApart ==
  ASSUME Inv, NEW p \in Procs,
         \/ StartReplace(p) \/ Probe(p) \/ ReplaceStep(p) \/ CleanupStep(p)
         \/ RecoverStep(p) \/ RollbackStep(p) \/ ErrorStep(p) \/ Kill(p)
  PROVE  Apart(p)
<1>1. ASSUME LockReplace(p) \/ LockRecover(p) \/ StartReplace(p) \/ Probe(p) \/ Kill(p)
      PROVE  file' = file /\ stable' = stable /\ here' = here /\ kept' = kept
  BY <1>1 DEF LockReplace, LockRecover, StartReplace, Probe, Kill, here, kept
<1>2. ASSUME ReplaceStep(p), ~LockReplace(p) PROVE pc[p] \in LockedSteps
  BY <1>2, LockedNames DEF ReplaceStep, Check, BuildJournal, MarkPrepared,
    Publish, SyncPublished, MarkActive, Truncate, SyncTruncate, WriteChunk,
    SyncWrite, MarkComplete, Hook, MarkDone, Unlink, SyncUnlink,
    ClearLocator, At
<1>3. ASSUME CleanupStep(p) \/ (RecoverStep(p) /\ ~LockRecover(p)) PROVE pc[p] \in LockedSteps
  BY <1>3, LockedNames DEF CleanupStep, FinishFailed, DropMarker, DoneSync,
    DoneClear, RecoverStep, Locate, StaleSync, StaleClear, At
<1>4. ASSUME RollbackStep(p) PROVE pc[p] \in LockedSteps
  BY <1>4, LockedNames DEF RollbackStep, Validate, RbTruncate,
    RbSyncTruncate, RbCopyChunk, RbTimes, RbSync, RbMark, RbHook, RbMarkDone,
    RbUnlink, RbSyncUnlink, RbClear, At
<1>5. ASSUME ErrorStep(p) PROVE pc[p] \in LockedSteps
  BY <1>5, LockedNames DEF ErrorStep, StepFails, MarkerHalfSet,
    PublishUnseen, At
<1>6. ASSUME StartReplace(p) \/ Probe(p) PROVE Others(p)
  <2>1. ASSUME StartReplace(p) PROVE Others(p)
    <3>1. PICK r : job' = [job EXCEPT ![p] = r]
      BY <2>1 DEF StartReplace
    <3>2. QED
      BY <2>1, <3>1 DEF StartReplace, Goto, Others, Inv, TypeOK
  <2>2. QED
    BY <1>6, <2>1, ProbeShape DEF Shape, Inv
<1>7. ASSUME LockReplace(p) \/ Check(p) \/ BuildJournal(p) \/ Publish(p) PROVE Others(p)
  BY <1>7 DEF LockReplace, Check, BuildJournal, Publish, Goto, Continue,
    Return, Others, Inv, TypeOK
<1>8. ASSUME Validate(p) \/ PublishUnseen(p) PROVE Others(p)
  BY <1>8 DEF Validate, PublishUnseen, Goto, Continue, Others, Inv, TypeOK
<1>9. Others(p)
  BY <1>6, <1>7, <1>8, ShapeStep DEF Shape, Inv
<1>10. QED
  BY <1>1, <1>2, <1>3, <1>4, <1>5, <1>9 DEF Apart

\* Every step of a call keeps the disk invariant and its own.
LEMMA CallStepKeeps ==
  ASSUME OneName, Inv, DiskInv, NEW p \in Procs, CallInv(p),
         \/ StartReplace(p) \/ Probe(p) \/ ReplaceStep(p) \/ CleanupStep(p)
         \/ RecoverStep(p) \/ RollbackStep(p) \/ ErrorStep(p) \/ Kill(p)
  PROVE  DiskInv' /\ CallInv(p)'
<1>1. ASSUME ClearLocator(p) \/ DropMarker(p) \/ DoneClear(p) \/ StaleClear(p) \/ RbClear(p)
      PROVE  DiskInv' /\ CallInv(p)'
  BY <1>1, ClearStepKeeps, CallDone DEF ClearLocator, DropMarker, DoneClear,
    StaleClear, RbClear, At, Inv
<1>2. ASSUME ReplaceStep(p) PROVE DiskInv' /\ CallInv(p)'
  BY <1>1, <1>2, LockReplaceKeeps, CheckKeeps, BuildKeeps, PreparedKeeps,
    PublishedKeeps, SyncPublishedKeeps, ActiveKeeps, TruncateKeeps,
    SyncTruncateKeeps, WriteKeeps, SyncWriteKeeps, CompleteKeeps, HookKeeps,
    DoneKeeps, UnlinkKeeps, SyncUnlinkKeeps DEF ReplaceStep
<1>3. ASSUME CleanupStep(p) PROVE DiskInv' /\ CallInv(p)'
  BY <1>1, <1>3, FinishKeeps, DoneSyncKeeps DEF CleanupStep
<1>4. ASSUME RecoverStep(p) PROVE DiskInv' /\ CallInv(p)'
  BY <1>1, <1>4, LockRecoverKeeps, LocateKeeps, StaleSyncKeeps DEF RecoverStep
<1>5. ASSUME RollbackStep(p) PROVE DiskInv' /\ CallInv(p)'
  BY <1>1, <1>5, ValidateKeeps, RbTruncateKeeps, RbSyncTruncateKeeps,
    RbCopyKeeps, RbTimesKeeps, RbSyncKeeps, RbMarkKeeps, RbHookKeeps,
    RbDoneKeeps, RbUnlinkKeeps, RbSyncUnlinkKeeps DEF RollbackStep
<1>6. ASSUME ErrorStep(p) PROVE DiskInv' /\ CallInv(p)'
  BY <1>6, FailsKeep, UnseenKeeps, HalfRunKeeps, HalfEndKeeps 
  DEF ErrorStep, StepFails, FailsInPlace
<1>7. ASSUME Kill(p) PROVE DiskInv' /\ CallInv(p)'
  <2>1. file' = file /\ stable' = stable /\ here' = here /\ kept' = kept
    BY <1>7 DEF Kill, here, kept
  <2>2. CallInv(p)'
    BY <1>7, CallDone DEF Kill, Inv
  <2>3. QED
    BY <2>1, <2>2, DiskStays
<1>8. QED
  BY <1>2, <1>3, <1>4, <1>5, <1>6, <1>7, StartKeeps, ProbeKeeps

\* A call that is idle keeps nothing.
LEMMA IdleCall ==
  ASSUME NEW p \in Procs, pc[p] = "idle", job[p] = NoJob
  PROVE  CallInv(p)
<1>1. NoJob.op = "none"
  BY DEF NoJob
<1>2. QED
  BY <1>1 DEF CallInv, PlanOf, FlagsOf, PrepareInv, RewriteInv, CompleteInv,
    CleanupInv, RollbackInv, BeforePublish, Published, Rewrites, Restoring,
    RollbackSteps, Marks

\* The initial disk is at rest.
LEMMA CrashInit ==
  ASSUME OneName, Init
  PROVE  CrashInv
<1>1. /\ here = NoJournal /\ kept = NoJournal /\ stable = file
      /\ file.tail = Full(Base) /\ file.marker.st = "-"
  BY OneDir DEF Init, here, kept, NoMarker
<1>2. RestDisk
  BY <1>1, FullWhole DEF RestDisk, Level, Marks
<1>3. QED
  BY <1>2, IdleCall DEF CrashInv, DiskInv, Init

\* Every step keeps the invariant, the power loss included.
LEMMA CrashNext ==
  ASSUME OneName, Inv, CrashInv, [Next]_vars
  PROVE  CrashInv'
<1>1. ASSUME NEW p \in Procs,
             \/ StartReplace(p) \/ Probe(p) \/ ReplaceStep(p) \/ CleanupStep(p)
             \/ RecoverStep(p) \/ RollbackStep(p) \/ ErrorStep(p) \/ Kill(p)
      PROVE  CrashInv'
  <2>1. DiskInv' /\ CallInv(p)'
    BY <1>1, CallStepKeeps DEF CrashInv
  <2>2. ASSUME NEW q \in Procs, q # p PROVE CallInv(q)'
    BY <1>1, <2>2, StepApart, OthersKeep DEF CrashInv, Apart
  <2>3. QED
    BY <2>1, <2>2 DEF CrashInv
<1>2. CASE PowerLoss
  <2>1. ASSUME NEW q \in Procs PROVE pc'[q] = "idle" /\ job'[q] = NoJob
    BY <1>2 DEF PowerLoss
  <2>2. \A q \in Procs : CallInv(q)'
    <3>1. NoJob.op = "none"
      BY DEF NoJob
    <3>2. QED
      BY <2>1, <3>1 DEF CallInv, PlanOf, FlagsOf, PrepareInv, RewriteInv,
        CompleteInv, CleanupInv, RollbackInv, BeforePublish, Published,
        Rewrites, Restoring, RollbackSteps
  <2>3. QED
    BY <1>2, <2>2, PowerLossKeeps DEF CrashInv
<1>3. ASSUME UNCHANGED <<file, stable, entry, dentry, pc,
                         job>> PROVE CrashInv'
  <2>1. file' = file /\ stable' = stable /\ here' = here /\ kept' = kept
    BY <1>3 DEF here, kept
  <2>2. ASSUME NEW q \in Procs PROVE CallInv(q)'
    BY <1>3, <2>1 DEF CrashInv, CallInv, PlanOf, FlagsOf, PrepareInv,
      RewriteInv, CompleteInv, CleanupInv, RollbackInv, BeforePublish,
      Published, Rewrites, Restoring, RollbackSteps, Marks, FailedInv,
      RestDisk, PendingDisk, CompleteDisk, Durable, Level
  <2>3. QED
    BY <2>1, <2>2, DiskStays DEF CrashInv
<1>4. QED
  BY <1>1, <1>2, <1>3 DEF Next, RenameDir, vars

\* Through every failure, kill and power loss the disk is in one of four
\* states, and a call at a given step knows in which.
THEOREM CrashInvariance ==
  ASSUME OneName
  PROVE  Spec => []CrashInv
<1>1. Init => CrashInv
  BY CrashInit
<1>2. Inv /\ CrashInv /\ [Next]_vars => CrashInv'
  BY CrashNext
<1>3. QED
  BY <1>1, <1>2, Invariance, PTL DEF Spec

-----------------------------------------------------------------------------
(* What a power loss would leave.                                          *)

\* In each of the four states a recovery finds its way.
LEMMA RecoversFrom ==
  ASSUME OneName, TypeOK, DiskInv,
         NEW t \in TailImages(stable.tail, file.tail),
         NEW m \in {stable.marker, file.marker},
         NEW e, e[Dir] \in {here, kept}
  PROVE  Recoverable(t, m, e)
<1>1. /\ file.tail \in Tail /\ stable.tail \in Tail /\ t \in Tail
      /\ here \in Journal \cup {NoJournal}
  BY ImageType, HereType DEF TypeOK, Inode
<1>2. Level => t = file.tail
  BY <1>1, LevelImages DEF Level
<1>3. ASSUME e[Dir] = NoJournal, Whole(t), m.st \notin {"A", "C"}
      PROVE  Recoverable(t, m, e)
  BY <1>3, OneDir DEF Recoverable
<1>4. ASSUME e[Dir] # NoJournal, Good(e[Dir]), Restores(e[Dir], t, m)
      PROVE  Recoverable(t, m, e)
  BY <1>4, OneDir DEF Recoverable, Good
<1>5. CASE RestDisk
  BY <1>2, <1>3, <1>4, <1>5 DEF RestDisk, Level, Marks, Restores, Complete,
    Same
<1>6. CASE PendingDisk
  <2>1. e[Dir] = here /\ here \in Journal
    BY <1>1, <1>6 DEF PendingDisk, Durable
  <2>2. Leads(t, here)
    BY <1>1, <1>6, <2>1, LeadsImages DEF PendingDisk
  <2>3. QED
    BY <1>4, <1>6, <2>1, <2>2 DEF PendingDisk, Durable, Marks, Restores,
      Complete, Leads
<1>7. CASE CompleteDisk
  BY <1>2, <1>4, <1>7 DEF CompleteDisk, Durable, Restores, Complete, Same
<1>8. CASE DoneDisk
  BY <1>2, <1>3, <1>4, <1>8 DEF DoneDisk, Level, Marks, Restores, Complete
<1>9. QED
  BY <1>5, <1>6, <1>7, <1>8 DEF DiskInv

\* Every mixture a power loss can leave is one of them.
LEMMA Recovers ==
  ASSUME OneName, TypeOK, DiskInv
  PROVE  PowerLossRecoverable
<1> SUFFICES ASSUME NEW t \in TailImages(stable.tail, file.tail),
                    NEW m \in {stable.marker, file.marker},
                    NEW lost \in SUBSET Dirs
             PROVE  Recoverable(t, m,
                      [d \in Dirs |-> IF d \in lost THEN dentry[d] ELSE entry[d]])
  BY DEF PowerLossRecoverable
<1> DEFINE e == [d \in Dirs |-> IF d \in lost THEN dentry[d] ELSE entry[d]]
<1>1. e[Dir] \in {here, kept}
  BY OneDir DEF here, kept
<1> HIDE DEF e
<1>2. Recoverable(t, m, e)
  BY <1>1, RecoversFrom
<1>3. QED
  BY <1>2 DEF e

\* Whatever a power loss keeps of the unsynced writes, renames and unlinks, a
\* recovery then finds a whole version or a journal that leads to one, for any
\* number of processes, versions, replacements and faults.
THEOREM PowerLossRecoverableHolds ==
  ASSUME OneName
  PROVE  Spec => []PowerLossRecoverable
<1>1. Inv /\ CrashInv => PowerLossRecoverable
  BY Recovers DEF Inv, CrashInv
<1>2. QED
  BY <1>1, Invariance, CrashInvariance, PTL

-----------------------------------------------------------------------------
(* What a call answers.                                                    *)

\* What the three answers promise of p.
AnswersOf(p) == OkIsDurable(p) /\ CommittedHoldsNew(p) /\ RolledBackRestores(p)

\* The last step of a call touches at most the locator.
Ended ==
  /\ here' = here /\ kept' = kept
  /\ Cleared \/ (file' = file /\ stable' = stable)

\* The journal of a replacement records its new version.
LEMMA OwnJournal ==
  ASSUME Inv, NEW p \in Procs, CallInv(p), job[p].op = "replace",
         job[p].hdr # NoJournal
  PROVE  job[p].hdr.new = job[p].new /\ job[p].hdr.pre = job[p].base
BY DEF CallInv, PlanOf, Inv, JournalInv, Records

\* Where Ok is returned, the journal is durably gone and the tail level.
LEMMA OkHolds ==
  ASSUME OneName, Inv, DiskInv, NEW p \in Procs, CallInv(p), Ended,
         \/ pc[p] \in {"clear", "doneClear"}
         \/ pc[p] = "rbClear" /\ job[p].complete /\ job[p].op = "replace"
  PROVE  /\ Same(stable'.tail, job[p].new)
         /\ Gone(job[p].id, entry') /\ Gone(job[p].id, dentry')
<1>1. here = NoJournal /\ kept = NoJournal
  BY DEF CallInv, CompleteInv, CleanupInv, RollbackInv
<1>2. Gone(job[p].id, entry') /\ Gone(job[p].id, dentry')
  BY <1>1, OneDir DEF Ended, Gone, here, kept
<1>3. Same(file.tail, job[p].new)
  <2>1. CASE pc[p] \in {"clear", "doneClear"}
    BY <2>1 DEF CallInv, CompleteInv, CleanupInv
  <2>2. CASE pc[p] = "rbClear" /\ job[p].complete /\ job[p].op = "replace"
    <3>1. job[p].hdr.new = job[p].new
      BY <2>2, OwnJournal DEF Inv, IdInv, RollbackSteps
    <3>2. QED
      BY <2>2, <3>1 DEF CallInv, RollbackInv, RollbackSteps, Restoring
  <2>3. QED
    BY <2>1, <2>2
<1>4. stable.tail = file.tail
  BY <1>1 DEF DiskInv, RestDisk, PendingDisk, CompleteDisk, DoneDisk,
    Durable, Level, Marks
<1>5. QED
  BY <1>2, <1>3, <1>4 DEF Ended, Cleared

\* Where Committed is returned, only the new version can come of what is left.
LEMMA CommittedHolds ==
  ASSUME OneName, Inv, DiskInv, NEW p \in Procs, CallInv(p),
         here' = here, kept' = kept, file'.tail = file.tail,
         \/ file'.marker = file.marker
         \/ file'.marker.st \in {"C", "D"},
         \/ pc[p] \in {"doneSync", "doneClear"}
         \/ pc[p] = "failed" /\ AttemptComplete(p)
         \/ /\ pc[p] \in RollbackSteps /\ job[p].complete
            /\ pc[p] = "validate" => job[p].op = "replace"
  PROVE  /\ job[p].op = "replace" => Same(file'.tail, job[p].new)
         /\ \/ Complete(file'.marker)
            \/ \A d \in Dirs : entry'[d] = NoJournal /\ dentry'[d] = NoJournal
<1>1. ASSUME here = NoJournal, kept = NoJournal
      PROVE  \A d \in Dirs : entry'[d] = NoJournal /\ dentry'[d] = NoJournal
  BY <1>1, OneDir DEF here, kept
<1>2. ASSUME Complete(file.marker) PROVE Complete(file'.marker)
  BY <1>2 DEF Complete
<1>3. ASSUME job[p].op = "replace", here = job[p].hdr, here # NoJournal, Complete(file.marker)
      PROVE  Same(file.tail, job[p].new)
  <2>1. job[p].hdr.new = job[p].new
    BY <1>3, OwnJournal
  <2>2. QED
    BY <1>3, <2>1 DEF Complete, DiskInv, RestDisk, PendingDisk, CompleteDisk,
      DoneDisk, Durable, Level, Marks
<1>4. CASE pc[p] \in {"doneSync", "doneClear"}
  BY <1>1, <1>2, <1>4 DEF CallInv, CleanupInv, Marks, Complete
<1>5. CASE pc[p] = "failed" /\ AttemptComplete(p)
  <2>1. FailedInv(p) /\ job[p].published
    BY <1>5 DEF CallInv, CleanupInv, FailedInv, AttemptComplete
  <2>2. CASE job[p].unlinked
    BY <1>1, <1>2, <2>1, <2>2 DEF FailedInv, Marks, Complete
  <2>3. CASE ~job[p].unlinked
    <3>1. here = job[p].hdr /\ here # NoJournal /\ Complete(file.marker)
      BY <1>5, <2>1, <2>3 DEF FailedInv, AttemptComplete, RollsForward,
        Complete
    <3>2. QED
      BY <1>2, <1>3, <3>1
  <2>4. QED
    BY <2>2, <2>3
<1>6. CASE /\ pc[p] \in RollbackSteps /\ job[p].complete
           /\ pc[p] = "validate" => job[p].op = "replace"
  <2>1. pc[p] \notin Restoring
    BY <1>6 DEF CallInv, RollbackInv
  <2>2. Complete(file.marker)
    BY <1>6, <2>1 DEF CallInv, RollbackInv, Complete
  <2>3. CASE pc[p] = "validate"
    BY <1>2, <1>3, <1>6, <2>2, <2>3 DEF CallInv, RollbackInv
  <2>4. CASE pc[p] # "validate"
    <3>1. Same(file.tail, job[p].hdr.new)
      BY <1>6, <2>1, <2>4 DEF CallInv, RollbackInv
    <3>2. job[p].op = "replace" => job[p].hdr.new = job[p].new
      BY <1>6, <2>4, OwnJournal DEF Inv, IdInv
    <3>3. QED
      BY <1>2, <2>2, <3>1, <3>2
  <2>5. QED
    BY <2>3, <2>4
<1>7. QED
  BY <1>4, <1>5, <1>6

\* Where RolledBack is returned, the archive holds the bytes of the plan.
LEMMA RolledBackHolds ==
  ASSUME OneName, Inv, DiskInv, NEW p \in Procs, CallInv(p), Ended,
         \/ pc[p] = "dropMarker"
         \/ pc[p] = "rbClear" /\ ~job[p].complete /\ job[p].op = "replace"
  PROVE  /\ Same(file'.tail, job[p].base)
         /\ ~Complete(file'.marker) /\ file'.marker.st # "A"
<1>1. file'.tail = file.tail /\ file'.marker.st \in {"-", file.marker.st}
  BY DEF Ended, Cleared
<1>2. CASE pc[p] = "dropMarker"
  BY <1>1, <1>2, HdrType, SameRefl DEF Inv, CallInv, CleanupInv, Complete
<1>3. CASE pc[p] = "rbClear" /\ ~job[p].complete /\ job[p].op = "replace"
  <2>1. job[p].hdr.pre = job[p].base
    BY <1>3, OwnJournal DEF Inv, IdInv, RollbackSteps
  <2>2. Same(file.tail, job[p].hdr.pre) /\ Marks({"P"})
    BY <1>3 DEF CallInv, RollbackInv, RollbackSteps, Restoring
  <2>3. QED
    BY <1>1, <2>1, <2>2 DEF Marks, Complete
<1>4. QED
  BY <1>2, <1>3

\* The steps at which a call can return.
LEMMA ReturningSteps ==
  ASSUME Inv, NEW p \in Procs, pc[p] # "idle", pc'[p] = "idle",
         \/ StartReplace(p) \/ Probe(p) \/ ReplaceStep(p) \/ CleanupStep(p)
         \/ RecoverStep(p) \/ RollbackStep(p) \/ ErrorStep(p) \/ Kill(p)
  PROVE  \/ LockReplace(p) \/ Check(p) \/ ClearLocator(p) \/ FinishFailed(p)
         \/ DropMarker(p) \/ DoneClear(p) \/ LockRecover(p) \/ Locate(p)
         \/ StaleClear(p) \/ RbClear(p) \/ StepFails(p) \/ MarkerHalfSet(p)
         \/ Kill(p)
<1>1. ASSUME NEW s, Continue(p, s) \/ Goto(p, s) PROVE s = "idle"
  BY <1>1 DEF Continue, Goto, Inv, TypeOK
<1>2. ~StartReplace(p) /\ ~Probe(p)
  BY DEF StartReplace, Probe, At
<1>3. ReplaceStep(p) => LockReplace(p) \/ Check(p) \/ ClearLocator(p)
  BY <1>1 DEF ReplaceStep, BuildJournal, MarkPrepared, Publish,
    SyncPublished, MarkActive, Truncate, SyncTruncate, WriteChunk, SyncWrite,
    MarkComplete, Hook, MarkDone, Unlink, SyncUnlink
<1>4. ~DoneSync(p) /\ ~StaleSync(p)
  BY <1>1 DEF DoneSync, StaleSync
<1>5. RollbackStep(p) => RbClear(p)
  BY <1>1 DEF RollbackStep, Validate, RollbackFrom, RbTruncate,
    RbSyncTruncate, RbCopyChunk, RbTimes, RbSync, RbMark, RbHook, RbMarkDone,
    RbUnlink, RbSyncUnlink
<1>6. ~PublishUnseen(p)
  BY <1>1 DEF PublishUnseen
<1>7. QED
  BY <1>2, <1>3, <1>4, <1>5, <1>6 DEF CleanupStep, RecoverStep, ErrorStep

\* Each of them answers what holds.
LEMMA ReturnedResult ==
  ASSUME TypeOK, NEW p \in Procs, NEW r, Return(p, r)
  PROVE  result'[p] = r
BY DEF TypeOK, Return

\* Any other answer promises nothing about the disk.
LEMMA QuietAnswers ==
  ASSUME NEW p \in Procs, result'[p] \notin {"ok", "committed", "rolledBack"}
  PROVE  AnswersOf(p)
BY DEF AnswersOf, OkIsDurable, CommittedHoldsNew, RolledBackRestores, Returns

\* The answers given with the locator cleared.
LEMMA ClearAnswers ==
  ASSUME OneName, Inv, DiskInv, NEW p \in Procs, CallInv(p),
         \/ ClearLocator(p) \/ DropMarker(p) \/ DoneClear(p) \/ RbClear(p)
  PROVE  AnswersOf(p)
<1>1. Ended
  BY ClearsMarker DEF ClearLocator, DropMarker, DoneClear, RbClear, Ended,
    here, kept, Inv
<1>2. CASE ClearLocator(p) \/ DoneClear(p)
  <2>1. result'[p] = "ok" /\ pc[p] \in {"clear", "doneClear"}
    BY <1>2, ReturnedResult DEF ClearLocator, DoneClear, At, Inv
  <2>2. QED
    BY <1>1, <2>1, OkHolds DEF AnswersOf, OkIsDurable, CommittedHoldsNew,
      RolledBackRestores, Returns
<1>3. CASE DropMarker(p)
  <2>1. result'[p] = "rolledBack" /\ pc[p] = "dropMarker"
    BY <1>3, ReturnedResult DEF DropMarker, At, Inv
  <2>2. QED
    BY <1>1, <2>1, RolledBackHolds DEF AnswersOf, OkIsDurable,
      CommittedHoldsNew, RolledBackRestores, Returns
<1>4. CASE RbClear(p)
  <2>1. result'[p] = Applied(p) /\ pc[p] = "rbClear"
    BY <1>4, ReturnedResult DEF RbClear, At, Inv
  <2>2. job[p].op \in {"replace", "recover"}
    BY <2>1 DEF CallInv, RollbackInv, RollbackSteps
  <2>3. QED
    BY <1>1, <2>1, <2>2, OkHolds, RolledBackHolds DEF Applied, AnswersOf,
      OkIsDurable, CommittedHoldsNew, RolledBackRestores, Returns
<1>5. QED
  BY <1>2, <1>3, <1>4

\* The answers when clearing or marking it failed half way.
LEMMA HalfAnswers ==
  ASSUME OneName, Inv, DiskInv, NEW p \in Procs, CallInv(p), MarkerHalfSet(p),
         pc'[p] = "idle"
  PROVE  AnswersOf(p)
<1>1. /\ here' = here /\ kept' = kept
      /\ WriteInode(HalfMarker(p)) /\ UNCHANGED <<entry, dentry>>
  BY DEF MarkerHalfSet, here, kept
<1>2. pc[p] \in {"rbMark", "rbMarkD", "dropMarker", "doneClear", "staleClear", "rbClear"}
  BY DEF MarkerHalfSet, RunSteps, Continue, Goto, Inv, TypeOK
<1>3. result'[p] = CASE pc[p] = "dropMarker" -> "rolledBack"
                     [] pc[p] = "doneClear" -> "ok"
                     [] pc[p] = "staleClear" -> "journal"
                     [] pc[p] = "rbClear" -> Applied(p)
                     [] OTHER -> Late(p)
  BY <1>2, ReturnedResult DEF MarkerHalfSet, RunSteps, Inv
<1>4. CASE pc[p] \in {"rbMark", "rbMarkD"}
  <2>1. result'[p] = Late(p)
    BY <1>3, <1>4
  <2>2. CASE job[p].complete
    <3>1. PICK st \in {"C", "D"} : WriteInode(Marked(p, st))
      BY <1>1, <1>4, <2>2 DEF HalfMarker
    <3>2. file'.tail = file.tail /\ file'.marker.st \in {"C", "D"}
      BY <3>1, MarkHalf DEF Inv
    <3>3. result'[p] = "committed" /\ pc[p] \in RollbackSteps /\ pc[p] # "validate"
      BY <1>4, <2>1, <2>2 DEF Late, RollbackSteps
    <3>4. QED
      BY <1>1, <2>2, <3>2, <3>3, CommittedHolds DEF AnswersOf, OkIsDurable,
        CommittedHoldsNew, RolledBackRestores, Returns
  <2>3. CASE ~job[p].complete
    BY <2>1, <2>3, QuietAnswers DEF Late
  <2>4. QED
    BY <2>2, <2>3
<1>5. CASE pc[p] \in {"dropMarker", "doneClear", "rbClear"}
  <2>1. Ended
    BY <1>1, <1>5, ClearsMarker DEF HalfMarker, Ended, Inv
  <2>2. pc[p] = "rbClear" => job[p].op \in {"replace", "recover"}
    BY DEF CallInv, RollbackInv, RollbackSteps
  <2>3. QED
    BY <1>3, <1>5, <2>1, <2>2, OkHolds, RolledBackHolds DEF Applied,
      AnswersOf, OkIsDurable, CommittedHoldsNew, RolledBackRestores, Returns
<1>6. CASE pc[p] = "staleClear"
  BY <1>3, <1>6, QuietAnswers
<1>7. QED
  BY <1>2, <1>4, <1>5, <1>6

\* The answers of a call that failed.
LEMMA FailAnswers ==
  ASSUME OneName, Inv, DiskInv, NEW p \in Procs, CallInv(p), StepFails(p),
         pc'[p] = "idle"
  PROVE  AnswersOf(p)
<1>1. /\ here' = here /\ kept' = kept /\ file' = file /\ stable' = stable /\ Ended
  BY DEF StepFails, here, kept, Ended
<1>2. CASE pc[p] \in RunSteps
  <2>1. result'[p] = "refused"
    BY <1>2, ReturnedResult DEF StepFails, Fail, Continue, Goto, Inv, TypeOK
  <2>2. QED
    BY <2>1, QuietAnswers
<1>3. CASE pc[p] \notin RunSteps
  <2> DEFINE r == result'[p]
  <2>1. r \in FailureOf(p) /\ pc[p] \in LockedSteps
    BY <1>3, ReturnedResult DEF StepFails, Fail, Inv
  <2>2. CASE pc[p] \in {"check"} \cup RecoverSteps
    <3>1. r \in {"refused", "journal"}
      BY <2>1, <2>2 DEF FailureOf, RecoverSteps
    <3>2. QED
      BY <3>1, QuietAnswers
  <2>3. CASE pc[p] = "failed"
    <3>1. r = "pending" \/ (r = "committed" /\ AttemptComplete(p))
      BY <2>1, <2>3 DEF FailureOf, Unresolved, RecoverSteps
    <3>2. QED
      BY <1>1, <2>3, <3>1, CommittedHolds DEF AnswersOf, OkIsDurable,
        CommittedHoldsNew, RolledBackRestores, Returns
  <2>4. CASE pc[p] = "dropMarker"
    <3>1. r = "rolledBack"
      BY <2>1, <2>4 DEF FailureOf, RecoverSteps
    <3>2. QED
      BY <1>1, <2>4, <3>1, RolledBackHolds DEF AnswersOf, OkIsDurable,
        CommittedHoldsNew, RolledBackRestores, Returns
  <2>5. CASE pc[p] \in {"doneSync", "doneClear"}
    <3>1. r = "committed" \/ (r = "ok" /\ pc[p] = "doneClear")
      BY <2>1, <2>5 DEF FailureOf, RecoverSteps
    <3>2. QED
      BY <1>1, <2>5, <3>1, OkHolds, CommittedHolds DEF AnswersOf,
        OkIsDurable, CommittedHoldsNew, RolledBackRestores, Returns
  <2>6. CASE pc[p] \in RollbackSteps
    <3>1. \/ r = Late(p) /\ (pc[p] = "validate" => job[p].op = "replace")
          \/ r = Applied(p) /\ pc[p] = "rbClear"
          \/ r \in {"journal", "refused"}
      <4>1. CASE pc[p] = "validate"
        BY <2>1, <4>1 DEF FailureOf, RecoverSteps
      <4>2. CASE pc[p] = "rbClear"
        BY <2>1, <4>2 DEF FailureOf, RecoverSteps
      <4>3. CASE pc[p] \notin {"validate", "rbClear"}
        BY <2>1, <2>6, <4>3 DEF FailureOf, RecoverSteps, RollbackSteps
      <4>4. QED
        BY <4>1, <4>2, <4>3
    <3>2. job[p].op \in {"replace", "recover"}
      BY <2>6 DEF CallInv, RollbackInv
    <3>3. CASE r = Late(p) /\ (pc[p] = "validate" => job[p].op = "replace")
      <4>1. (r = "committed" /\ job[p].complete) \/ r \in {"journal", "pending"}
        BY <3>3 DEF Late
      <4>2. QED
        BY <1>1, <2>6, <3>3, <4>1, CommittedHolds, QuietAnswers DEF
          AnswersOf, OkIsDurable, CommittedHoldsNew, RolledBackRestores,
          Returns
    <3>4. CASE r = Applied(p) /\ pc[p] = "rbClear"
      BY <1>1, <3>2, <3>4, OkHolds, RolledBackHolds DEF Applied, AnswersOf,
        OkIsDurable, CommittedHoldsNew, RolledBackRestores, Returns
    <3>5. QED
      BY <3>1, <3>3, <3>4, QuietAnswers
  <2>7. QED
    BY <1>3, <2>1, <2>2, <2>3, <2>4, <2>5, <2>6 DEF LockedSteps, CleanupSteps
<1>4. QED
  BY <1>2, <1>3

\* The remaining ends of a call: only finish_failed, under a complete locator,
\* says Committed.
LEMMA OtherAnswers ==
  ASSUME OneName, Inv, DiskInv, NEW p \in Procs, CallInv(p), pc'[p] = "idle",
         \/ LockReplace(p) \/ Check(p) \/ LockRecover(p) \/ StaleClear(p) \/ Kill(p)
         \/ FinishFailed(p) \/ Locate(p)
  PROVE  AnswersOf(p)
<1>1. CASE LockReplace(p) \/ Check(p) \/ LockRecover(p)
  <2>1. result'[p] \in {"refused", "journal"}
    BY <1>1, ReturnedResult DEF LockReplace, Check, LockRecover, Continue,
      Goto, Inv, TypeOK
  <2>2. QED
    BY <2>1, QuietAnswers
<1>2. CASE StaleClear(p) \/ Kill(p)
  <2>1. result'[p] \in {"nothing", "dead"}
    BY <1>2, ReturnedResult DEF StaleClear, Kill, Inv
  <2>2. QED
    BY <2>1, QuietAnswers
<1>3. CASE FinishFailed(p)
  <2>1. /\ here' = here /\ kept' = kept /\ file' = file /\ pc[p] = "failed"
    BY <1>3 DEF FinishFailed, At, here, kept
  <2>2. ASSUME NEW s, Continue(p, s) PROVE s = "idle"
    BY <2>2 DEF Continue, Goto, Inv, TypeOK
  <2>3. result'[p] = Unresolved(p)
    BY <1>3, <2>2, ReturnedResult DEF FinishFailed, Inv
  <2>4. QED
    BY <2>1, <2>3, CommittedHolds, QuietAnswers DEF Unresolved, AnswersOf,
      OkIsDurable, CommittedHoldsNew, RolledBackRestores, Returns
<1>4. CASE Locate(p)
  <2>1. file' = file /\ job[p].op = "recover"
    BY <1>4 DEF Locate, At, Inv, IdInv, RecoverSteps
  <2>2. ASSUME NEW s, Continue(p, s) PROVE s = "idle"
    BY <2>2 DEF Continue, Goto, Inv, TypeOK
  <2>3. result'[p] \in {"nothing", "journal"} \/ (result'[p] = "committed" /\ file.marker.st = "C")
    BY <1>4, <2>2, ReturnedResult DEF Locate, Inv
  <2>4. QED
    BY <2>1, <2>3 DEF Complete, AnswersOf, OkIsDurable, CommittedHoldsNew,
      RolledBackRestores, Returns
<1>5. QED
  BY <1>1, <1>2, <1>3, <1>4

\* What a call returns is true when it returns.
LEMMA AnswersStep ==
  ASSUME OneName, Inv, CrashInv, [Next]_vars
  PROVE  \A p \in Procs : AnswersOf(p)
<1>1. SUFFICES ASSUME NEW p \in Procs, pc[p] # "idle", pc'[p] = "idle"
               PROVE  AnswersOf(p)
  BY DEF AnswersOf, OkIsDurable, CommittedHoldsNew, RolledBackRestores,
    Returns
<1>2. CASE PowerLoss
  <2>1. result'[p] = "dead"
    BY <1>1, <1>2 DEF PowerLoss
  <2>2. QED
    BY <2>1, QuietAnswers
<1>3. ASSUME NEW q \in Procs,
             \/ StartReplace(q) \/ Probe(q) \/ ReplaceStep(q) \/ CleanupStep(q)
             \/ RecoverStep(q) \/ RollbackStep(q) \/ ErrorStep(q) \/ Kill(q)
      PROVE  AnswersOf(p)
  <2>1. p = q
    BY <1>1, <1>3, StepApart DEF Apart, Others
  <2>2. \/ LockReplace(p) \/ Check(p) \/ ClearLocator(p) \/ FinishFailed(p)
        \/ DropMarker(p) \/ DoneClear(p) \/ LockRecover(p) \/ Locate(p)
        \/ StaleClear(p) \/ RbClear(p) \/ StepFails(p) \/ MarkerHalfSet(p)
        \/ Kill(p)
    BY <1>1, <1>3, <2>1, ReturningSteps
  <2>3. QED
    BY <1>1, <2>2, ClearAnswers, HalfAnswers, FailAnswers, OtherAnswers DEF
      CrashInv
<1>4. QED
  BY <1>1, <1>2, <1>3 DEF Next, RenameDir, vars

\* After Ok the new bytes are durable and the journal of the attempt is gone,
\* after Committed only the new version can come of what is left, and after
\* RolledBack the archive is what the caller planned on: for every schedule of
\* any number of processes, failed calls, kills and power losses.
THEOREM AnswersHoldHolds ==
  ASSUME OneName
  PROVE  Spec => AnswersHold
<1>1. Inv /\ CrashInv /\ [Next]_vars
        => [\A p \in Procs : /\ OkIsDurable(p)
                             /\ CommittedHoldsNew(p)
                             /\ RolledBackRestores(p)]_vars
  BY AnswersStep DEF AnswersOf
<1>2. QED
  BY <1>1, Invariance, CrashInvariance, PTL DEF Spec, AnswersHold

-----------------------------------------------------------------------------
(* The version on disk: the refinement of AtomicReplace.                   *)

\* The journals of a directory state, and one of them.
JournalsOf(f) == {f[d] : d \in Dirs} \ {NoJournal}
AnyOf(S) == CHOOSE j \in S : TRUE

\* With one directory there is at most one.
LEMMA OnlyKept ==
  ASSUME OneName, NEW f
  PROVE  /\ JournalsOf(f) = {} <=> f[Dir] = NoJournal
         /\ f[Dir] # NoJournal => AnyOf(JournalsOf(f)) = f[Dir]
<1>1. \A j : j \in JournalsOf(f) <=> j = f[Dir] /\ j # NoJournal
  BY OneDir DEF JournalsOf
<1>2. JournalsOf(f) = {} <=> f[Dir] = NoJournal
  BY <1>1
<1>3. ASSUME f[Dir] # NoJournal PROVE AnyOf(JournalsOf(f)) = f[Dir]
  <2>1. AnyOf(JournalsOf(f)) \in JournalsOf(f)
    BY <1>1, <1>3 DEF AnyOf
  <2>2. QED
    BY <1>1, <2>1
<1>4. QED
  BY <1>2, <1>3

\* The promised version, in the one directory.
LEMMA PromiseHere ==
  ASSUME OneName
  PROVE  /\ Promise = IF Complete(stable.marker) \/ kept = NoJournal
                      THEN VersionOf(stable.tail)
                      ELSE VersionOf(kept.pre)
         /\ Promise' = IF Complete(stable'.marker) \/ kept' = NoJournal
                       THEN VersionOf(stable'.tail)
                       ELSE VersionOf(kept'.pre)
<1>1. Promise = IF Complete(stable.marker) \/ JournalsOf(dentry) = {}
                THEN VersionOf(stable.tail)
                ELSE VersionOf(AnyOf(JournalsOf(dentry)).pre)
  BY Zenon DEF Promise, JournalsOf, AnyOf
<1>2. Promise' = IF Complete(stable'.marker) \/ JournalsOf(dentry') = {}
                 THEN VersionOf(stable'.tail)
                 ELSE VersionOf(AnyOf(JournalsOf(dentry')).pre)
  BY Zenon DEF Promise, JournalsOf, AnyOf
<1>3. QED
  BY <1>1, <1>2, OnlyKept DEF kept

\* The offered versions, in the one directory.
LEMMA OfferedHere ==
  ASSUME OneName, NEW v
  PROVE  /\ v \in Offered <=>
              \/ \E p \in Procs : job[p].op = "replace" /\ v = VersionOf(job[p].new)
              \/ here # NoJournal /\ v = VersionOf(here.new)
              \/ kept # NoJournal /\ v = VersionOf(kept.new)
         /\ v \in Offered' <=>
              \/ \E p \in Procs : job'[p].op = "replace" /\ v = VersionOf(job'[p].new)
              \/ here' # NoJournal /\ v = VersionOf(here'.new)
              \/ kept' # NoJournal /\ v = VersionOf(kept'.new)
BY OneDir DEF Offered, here, kept

\* At rest the promise is what the archive holds, with or without a journal.
LEMMA RestPromise ==
  ASSUME OneName, Inv, RestDisk
  PROVE  /\ Promise = VersionOf(file.tail)
         /\ here # NoJournal => VersionOf(here.pre) = VersionOf(file.tail)
         /\ kept # NoJournal => VersionOf(kept.pre) = VersionOf(file.tail)
<1>1. /\ file.tail \in Tail
      /\ here # NoJournal => here.pre \in Tail
      /\ kept # NoJournal => kept.pre \in Tail
  BY HereType DEF Inv, TypeOK, Inode, Journal
<1>2. /\ here # NoJournal => VersionOf(here.pre) = VersionOf(file.tail)
      /\ kept # NoJournal => VersionOf(kept.pre) = VersionOf(file.tail)
  BY <1>1, SameWhole DEF RestDisk
<1>3. QED
  BY <1>2, PromiseHere DEF RestDisk, Level, Marks, Complete

\* Only the durable locator, tail and journal matter.
LEMMA PromiseStays ==
  ASSUME OneName, stable' = stable, kept' = kept
  PROVE  Promise' = Promise
BY PromiseHere

\* A locator that is not complete, written or cleared while the journal
\* decides, and any locator while none is there.
LEMMA MarkPromise ==
  ASSUME OneName, Inv, DiskInv, kept' = kept, stable'.tail = file.tail,
         ~Complete(stable'.marker),
         file.marker.st \in {"-", "P", "A"} \/ (here = NoJournal /\ kept = NoJournal)
  PROVE  Promise' = Promise
<1>1. CASE kept = NoJournal
  <2>1. stable.tail = file.tail
    BY <1>1 DEF DiskInv, RestDisk, PendingDisk, CompleteDisk, DoneDisk,
      Durable, Level, Marks
  <2>2. QED
    BY <1>1, <2>1, PromiseHere
<1>2. CASE kept # NoJournal
  <2>1. ~Complete(stable.marker)
    BY <1>2 DEF DiskInv, RestDisk, PendingDisk, CompleteDisk, DoneDisk,
      Durable, Level, Marks, Complete
  <2>2. QED
    BY <1>2, <2>1, PromiseHere
<1>3. QED
  BY <1>1, <1>2

\* The bytes are written through to the durable copy only while the journal
\* decides.
LEMMA SyncPromise ==
  ASSUME OneName, PendingDisk, kept' = kept, stable' = file
  PROVE  Promise' = Promise
<1>1. kept # NoJournal /\ ~Complete(stable.marker) /\ ~Complete(stable'.marker)
  BY DEF PendingDisk, Durable, Marks, Complete
<1>2. QED
  BY <1>1, PromiseHere

\* A journal that goes or comes durably leaves an archive at rest what it is.
LEMMA DirPromise ==
  ASSUME OneName, Inv, DiskInv, stable' = stable, kept' = here,
         here = NoJournal \/ Marks({"P"}) \/ file.marker.st = "P"
  PROVE  Promise' = Promise
<1>1. CASE RestDisk
  <2>1. Promise' = VersionOf(file.tail)
    <3>1. CASE here = NoJournal
      BY <1>1, <3>1, PromiseHere DEF RestDisk, Level
    <3>2. CASE here # NoJournal
      BY <1>1, <3>2, RestPromise, PromiseHere DEF RestDisk, Level, Marks,
        Complete
    <3>3. QED
      BY <3>1, <3>2
  <2>2. QED
    BY <1>1, <2>1, RestPromise
<1>2. CASE PendingDisk
  BY <1>2, PromiseStays DEF PendingDisk, Durable
<1>3. CASE DoneDisk
  BY <1>3, PromiseHere DEF DoneDisk, Marks, Complete
<1>4. QED
  BY <1>1, <1>2, <1>3 DEF DiskInv, CompleteDisk, Durable, Marks

\* A complete locator decides for the new version, which the journal offers.
LEMMA CompletePromise ==
  ASSUME OneName, Inv, CompleteDisk, kept' = kept, stable'.tail = file.tail,
         Complete(stable'.marker)
  PROVE  Promise' = Promise \/ Promise' \in Offered
<1>1. file.tail \in Tail /\ here.new \in Tail /\ here # NoJournal
  BY HereType DEF Inv, TypeOK, Inode, CompleteDisk, Durable, Journal
<1>2. VersionOf(file.tail) = VersionOf(here.new)
  BY <1>1, SameWhole DEF CompleteDisk
<1>3. Promise' = VersionOf(file.tail)
  BY PromiseHere
<1>4. VersionOf(here.new) \in Offered
  BY <1>1, OfferedHere
<1>5. QED
  BY <1>2, <1>3, <1>4

\* The version on disk changes only to one that is offered.
LEMMA ReplacePromise ==
  ASSUME OneName, Inv, DiskInv, NEW p \in Procs, CallInv(p), ReplaceStep(p)
  PROVE  Promise' = Promise \/ Promise' \in Offered
<1>1. CASE LockReplace(p) \/ Check(p) \/ BuildJournal(p) \/ Publish(p) \/ Truncate(p)
           \/ WriteChunk(p) \/ Hook(p) \/ Unlink(p)
  <2>1. stable' = stable /\ dentry' = dentry
    BY <1>1 DEF LockReplace, Check, BuildJournal, Publish, Truncate,
      WriteChunk, WriteInode, Hook, Unlink, Remove
  <2>2. QED
    BY <2>1, PromiseStays DEF kept
<1>2. CASE MarkPrepared(p) \/ MarkActive(p)
  <2>1. /\ kept' = kept /\ file.marker.st \in {"-", "P", "A"}
        /\ \E st \in {"P", "A"} : WriteThrough(Marked(p, st))
    BY <1>2 DEF MarkPrepared, MarkActive, At, kept, CallInv, PrepareInv, Marks
  <2>2. QED
    BY <2>1, MarkThrough, MarkPromise DEF Inv, Complete
<1>3. CASE SyncPublished(p)
  <2>1. stable' = stable /\ kept' = here /\ Marks({"P"})
    BY <1>3, HereSync DEF SyncPublished, At, Inv, CallInv, PrepareInv
  <2>2. QED
    BY <2>1, DirPromise
<1>4. CASE SyncTruncate(p) \/ SyncWrite(p)
  <2>1. stable' = file /\ kept' = kept /\ PendingDisk
    BY <1>4 DEF SyncTruncate, SyncWrite, SyncInode, At, kept, CallInv,
      RewriteInv, Rewrites
  <2>2. QED
    BY <2>1, SyncPromise
<1>5. CASE MarkComplete(p)
  <2>1. /\ pc[p] = "markC" /\ WriteThrough(Marked(p, "C"))
    BY <1>5 DEF MarkComplete, At
  <2>2. stable'.tail = job[p].new /\ Complete(stable'.marker) /\ job[p].op = "replace"
    BY <2>1, MarkThrough DEF Inv, CallInv, RewriteInv, Complete, IdInv,
      ReplaceSteps, RunSteps
  <2>3. QED
    BY <2>2, PromiseHere, OfferedHere
<1>6. CASE MarkDone(p)
  <2>1. kept' = kept /\ WriteThrough(Marked(p, "D")) /\ CompleteDisk
    BY <1>6 DEF MarkDone, At, kept, CallInv, CompleteInv
  <2>2. QED
    BY <2>1, MarkThrough, CompletePromise DEF Inv, Complete
<1>7. CASE SyncUnlink(p)
  <2>1. stable' = stable /\ kept' = here /\ here = NoJournal
    BY <1>7, HereSync DEF SyncUnlink, At, Inv, CallInv, CompleteInv
  <2>2. QED
    BY <2>1, DirPromise
<1>8. CASE ClearLocator(p)
  <2>1. kept' = kept /\ Cleared /\ here = NoJournal /\ kept = NoJournal
    BY <1>8, ClearsMarker DEF ClearLocator, At, kept, Inv, CallInv,
      CompleteInv
  <2>2. QED
    BY <2>1, PromiseStays, MarkPromise DEF Cleared, Complete
<1>9. QED
  BY <1>1, <1>2, <1>3, <1>4, <1>5, <1>6, <1>7, <1>8 DEF ReplaceStep

\* finish_failed and the way into a recovery decide nothing.
LEMMA CleanupPromise ==
  ASSUME OneName, Inv, DiskInv, NEW p \in Procs, CallInv(p), CleanupStep(p) \/ RecoverStep(p)
  PROVE  Promise' = Promise
<1>1. CASE FinishFailed(p) \/ LockRecover(p) \/ Locate(p)
  <2>1. stable' = stable /\ dentry' = dentry
    BY <1>1 DEF FinishFailed, LockRecover, Locate
  <2>2. QED
    BY <2>1, PromiseStays DEF kept
<1>2. CASE DropMarker(p) \/ DoneClear(p) \/ StaleClear(p)
  <2>1. kept' = kept /\ Cleared
    BY <1>2, ClearsMarker DEF DropMarker, DoneClear, StaleClear, kept, Inv
  <2>2. file.marker.st \in {"-", "P", "A"} \/ (here = NoJournal /\ kept = NoJournal)
    BY <1>2 DEF DropMarker, DoneClear, StaleClear, At, CallInv, CleanupInv,
      RollbackInv
  <2>3. QED
    BY <2>1, <2>2, PromiseStays, MarkPromise DEF Cleared, Complete
<1>3. CASE DoneSync(p)
  <2>1. stable' = stable /\ kept' = here /\ here = NoJournal
    BY <1>3, HereSync DEF DoneSync, At, Inv, CallInv, CleanupInv
  <2>2. QED
    BY <2>1, DirPromise
<1>4. CASE StaleSync(p)
  <2>1. stable' = stable /\ kept' \in {here, kept} /\ file.marker.st = "P"
    BY <1>4, HereSync DEF StaleSync, At, Inv, CallInv, RollbackInv, kept
  <2>2. QED
    BY <2>1, DirPromise, PromiseStays
<1>5. QED
  BY <1>1, <1>2, <1>3, <1>4 DEF CleanupStep, RecoverStep

\* A recovery may complete what was on its way and restores no other version.
LEMMA RollbackPromise ==
  ASSUME OneName, Inv, DiskInv, NEW p \in Procs, CallInv(p), RollbackStep(p)
  PROVE  Promise' = Promise \/ Promise' \in Offered
<1>1. CASE Validate(p) \/ RbTruncate(p) \/ RbCopyChunk(p) \/ RbTimes(p) \/ RbHook(p)
           \/ RbUnlink(p)
  <2>1. stable' = stable /\ dentry' = dentry
    BY <1>1 DEF Validate, RbTruncate, RbCopyChunk, RbTimes, WriteInode,
      RbHook, RbUnlink, Remove
  <2>2. QED
    BY <2>1, PromiseStays DEF kept
<1>2. CASE RbSyncTruncate(p) \/ RbSync(p)
  <2>1. stable' = file /\ kept' = kept /\ PendingDisk
    BY <1>2 DEF RbSyncTruncate, RbSync, SyncInode, At, kept, CallInv,
      RollbackInv, Restoring
  <2>2. QED
    BY <2>1, SyncPromise
<1>3. CASE RbMark(p) \/ RbMarkDone(p)
  <2>1. /\ kept' = kept /\ here = job[p].hdr /\ here # NoJournal
        /\ pc[p] \in {"rbMark", "rbMarkD"}
    BY <1>3 DEF RbMark, RbMarkDone, At, kept, CallInv, RollbackInv, Inv,
      IdInv, RollbackSteps
  <2>2. CASE job[p].complete
    <3>1. \E st \in {"C", "D"} : WriteThrough(Marked(p, st))
      BY <1>3, <2>2 DEF RbMark, RbMarkDone
    <3>2. CompleteDisk
      BY <2>1, <2>2 DEF CallInv, RollbackInv, RollbackSteps, Restoring,
        DiskInv, RestDisk, PendingDisk, CompleteDisk, DoneDisk, Durable,
        Level, Marks
    <3>3. QED
      BY <2>1, <3>1, <3>2, MarkThrough, CompletePromise DEF Inv, Complete
  <2>3. CASE ~job[p].complete
    <3>1. WriteThrough(Marked(p, "P")) /\ pc[p] = "rbMark"
      BY <1>3, <2>1, <2>3 DEF RbMark, RbMarkDone, At, CallInv, RollbackInv
    <3>2. file.marker.st \in {"-", "P", "A"}
      BY <2>3, <3>1, HdrType DEF CallInv, RollbackInv, RollbackSteps,
        Restoring, Inv, Marker, Phases
    <3>3. QED
      BY <2>1, <3>1, <3>2, MarkThrough, MarkPromise DEF Inv, Complete
  <2>4. QED
    BY <2>2, <2>3
<1>4. CASE RbSyncUnlink(p)
  <2>1. stable' = stable /\ kept' = here /\ here = NoJournal
    BY <1>4, HereSync DEF RbSyncUnlink, At, Inv, CallInv, RollbackInv
  <2>2. QED
    BY <2>1, DirPromise
<1>5. CASE RbClear(p)
  <2>1. kept' = kept /\ Cleared /\ here = NoJournal /\ kept = NoJournal
    BY <1>5, ClearsMarker DEF RbClear, At, kept, Inv, CallInv, RollbackInv
  <2>2. QED
    BY <2>1, PromiseStays, MarkPromise DEF Cleared, Complete
<1>6. QED
  BY <1>1, <1>2, <1>3, <1>4, <1>5 DEF RollbackStep

\* A power loss decides a completion that was on its way, and nothing else.
LEMMA PowerLossPromise ==
  ASSUME OneName, Inv, DiskInv, PowerLoss
  PROVE  Promise' = Promise \/ Promise' \in Offered
<1>1. /\ file'.tail \in TailImages(stable.tail, file.tail)
      /\ file'.marker \in {stable.marker, file.marker}
      /\ stable' = file' /\ kept' = here' /\ here' \in {here, kept}
  BY PowerLossLeaves DEF Inv
<1>2. Level => stable'.tail = file.tail
  BY <1>1, LevelImages DEF Level, Inv, TypeOK, Inode
<1>3. CASE RestDisk
  <2>1. Promise' = VersionOf(file.tail)
    <3>1. CASE kept' = NoJournal
      BY <1>2, <1>3, <3>1, PromiseHere DEF RestDisk
    <3>2. CASE kept' # NoJournal
      <4>1. ~Complete(stable'.marker) /\ VersionOf(kept'.pre) = VersionOf(file.tail)
        BY <1>1, <1>3, <3>2, RestPromise DEF RestDisk, Marks, Complete
      <4>2. QED
        BY <3>2, <4>1, PromiseHere
    <3>3. QED
      BY <3>1, <3>2
  <2>2. QED
    BY <1>3, <2>1, RestPromise
<1>4. CASE PendingDisk
  <2>1. /\ kept' = kept /\ kept # NoJournal
        /\ ~Complete(stable.marker) /\ ~Complete(stable'.marker)
    BY <1>1, <1>4 DEF PendingDisk, Durable, Marks, Complete
  <2>2. QED
    BY <2>1, PromiseHere
<1>5. CASE CompleteDisk
  <2>1. kept' = kept /\ kept # NoJournal /\ stable'.tail = file.tail
    BY <1>1, <1>2, <1>5 DEF CompleteDisk, Durable
  <2>2. CASE Complete(stable'.marker)
    BY <1>5, <2>1, <2>2, CompletePromise
  <2>3. CASE ~Complete(stable'.marker)
    <3>1. ~Complete(stable.marker)
      BY <1>1, <1>5, <2>3 DEF CompleteDisk, Complete
    <3>2. QED
      BY <2>1, <2>3, <3>1, PromiseHere
  <2>4. QED
    BY <2>2, <2>3
<1>6. CASE DoneDisk
  <2>1. /\ Complete(stable.marker) /\ Complete(stable'.marker)
        /\ stable'.tail = stable.tail
    BY <1>1, <1>2, <1>6 DEF DoneDisk, Marks, Level, Complete
  <2>2. QED
    BY <2>1, PromiseHere
<1>7. QED
  BY <1>3, <1>4, <1>5, <1>6 DEF DiskInv

-----------------------------------------------------------------------------
(* The offered versions.                                                   *)

\* A call never takes up a new version under way.
NewKept(p) ==
  job'[p].op = "replace" => job[p].op = "replace" /\ job'[p].new = job[p].new

\* The assignments to job that the actions make.
LEMMA JobKeepsNew ==
  ASSUME TypeOK, NEW p \in Procs, NEW x, NEW b,
         \/ UNCHANGED job
         \/ \E r : Return(p, r)
         \/ job' = [job EXCEPT ![p].hdr = x]
         \/ job' = [job EXCEPT ![p].prepared = b]
         \/ job' = [job EXCEPT ![p].published = b]
         \/ job' = [job EXCEPT ![p].completed = b]
         \/ job' = [job EXCEPT ![p].unlinked = b]
         \/ job' = [job EXCEPT ![p].synced = b]
         \/ job' = [job EXCEPT ![p].complete = b]
         \/ job' = [job EXCEPT ![p].jpath = x]
         \/ job' = [job EXCEPT ![p].jpath = x, ![p].complete = b]
         \/ job' = [job EXCEPT ![p] = [NoJob EXCEPT !.op = "recover", !.via = x]]
  PROVE  NewKept(p)
<1>1. job[p] \in Job /\ job \in [Procs -> Job]
  BY DEF TypeOK
<1>2. ASSUME NEW r, Return(p, r) PROVE NewKept(p)
  BY <1>1, <1>2 DEF Return, NoJob, NewKept
<1>3. ASSUME job' = [job EXCEPT ![p] = [NoJob EXCEPT !.op = "recover", !.via = x]]
      PROVE  NewKept(p)
  <2>1. job'[p].op = "recover"
    BY <1>1, <1>3 DEF NoJob
  <2>2. QED
    BY <2>1 DEF NewKept
<1>4. QED
  BY <1>1, <1>2, <1>3 DEF NewKept, Job

\* Every step but the start of a replacement.
LEMMA StepKeepsNew ==
  ASSUME Inv, NEW p \in Procs,
         \/ Probe(p) \/ ReplaceStep(p) \/ CleanupStep(p)
         \/ RecoverStep(p) \/ RollbackStep(p) \/ ErrorStep(p) \/ Kill(p)
  PROVE  NewKept(p)
<1>1. TypeOK
  BY DEF Inv
<1>2. ASSUME ReplaceStep(p) PROVE NewKept(p)
  BY <1>1, <1>2, JobKeepsNew DEF ReplaceStep, LockReplace, Check,
    BuildJournal, MarkPrepared, Publish, SyncPublished, MarkActive, Truncate,
    SyncTruncate, WriteChunk, SyncWrite, MarkComplete, Hook, MarkDone,
    Unlink, SyncUnlink, ClearLocator
<1>3. ASSUME CleanupStep(p) \/ RecoverStep(p) PROVE NewKept(p)
  BY <1>1, <1>3, JobKeepsNew DEF CleanupStep, FinishFailed, DropMarker,
    DoneSync, DoneClear, RecoverStep, LockRecover, Locate, StaleSync,
    StaleClear
<1>4. ASSUME RollbackStep(p) PROVE NewKept(p)
  BY <1>1, <1>4, JobKeepsNew DEF RollbackStep, Validate, RbTruncate,
    RbSyncTruncate, RbCopyChunk, RbTimes, RbSync, RbMark, RbHook, RbMarkDone,
    RbUnlink, RbSyncUnlink, RbClear
<1>5. ASSUME ErrorStep(p) \/ Kill(p) \/ Probe(p) PROVE NewKept(p)
  BY <1>1, <1>5, JobKeepsNew DEF ErrorStep, StepFails, Fail, MarkerHalfSet,
    PublishUnseen, Kill, Probe
<1>6. QED
  BY <1>2, <1>3, <1>4, <1>5

\* A journal on disk is one that was there, or one of a replacement under way.
LEMMA JournalsOffered ==
  ASSUME OneName, Inv, DiskInv, NEW p \in Procs, CallInv(p),
         \/ StartReplace(p) \/ Probe(p) \/ ReplaceStep(p) \/ CleanupStep(p)
         \/ RecoverStep(p) \/ RollbackStep(p) \/ ErrorStep(p) \/ Kill(p)
  PROVE  \A j \in {here', kept'} \ {NoJournal} :
           \/ j \in {here, kept}
           \/ job[p].op = "replace" /\ j.new = job[p].new
<1>1. ASSUME Publish(p) \/ PublishUnseen(p)
      PROVE  kept' = kept /\ here' = job[p].hdr /\ job[p].op = "replace"
             /\ job[p].hdr.new = job[p].new
  <2>1. pc[p] = "publish" /\ here' = job[p].hdr /\ kept' = kept
    BY <1>1, PublishKeeps DEF Publish, PublishUnseen, At
  <2>2. job[p].op = "replace" /\ job[p].hdr # NoJournal
    BY <2>1 DEF CallInv, PrepareInv, Inv, IdInv, ReplaceSteps, RunSteps
  <2>3. QED
    BY <2>1, <2>2, OwnJournal
<1>2. ASSUME DiskKept PROVE {here', kept'} \subseteq {here, kept, NoJournal}
  BY <1>2, OneDir DEF DiskKept, here, kept
<1>3. Publish(p) \/ PublishUnseen(p) \/ DiskKept
  <2>1. LockReplace(p) \/ Check(p) \/ BuildJournal(p) \/ Validate(p) \/ StartReplace(p) => DiskKept
    BY DEF LockReplace, Check, BuildJournal, Validate, StartReplace, DiskKept
  <2>2. QED
    BY <2>1, ShapeStep, ProbeShape DEF Shape, Inv
<1>4. QED
  BY <1>1, <1>2, <1>3

\* No step but the start of a replacement offers a version.
LEMMA StepOffers ==
  ASSUME OneName, Inv, DiskInv, NEW p \in Procs, CallInv(p),
         \/ Probe(p) \/ ReplaceStep(p) \/ CleanupStep(p)
         \/ RecoverStep(p) \/ RollbackStep(p) \/ ErrorStep(p) \/ Kill(p)
  PROVE  Offered' \subseteq Offered
<1>1. NewKept(p) /\ Others(p)
  BY StepKeepsNew, StepApart DEF Apart
<1>2. \A q \in Procs : job'[q].op = "replace" =>
        job[q].op = "replace" /\ job'[q].new = job[q].new
  BY <1>1 DEF NewKept, Others
<1>3. \A j \in {here', kept'} \ {NoJournal} :
        j \in {here, kept} \/ (job[p].op = "replace" /\ j.new = job[p].new)
  BY JournalsOffered
<1>4. ASSUME NEW v, v \in Offered' PROVE v \in Offered
  <2>1. ASSUME NEW q \in Procs, job'[q].op = "replace", v = VersionOf(job'[q].new)
        PROVE  v \in Offered
    BY <1>2, <2>1, OfferedHere
  <2>2. ASSUME NEW j \in {here', kept'} \ {NoJournal}, v = VersionOf(j.new)
        PROVE  v \in Offered
    <3>1. CASE j \in {here, kept}
      BY <2>2, <3>1, OfferedHere
    <3>2. CASE job[p].op = "replace" /\ j.new = job[p].new
      BY <2>2, <3>2, OfferedHere
    <3>3. QED
      BY <1>3, <3>1, <3>2
  <2>3. QED
    BY <1>4, <2>1, <2>2, OfferedHere
<1>5. QED
  BY <1>4

\* A replacement that starts offers one version.
LEMMA StartOffers ==
  ASSUME OneName, Inv, DiskInv, NEW p \in Procs, CallInv(p), StartReplace(p)
  PROVE  \E c \in Contents : Offered' = Offered \cup {c}
<1>1. here' = here /\ kept' = kept /\ Others(p) /\ job[p].op = "none"
  BY StepApart DEF StartReplace, At, here, kept, Apart, CallInv, PlanOf
<1>2. PICK c \in Contents : job'[p].op = "replace" /\ job'[p].new = Full(c)
  BY DEF StartReplace, NoJob, Inv, TypeOK
<1>3. VersionOf(Full(c)) \in Contents
  BY FullWhole, WholeVersion
<1>4. ASSUME NEW v
      PROVE  v \in Offered' <=> v \in Offered \/ v = VersionOf(Full(c))
  <2>1. (\E q \in Procs : job'[q].op = "replace" /\ v = VersionOf(job'[q].new))
          <=> \/ \E q \in Procs : job[q].op = "replace" /\ v = VersionOf(job[q].new)
              \/ v = VersionOf(Full(c))
    <3>1. ASSUME NEW q \in Procs, q # p PROVE job'[q] = job[q]
      BY <1>1, <3>1 DEF Others
    <3>2. ASSUME NEW q \in Procs, job[q].op = "replace", v = VersionOf(job[q].new)
          PROVE  job'[q].op = "replace" /\ v = VersionOf(job'[q].new)
      <4>1. q # p
        BY <1>1, <3>2
      <4>2. QED
        BY <3>1, <3>2, <4>1
    <3>3. ASSUME NEW q \in Procs, job'[q].op = "replace", v = VersionOf(job'[q].new)
          PROVE  (job[q].op = "replace" /\ v = VersionOf(job[q].new)) \/ v = VersionOf(Full(c))
      <4>1. CASE q = p
        BY <1>2, <3>3, <4>1
      <4>2. CASE q # p
        BY <3>1, <3>3, <4>2
      <4>3. QED
        BY <4>1, <4>2
    <3>4. v = VersionOf(Full(c)) => v = VersionOf(job'[p].new)
      BY <1>2
    <3>5. QED
      BY <1>2, <3>2, <3>3, <3>4
  <2>2. QED
    BY <1>1, <2>1, OfferedHere
<1>5. Offered' = Offered \cup {VersionOf(Full(c))}
  BY <1>4
<1>6. QED
  BY <1>3, <1>5

-----------------------------------------------------------------------------
(* The refinement.                                                         *)

\* Initial states map to initial states.
LEMMA AtomicInit ==
  ASSUME OneName, Init
  PROVE  Promise \in Contents /\ Offered = {}
<1>1. /\ here = NoJournal /\ kept = NoJournal /\ stable.tail = Full(Base)
  BY OneDir DEF Init, here, kept
<1>2. Promise = VersionOf(Full(Base))
  BY <1>1, PromiseHere
<1>3. \A p \in Procs : job[p].op = "none"
  BY DEF Init, NoJob
<1>4. \A v : v \notin Offered
  BY <1>1, <1>3, OfferedHere
<1>5. QED
  BY <1>2, <1>4, FullWhole, WholeVersion

\* Every step maps to an offer, a decision, a withdrawal or a stutter.
LEMMA AtomicStep ==
  ASSUME OneName, Inv, CrashInv, [Next]_vars
  PROVE  \/ \E c \in Contents : Offered' = Offered \cup {c} /\ Promise' = Promise
         \/ Promise' \in Offered /\ Offered' \subseteq Offered
         \/ Offered' \subseteq Offered /\ Promise' = Promise
<1>1. ASSUME NEW p \in Procs, StartReplace(p)
      PROVE  \E c \in Contents : Offered' = Offered \cup {c} /\ Promise' = Promise
  <2>1. stable' = stable /\ kept' = kept
    BY <1>1 DEF StartReplace, kept
  <2>2. QED
    BY <1>1, <2>1, StartOffers, PromiseStays DEF CrashInv
<1>2. ASSUME NEW p \in Procs,
             \/ Probe(p) \/ ReplaceStep(p) \/ CleanupStep(p)
             \/ RecoverStep(p) \/ RollbackStep(p) \/ ErrorStep(p) \/ Kill(p)
      PROVE  Offered' \subseteq Offered /\ (Promise' = Promise \/ Promise' \in Offered)
  <2>1. Offered' \subseteq Offered
    BY <1>2, StepOffers DEF CrashInv
  <2>2. ASSUME Probe(p) \/ ErrorStep(p) \/ Kill(p) PROVE Promise' = Promise
    <3>1. stable' = stable /\ dentry' = dentry
      BY <2>2 DEF Probe, ErrorStep, StepFails, MarkerHalfSet, WriteInode,
        PublishUnseen, Kill
    <3>2. QED
      BY <3>1, PromiseStays DEF kept
  <2>3. QED
    BY <1>2, <2>1, <2>2, ReplacePromise, CleanupPromise, RollbackPromise DEF
      CrashInv
<1>3. ASSUME PowerLoss
      PROVE  Offered' \subseteq Offered /\ (Promise' = Promise \/ Promise' \in Offered)
  <2>1. \A q \in Procs : job'[q].op = "none"
    BY <1>3 DEF PowerLoss, NoJob
  <2>2. here' \in {here, kept} /\ kept' \in {here, kept}
    BY <1>3, PowerLossLeaves DEF Inv
  <2>3. ASSUME NEW v, v \in Offered' PROVE v \in Offered
    BY <2>1, <2>2, <2>3, OfferedHere
  <2>4. QED
    BY <1>3, <2>3, PowerLossPromise DEF CrashInv
<1>4. ASSUME UNCHANGED <<stable, entry, dentry, job>>
      PROVE  Offered' = Offered /\ Promise' = Promise
  <2>1. Offered' = Offered
    BY <1>4 DEF Offered
  <2>2. QED
    BY <1>4, <2>1, PromiseStays DEF kept
<1>5. QED
  BY <1>1, <1>2, <1>3, <1>4 DEF Next, RenameDir, vars

\* The journal implements the atomic replacement of AtomicReplace: through
\* crashes, failed cleanups and recoveries of any number of processes the
\* version on disk changes only to one that is offered, in a single step, and
\* a decision is never taken back.
THEOREM AtomicHolds ==
  ASSUME OneName
  PROVE  Spec => Atomic
<1>1. Init => Abstract!Init
  BY AtomicInit DEF Abstract!Init
<1>2. Inv /\ CrashInv /\ [Next]_vars => [Abstract!Next]_<<Promise, Offered>>
  BY AtomicStep DEF Abstract!Next, Abstract!Offer, Abstract!Decide,
    Abstract!Withdraw
<1>3. QED
  BY <1>1, <1>2, Invariance, CrashInvariance, PTL DEF Spec, Atomic,
    Abstract!Spec
=============================================================================
