--------------------------- MODULE RetainedProofs ---------------------------
(***************************************************************************)
(* Proofs about RetainedCommit, for every set of IDs, every number of      *)
(* attempts and every --max-retained: a reported commit stays, every tree  *)
(* in retained/ has its record, and a tree never outlives its lowers.      *)
(*                                                                         *)
(* None of the three is inductive.  They rest on what the memory of a      *)
(* daemon says of the disk (MemoryInv), on what each step of a finalize    *)
(* may rely on (JobInv), on the log in memory being the log on disk unless *)
(* it is broken (LogInv), and on a place that a rename gave and both       *)
(* directory syncs made durable never being left again (KeptInv).          *)
(***************************************************************************)
EXTENDS RetainedCommit, TLAPS

JobSteps == {"sync", "record", "rename", "abort", "ack"}
CommitSteps == {"record", "rename", "abort"}

Types == RetTypeOK /\ (job = NoJob \/ job \in [at : JobSteps, i : Inst])

\* A daemon that is down remembers nothing.
DownInv ==
  ~up => /\ attempts = {} /\ served = {} /\ acked = {} /\ pins = {}
         /\ live = {} /\ ~logBroken /\ job = NoJob

\* An attempt that was not drawn left no trace.
DrawnInv ==
  \A i \in Inst \ Drawn :
    /\ tree[i] = "none" /\ safeTree[i] = "none" /\ over[i] = {}
    /\ \A set \in Logs : i \notin set

\* Memory holds the log's records, the only ones unless the log is broken.
LogInv == up => live = recs /\ (~logBroken => doubt = {})

\* What a running daemon's maps say of the trees.
MemoryInv ==
  /\ \A i \in attempts : tree[i] = "attempts" /\ content[i] # "damaged"
                         /\ (content[i] = "dropped" => poisoned)
  /\ \A i \in served : tree[i] = "retained"
  /\ \A i \in acked : safeTree[i] = "retained"
  /\ \A i, j \in attempts : idOf[i] = idOf[j] => i = j

\* What a step of finalize may rely on.
JobInv ==
  job # NoJob =>
    /\ ~poisoned
    /\ job.at = "sync" => job.i \in attempts \cup served
    /\ job.at \in {"sync"} \cup CommitSteps /\ job.i \in attempts => ~logBroken
    /\ job.at \in CommitSteps => /\ job.i \in attempts
                                 /\ safeTree[job.i] = "attempts"
                                 /\ content[job.i] = "safe"
    /\ job.at \in {"rename", "abort"} => job.i \in recs
    /\ job.at = "ack" => job.i \in served

MayRetain(i) == tree[i] = "retained" \/ safeTree[i] = "retained"

\* A tree in retained/, or that a crash may leave there, has its content and
\* its record, and shares its ID with no other tree and no live attempt.
TreeInv ==
  \A i \in Inst : MayRetain(i) =>
    /\ content[i] = "safe"
    /\ \A set \in Logs : i \in set
    /\ \A j \in Inst : j # i /\ idOf[j] = idOf[i]
                       => ~MayRetain(j) /\ j \notin attempts

\* In retained/ for ever.
Kept(i) == tree[i] = "retained" /\ safeTree[i] = "retained"

KeptInv ==
  /\ \A i \in reported : Kept(i)
  /\ \A i \in Inst : \A j \in over[i] : Kept(j)

RetInv == Types /\ DownInv /\ DrawnInv /\ LogInv /\ MemoryInv /\ JobInv
          /\ TreeInv /\ KeptInv

-----------------------------------------------------------------------------
(* Every action keeps the invariant.                                       *)

\* The records a line of the log leaves are attempts.
LEMMA LineType ==
  ASSUME RetInv, job.at \in {"record", "abort"},
         NEW set \in {Recorded(live, job.i), Aborted(live, job.i)}
  PROVE  set \in SUBSET Inst
BY DEF RetInv, Types, RetTypeOK, NoJob, Recorded, Aborted

\* So are the records of the line a killed daemon was appending.
LEMMA InFlightType ==
  ASSUME RetInv
  PROVE  InFlight \in SUBSET SUBSET Inst
BY LineType DEF InFlight

\* new: the draw takes an ID that no record and no live attempt has.
LEMMA NewAttemptInv ==
  ASSUME RetInv, NEW i \in Inst, NEW id \in AttemptIds, NEW keep \in BOOLEAN,
         NEW lowers \in SUBSET Inst, NewAttempt(i, id, keep, lowers)
  PROVE  RetInv'
<1>1. Types'
  BY RetainAssumption DEF NewAttempt, RetInv, Types, RetTypeOK, Places,
    Drawn, log
<1>2. DownInv'
  BY DEF NewAttempt, Idle, DownInv
<1>3. DrawnInv'
  BY RetainAssumption DEF NewAttempt, RetInv, Types, RetTypeOK, Drawn,
    DrawnInv, Logs, log
<1>4. LogInv'
  BY DEF NewAttempt, RetInv, LogInv, log
<1>5. MemoryInv'
  BY DEF NewAttempt, Name, RetInv, Types, RetTypeOK, MemoryInv
<1>6. JobInv'
  BY DEF NewAttempt, Idle, RetInv, JobInv, CommitSteps
<1>7. TreeInv'
  BY DEF NewAttempt, Held, Name, Idle, RetInv, Types, RetTypeOK, DrawnInv,
    LogInv, TreeInv, MayRetain, Logs, log
<1>8. KeptInv'
  BY DEF NewAttempt, Lowers, RetInv, Types, RetTypeOK, DrawnInv, MemoryInv,
    Kept, KeptInv
<1>9. QED
  BY <1>1, <1>2, <1>3, <1>4, <1>5, <1>6, <1>7, <1>8 DEF RetInv

\* destroy removes a live attempt, never a retained tree.
LEMMA DestroyInv ==
  ASSUME RetInv, NEW i \in Inst, Destroy(i)
  PROVE  RetInv'
<1>1. Types'
  BY DEF Destroy, RetInv, Types, RetTypeOK, Places, Drawn, plan, log
<1>2. DownInv'
  BY DEF Destroy, Idle, DownInv
<1>3. DrawnInv'
  BY DEF Destroy, RetInv, Drawn, DrawnInv, Logs, plan, log
<1>4. LogInv'
  BY DEF Destroy, RetInv, LogInv, log
<1>5. MemoryInv'
  BY DEF Destroy, RetInv, MemoryInv, plan
<1>6. JobInv'
  BY DEF Destroy, Idle, RetInv, JobInv, CommitSteps
<1>7. TreeInv'
  BY DEF Destroy, RetInv, TreeInv, MayRetain, Logs, plan, log
<1>8. KeptInv'
  BY DEF Destroy, RetInv, MemoryInv, Kept, KeptInv, plan
<1>9. QED
  BY <1>1, <1>2, <1>3, <1>4, <1>5, <1>6, <1>7, <1>8 DEF RetInv

\* finalize starts on a healthy device.
LEMMA FinalizeInv ==
  ASSUME RetInv, NEW i \in Inst, Finalize(i) \/ Refinalize(i)
  PROVE  RetInv'
<1>1. Types'
  BY DEF Finalize, Refinalize, At, RetInv, Types, RetTypeOK, JobSteps, Drawn,
    plan, disk, log, memory
<1>2. DownInv'
  BY DEF Finalize, Refinalize, RetInv, DownInv
<1>3. DrawnInv'
  BY DEF Finalize, Refinalize, RetInv, Drawn, DrawnInv, Logs, plan, disk, log
<1>4. LogInv'
  BY DEF Finalize, Refinalize, At, Idle, RetInv, Types, RetTypeOK, JobSteps,
    NoJob, Places, Drawn, DownInv, DrawnInv, LogInv, MemoryInv, JobInv,
    CommitSteps, TreeInv, MayRetain, Logs, Kept, KeptInv, plan, disk, log,
    memory
<1>5. MemoryInv'
  BY DEF Finalize, Refinalize, RetInv, MemoryInv, plan, disk, memory
<1>6. JobInv'
  BY DEF Finalize, Refinalize, At, RetInv, MemoryInv, JobInv, CommitSteps,
    log, memory
<1>7. TreeInv'
  BY DEF Finalize, Refinalize, RetInv, TreeInv, MayRetain, Logs, plan, disk,
    log, memory
<1>8. KeptInv'
  BY DEF Finalize, Refinalize, RetInv, Kept, KeptInv, plan, disk
<1>9. QED
  BY <1>1, <1>2, <1>3, <1>4, <1>5, <1>6, <1>7, <1>8 DEF RetInv

\* R1: the content is safe before anything is recorded.
LEMMA SyncContentInv ==
  ASSUME RetInv, SyncContent
  PROVE  RetInv'
<1>1. Types'
  BY DEF SyncContent, At, RetInv, Types, RetTypeOK, JobSteps, NoJob, Drawn,
    plan, log, memory
<1>2. DownInv'
  BY DEF SyncContent, DownInv
<1>3. DrawnInv'
  BY DEF SyncContent, RetInv, Types, RetTypeOK, Drawn, DrawnInv, Logs, plan,
    log
<1>4. LogInv'
  BY DEF SyncContent, RetInv, LogInv, log
<1>5. MemoryInv'
  BY DEF SyncContent, RetInv, Types, RetTypeOK, Drawn, MemoryInv, plan,
    memory
<1>6. JobInv'
  BY DEF SyncContent, At, RetInv, Types, RetTypeOK, NoJob, MemoryInv, JobInv,
    CommitSteps, log, memory
<1>7. TreeInv'
  BY DEF SyncContent, RetInv, Types, RetTypeOK, TreeInv, MayRetain, Logs,
    plan, log, memory
<1>8. KeptInv'
  BY DEF SyncContent, RetInv, Types, RetTypeOK, Drawn, MemoryInv, Kept,
    KeptInv, plan
<1>9. QED
  BY <1>1, <1>2, <1>3, <1>4, <1>5, <1>6, <1>7, <1>8 DEF RetInv

\* R1 fails: what an fsync dropped is on a poisoned device.
LEMMA SyncFailsInv ==
  ASSUME RetInv, SyncContentFails
  PROVE  RetInv'
<1>1. \/ poisoned' = poisoned /\ content' = content
      \/ /\ poisoned' = TRUE
         /\ content' = [content EXCEPT ![job.i] = IF @ = "dirty" THEN "dropped" ELSE @]
  BY DEF SyncContentFails, SyncFails
<1>2. Types'
  <2>1. poisoned' \in BOOLEAN
    BY <1>1 DEF RetInv, Types, RetTypeOK
  <2>2. content' \in [Inst -> {"dirty", "safe", "dropped", "damaged"}]
    BY <1>1 DEF RetInv, Types, RetTypeOK
  <2>3. QED
    BY <2>1 DEF SyncContentFails, SyncFails, RetInv, Types, RetTypeOK, NoJob,
      Drawn, plan, log
<1>3. DownInv'
  BY DEF SyncContentFails, SyncFails, DownInv
<1>4. DrawnInv'
  BY DEF SyncContentFails, SyncFails, RetInv, Drawn, DrawnInv, Logs, plan,
    log
<1>5. LogInv'
  BY DEF SyncContentFails, SyncFails, RetInv, LogInv, log
<1>6. MemoryInv'
  BY <1>1 DEF SyncContentFails, SyncFails, RetInv, Types, RetTypeOK, Drawn,
    MemoryInv, plan
<1>7. JobInv'
  BY DEF SyncContentFails, SyncFails, JobInv
<1>8. TreeInv'
  BY DEF SyncContentFails, SyncFails, RetInv, Types, RetTypeOK, TreeInv,
    MayRetain, Logs, plan, log
<1>9. KeptInv'
  BY DEF SyncContentFails, SyncFails, RetInv, Kept, KeptInv, plan
<1>10. QED
  BY <1>2, <1>3, <1>4, <1>5, <1>6, <1>7, <1>8, <1>9 DEF RetInv

\* R2: the record replaces no other tree's record.
LEMMA AppendRetainedInv ==
  ASSUME RetInv, AppendRetained
  PROVE  RetInv'
<1>1. Types'
  <2>1. Recorded(live, job.i) \in SUBSET Inst
    BY LineType DEF AppendRetained
  <2>2. /\ recs' \in SUBSET Inst /\ live' \in SUBSET Inst
        /\ doubt' \in SUBSET SUBSET Inst /\ logBroken' \in BOOLEAN
    BY <2>1 DEF AppendRetained, LogAppend, LogRejects, LogBreaks, RetInv,
      Types, RetTypeOK, log
  <2>3. job' = NoJob \/ job' \in [at : JobSteps, i : Inst]
    BY DEF AppendRetained, At, RetInv, Types, JobSteps, NoJob
  <2>4. QED
    BY <2>2, <2>3 DEF AppendRetained, RetInv, Types, RetTypeOK, JobSteps,
      NoJob, Drawn, plan, disk, memory
<1>2. DownInv'
  BY DEF AppendRetained, DownInv
<1>3. DrawnInv'
  BY DEF AppendRetained, LogAppend, LogRejects, LogBreaks, Recorded, RetInv,
    NoJob, Drawn, DrawnInv, LogInv, JobInv, CommitSteps, Logs, plan, disk,
    log
<1>4. LogInv'
  <2>1. CASE LogAppend(Recorded(live, job.i))
    BY <2>1 DEF AppendRetained, LogAppend, RetInv, LogInv
  <2>2. CASE LogRejects
    BY <2>2 DEF AppendRetained, LogRejects, RetInv, LogInv, log
  <2>3. CASE LogBreaks(Recorded(live, job.i))
    BY <2>3 DEF AppendRetained, LogBreaks, RetInv, LogInv
  <2>4. QED
    BY <2>1, <2>2, <2>3 DEF AppendRetained
<1>5. MemoryInv'
  BY DEF AppendRetained, RetInv, MemoryInv, plan, disk, memory
<1>6. JobInv'
  BY DEF AppendRetained, LogAppend, Recorded, At, RetInv, NoJob, JobInv,
    CommitSteps, disk, memory
<1>7. TreeInv'
  BY DEF AppendRetained, LogAppend, LogRejects, LogBreaks, Recorded, RetInv,
    Types, NoJob, LogInv, JobInv, CommitSteps, TreeInv, MayRetain, Logs,
    plan, disk, log, memory
<1>8. KeptInv'
  BY DEF AppendRetained, RetInv, Kept, KeptInv, plan, disk
<1>9. QED
  BY <1>1, <1>2, <1>3, <1>4, <1>5, <1>6, <1>7, <1>8 DEF RetInv

\* R3: the tree that arrives in retained/ has its content and its record.
LEMMA RenameInv ==
  ASSUME RetInv, Rename
  PROVE  RetInv'
<1>1. Types'
  BY DEF Rename, At, RetInv, Types, RetTypeOK, JobSteps, NoJob, Places,
    Drawn, JobInv, CommitSteps, plan, log
<1>2. DownInv'
  BY DEF Rename, DownInv
<1>3. DrawnInv'
  BY DEF Rename, RetInv, NoJob, Drawn, DrawnInv, JobInv, Logs, plan, log
<1>4. LogInv'
  BY DEF Rename, RetInv, LogInv, log
<1>5. MemoryInv'
  BY DEF Rename, RetInv, Types, RetTypeOK, NoJob, MemoryInv, plan
<1>6. JobInv'
  BY DEF Rename, At, RetInv, NoJob, JobInv, CommitSteps
<1>7. TreeInv'
  BY DEF Rename, RetInv, NoJob, LogInv, MemoryInv, JobInv, CommitSteps,
    TreeInv, MayRetain, Logs, plan, log
<1>8. KeptInv'
  BY DEF Rename, RetInv, Kept, KeptInv, plan
<1>9. QED
  BY <1>1, <1>2, <1>3, <1>4, <1>5, <1>6, <1>7, <1>8 DEF RetInv

\* R3 fails: the record is still to be withdrawn.
LEMMA RenameFailsInv ==
  ASSUME RetInv, RenameFails
  PROVE  RetInv'
<1>1. Types'
  BY DEF RenameFails, At, RetInv, Types, RetTypeOK, JobSteps, NoJob, Drawn,
    plan, disk, log, memory
<1>2. DownInv'
  BY DEF RenameFails, DownInv
<1>3. DrawnInv'
  BY DEF RenameFails, RetInv, Drawn, DrawnInv, Logs, plan, disk, log
<1>4. LogInv'
  BY DEF RenameFails, RetInv, LogInv, log
<1>5. MemoryInv'
  BY DEF RenameFails, RetInv, MemoryInv, plan, disk, memory
<1>6. JobInv'
  BY DEF RenameFails, At, RetInv, NoJob, JobInv, CommitSteps, disk, log,
    memory
<1>7. TreeInv'
  BY DEF RenameFails, RetInv, TreeInv, MayRetain, Logs, plan, disk, log,
    memory
<1>8. KeptInv'
  BY DEF RenameFails, RetInv, Kept, KeptInv, plan, disk
<1>9. QED
  BY <1>1, <1>2, <1>3, <1>4, <1>5, <1>6, <1>7, <1>8 DEF RetInv

\* The withdrawn record is that of an attempt whose tree never moved.
LEMMA AppendAbortedInv ==
  ASSUME RetInv, AppendAborted
  PROVE  RetInv'
<1>1. Types'
  BY DEF AppendAborted, LogAppend, LogRejects, LogBreaks, Aborted, RetInv,
    Types, RetTypeOK, JobSteps, NoJob, Places, Drawn, DownInv, DrawnInv,
    LogInv, MemoryInv, JobInv, CommitSteps, TreeInv, MayRetain, Logs, Kept,
    KeptInv, plan, disk, log, memory
<1>2. DownInv'
  BY DEF AppendAborted, DownInv
<1>3. DrawnInv'
  BY DEF AppendAborted, LogAppend, LogRejects, LogBreaks, Aborted, RetInv,
    Drawn, DrawnInv, LogInv, Logs, plan, disk, log
<1>4. LogInv'
  <2>1. CASE LogAppend(Aborted(live, job.i))
    BY <2>1 DEF AppendAborted, LogAppend, RetInv, LogInv
  <2>2. CASE LogRejects
    BY <2>2 DEF AppendAborted, LogRejects, RetInv, LogInv, log
  <2>3. CASE LogBreaks(Aborted(live, job.i))
    BY <2>3 DEF AppendAborted, LogBreaks, RetInv, LogInv
  <2>4. QED
    BY <2>1, <2>2, <2>3 DEF AppendAborted
<1>5. MemoryInv'
  BY DEF AppendAborted, RetInv, MemoryInv, plan, disk, memory
<1>6. JobInv'
  BY DEF AppendAborted, JobInv
<1>7. TreeInv'
  BY DEF AppendAborted, LogAppend, LogRejects, LogBreaks, Aborted, RetInv,
    Types, NoJob, LogInv, MemoryInv, JobInv, CommitSteps, TreeInv, MayRetain,
    Logs, plan, disk, log, memory
<1>8. KeptInv'
  BY DEF AppendAborted, RetInv, Kept, KeptInv, plan, disk
<1>9. QED
  BY <1>1, <1>2, <1>3, <1>4, <1>5, <1>6, <1>7, <1>8 DEF RetInv

\* R4: what is answered is durable.
LEMMA AcknowledgeInv ==
  ASSUME RetInv, Acknowledge
  PROVE  RetInv'
<1>1. Types'
  BY DEF Acknowledge, RetInv, Types, RetTypeOK, NoJob, Drawn, JobInv, plan,
    log
<1>2. DownInv'
  BY DEF Acknowledge, DownInv
<1>3. DrawnInv'
  BY DEF Acknowledge, RetInv, Drawn, DrawnInv, Logs, plan, log
<1>4. LogInv'
  BY DEF Acknowledge, RetInv, LogInv, log
<1>5. MemoryInv'
  BY DEF Acknowledge, RetInv, Types, RetTypeOK, NoJob, Drawn, MemoryInv,
    JobInv, plan
<1>6. JobInv'
  BY DEF Acknowledge, JobInv
<1>7. TreeInv'
  BY DEF Acknowledge, RetInv, TreeInv, MayRetain, Logs, plan, log
<1>8. KeptInv'
  BY DEF Acknowledge, RetInv, Types, RetTypeOK, NoJob, Drawn, MemoryInv,
    JobInv, Kept, KeptInv, plan
<1>9. QED
  BY <1>1, <1>2, <1>3, <1>4, <1>5, <1>6, <1>7, <1>8 DEF RetInv

\* R4 fails: the entry stays served and is not acknowledged.
LEMMA AckFailsInv ==
  ASSUME RetInv, AcknowledgeFails
  PROVE  RetInv'
<1>1. Types'
  BY DEF AcknowledgeFails, RetInv, Types, RetTypeOK, JobSteps, NoJob, Places,
    Drawn, DownInv, DrawnInv, LogInv, MemoryInv, JobInv, CommitSteps,
    TreeInv, MayRetain, Logs, Kept, KeptInv, plan, disk, log, memory
<1>2. DownInv'
  BY DEF AcknowledgeFails, DownInv
<1>3. DrawnInv'
  BY DEF AcknowledgeFails, RetInv, Drawn, DrawnInv, Logs, plan, disk, log
<1>4. LogInv'
  BY DEF AcknowledgeFails, RetInv, LogInv, log
<1>5. MemoryInv'
  BY DEF AcknowledgeFails, RetInv, NoJob, MemoryInv, JobInv, plan, disk
<1>6. JobInv'
  BY DEF AcknowledgeFails, JobInv
<1>7. TreeInv'
  BY DEF AcknowledgeFails, RetInv, TreeInv, MayRetain, Logs, plan, disk, log
<1>8. KeptInv'
  BY DEF AcknowledgeFails, RetInv, Kept, KeptInv, plan, disk
<1>9. QED
  BY <1>1, <1>2, <1>3, <1>4, <1>5, <1>6, <1>7, <1>8 DEF RetInv

\* A kill leaves the line being appended in doubt.
LEMMA KillInv ==
  ASSUME RetInv, Kill
  PROVE  RetInv'
<1>1. Types'
  <2>1. /\ doubt' \in SUBSET SUBSET Inst
        /\ up' \in BOOLEAN /\ logBroken' \in BOOLEAN /\ poisoned' \in BOOLEAN
    BY InFlightType DEF Kill, Down, RetInv, Types, RetTypeOK
  <2>2. QED
    BY <2>1 DEF Kill, Down, RetInv, Types, RetTypeOK, NoJob, Drawn, plan,
      disk
<1>2. DownInv'
  BY DEF Kill, Down, DownInv
<1>3. DrawnInv'
  BY DEF Kill, InFlight, Recorded, Aborted, RetInv, NoJob, Drawn, DrawnInv,
    LogInv, JobInv, CommitSteps, Logs, plan, disk
<1>4. LogInv'
  BY DEF Kill, Down, LogInv
<1>5. MemoryInv'
  BY DEF Kill, Down, MemoryInv
<1>6. JobInv'
  BY DEF Kill, Down, JobInv
<1>7. TreeInv'
  BY DEF Kill, Down, InFlight, Recorded, Aborted, RetInv, Types, NoJob,
    LogInv, MemoryInv, JobInv, CommitSteps, TreeInv, MayRetain, Logs, plan,
    disk
<1>8. KeptInv'
  BY DEF Kill, RetInv, Kept, KeptInv, plan, disk
<1>9. QED
  BY <1>1, <1>2, <1>3, <1>4, <1>5, <1>6, <1>7, <1>8 DEF RetInv

\* A power loss leaves each tree at one of its two places.
LEMMA PowerLossInv ==
  ASSUME RetInv, PowerLoss
  PROVE  RetInv'
<1>1. Types'
  <2>1. /\ doubt' \in SUBSET SUBSET Inst
        /\ up' \in BOOLEAN /\ logBroken' \in BOOLEAN /\ poisoned' \in BOOLEAN
    BY InFlightType DEF PowerLoss, Down, RetInv, Types, RetTypeOK
  <2>2. tree' \in [Inst -> Places] /\ safeTree' \in [Inst -> Places]
    BY DEF PowerLoss, RetInv, Types, RetTypeOK
  <2>3. content' \in [Inst -> {"dirty", "safe", "dropped", "damaged"}]
    BY DEF PowerLoss
  <2>4. QED
    BY <2>1 DEF PowerLoss, Down, RetInv, Types, RetTypeOK, NoJob, Drawn, plan
<1>2. DownInv'
  BY DEF PowerLoss, Down, DownInv
<1>3. DrawnInv'
  BY DEF PowerLoss, InFlight, Recorded, Aborted, RetInv, NoJob, Drawn,
    DrawnInv, LogInv, JobInv, CommitSteps, Logs, plan
<1>4. LogInv'
  BY DEF PowerLoss, Down, LogInv
<1>5. MemoryInv'
  BY DEF PowerLoss, Down, MemoryInv
<1>6. JobInv'
  BY DEF PowerLoss, Down, JobInv
<1>7. TreeInv'
  BY DEF PowerLoss, Down, InFlight, Recorded, Aborted, RetInv, Types, NoJob,
    LogInv, MemoryInv, JobInv, CommitSteps, TreeInv, MayRetain, Logs, plan
<1>8. KeptInv'
  BY DEF PowerLoss, RetInv, Types, RetTypeOK, Drawn, Kept, KeptInv, plan
<1>9. QED
  BY <1>1, <1>2, <1>3, <1>4, <1>5, <1>6, <1>7, <1>8 DEF RetInv

\* A restart serves trees that are in retained/ with their content.
LEMMA RestartInv ==
  ASSUME RetInv, Restart
  PROVE  RetInv'
<1>1. Types'
  <2>1. PICK set, ok, entries :
          /\ set \in {recs} \cup doubt /\ ok \in BOOLEAN /\ entries \subseteq Restorable(set)
          /\ (~ok => entries # {}) /\ Restarted(set, entries, ok)
    BY DEF Restart
  <2>2. up' \in BOOLEAN /\ logBroken' \in BOOLEAN /\ poisoned' \in BOOLEAN
    BY <2>1 DEF Restarted, Reopened, RetInv, Types, RetTypeOK
  <2>3. tree' \in [Inst -> Places] /\ safeTree' \in [Inst -> Places]
    BY <2>1 DEF Restarted, Reopened, RetInv, Types, RetTypeOK, Places
  <2>4. set \in SUBSET Inst /\ set \subseteq Drawn /\ entries \subseteq set
    BY <2>1 DEF RetInv, Types, RetTypeOK, DrawnInv, Logs, Restorable
  <2>5. QED
    BY <2>1, <2>2, <2>3, <2>4 DEF Restarted, Reopened, RetInv, Types,
      RetTypeOK, Drawn, plan
<1>2. DownInv'
  BY DEF Restart, Restarted, Reopened, DownInv
<1>3. DrawnInv'
  BY DEF Restart, Restarted, Reopened, RetInv, Drawn, DrawnInv, Logs, plan
<1>4. LogInv'
  BY DEF Restart, Restarted, Reopened, LogInv
<1>5. MemoryInv'
  BY DEF Restart, Restarted, Reopened, Restorable, RetInv, Types, RetTypeOK,
    MemoryInv
<1>6. JobInv'
  BY DEF Restart, Restarted, Reopened, RetInv, DownInv, JobInv
<1>7. TreeInv'
  BY DEF Restart, Restarted, Reopened, RetInv, TreeInv, MayRetain, Logs, plan
<1>8. KeptInv'
  BY DEF Restart, Restarted, Reopened, RetInv, Types, RetTypeOK, Drawn, Kept,
    KeptInv, plan
<1>9. QED
  BY <1>1, <1>2, <1>3, <1>4, <1>5, <1>6, <1>7, <1>8 DEF RetInv

\* The first state: no attempt was drawn and the log is empty.
LEMMA InitInv == Init => RetInv
<1>1. SUFFICES ASSUME Init PROVE RetInv
  OBVIOUS
<1>2. Drawn = {} /\ Logs = {{}}
  BY <1>1 DEF Init, Drawn, Logs
<1>3. Types
  BY <1>1, <1>2 DEF Init, Types, RetTypeOK, Places, NoJob
<1>4. QED
  BY <1>1, <1>2, <1>3 DEF Init, RetInv, DownInv, DrawnInv, LogInv, MemoryInv,
    JobInv, TreeInv, MayRetain, KeptInv

-----------------------------------------------------------------------------
(* The theorems.                                                           *)

\* The inductive invariant, through every failed fsync, append and rename,
\* every kill, power loss and restart.
THEOREM RetInvariance == RetSpec => []RetInv
<1>1. RetInv /\ [Next]_retVars => RetInv'
  <2>1. SUFFICES ASSUME RetInv, [Next]_retVars PROVE RetInv'
    OBVIOUS
  <2>2. CASE UNCHANGED retVars
    BY <2>1, <2>2 DEF retVars, RetInv, Types, RetTypeOK, Drawn, DownInv,
      DrawnInv, LogInv, MemoryInv, JobInv, TreeInv, MayRetain, Logs, Kept,
      KeptInv, plan, disk, log, memory
  <2>3. CASE Next
    BY <2>1, <2>3, NewAttemptInv, DestroyInv, FinalizeInv, SyncContentInv,
      SyncFailsInv, AppendRetainedInv, RenameInv, RenameFailsInv,
      AppendAbortedInv, AcknowledgeInv, AckFailsInv, KillInv, PowerLossInv,
      RestartInv DEF Next
  <2>4. QED
    BY <2>1, <2>2, <2>3
<1>2. QED
  BY <1>1, InitInv, PTL DEF RetSpec

\* The state keeps its types: in particular what a running daemon serves was
\* acknowledged or is still to be, and whatever it names was drawn.
THEOREM RetTypeCorrect == RetSpec => []RetTypeOK
<1>1. RetInv => RetTypeOK
  BY DEF RetInv, Types
<1>2. QED
  BY <1>1, RetInvariance, PTL

\* An answered commit is for ever: its tree is in retained/ with its content
\* and its record, whatever fails or crashes later.
THEOREM ReportedStaysHolds == RetSpec => []ReportedStays
<1>1. RetInv => ReportedStays
  BY DEF RetInv, Types, RetTypeOK, Drawn, TreeInv, MayRetain, KeptInv, Kept,
    ReportedStays, MayBe, Restorable, Logs
<1>2. QED
  BY <1>1, RetInvariance, PTL

\* Every tree in retained/, or that a crash may leave there, has a live record
\* in every outcome of a line in doubt, and its ID leads to no other tree.
THEOREM TreesRecordedHolds == RetSpec => []TreesRecorded
<1>1. RetInv => TreesRecorded
  BY DEF RetInv, Drawn, MemoryInv, TreeInv, MayRetain, TreesRecorded, MayBe
<1>2. QED
  BY <1>1, RetInvariance, PTL

\* No crash keeps a tree's commit and undoes that of a tree it was built over:
\* a lower was acknowledged before the attempt was drawn.
THEOREM LowersRetainedHolds == RetSpec => []LowersRetained
<1>1. RetInv => LowersRetained
  BY DEF RetInv, Types, RetTypeOK, TreeInv, MayRetain, KeptInv, Kept,
    LowersRetained, MayBe
<1>2. QED
  BY <1>1, RetInvariance, PTL
=============================================================================
