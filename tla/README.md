# Verification of the ratarmount-rs write path

ratarmount-rs mounts archives. With a write overlay (`-w`) the mount is
writable and its changes are committed back into the archive, in place where
the format allows it. This project models the code that can lose or mix up a
user's data: the commit journal and what is built on it, the write overlay and
its commits, the sandbox daemon's logs, the front end's tables and the
readahead of remote archives. It holds TLA+ modules, the TLC runs that check
them on small instances, and proofs checked by TLAPS.

    cd tla
    tlc -workers 2 -config CrashAndRace.cfg MCCommitJournal     # one run
    tlapm CommitJournalProofs.tla                               # one module's proofs

`PROJECT.json` lists the runs with their properties, the mutant that shows each
property can fail, the hazards with the properties aimed at them, and for every
definition the source lines it models.

## 1. Inventory of the system

About 45 crates and 414,000 lines of Rust. What each part keeps, what it does,
and what makes it correct:

| part | state | operations | hard behaviour | correct when |
|---|---|---|---|---|
| commit journal (`ratarmount-compress/src/commit_journal.rs`) | archive tail, locator xattr, journal file, flock | `replace`, `finish_failed`, `recover`, `rollback`, `guard_copy` | crashes between any two calls, half-done calls, races of processes, renamed directories | every replacement is atomic and every error value tells the truth |
| journal recovery (`ratarmount-compositing/src/journal_recovery.rs`) | rows of `overlay_meta` in SQLite | `recover_journal*`, `restamp_rows`, `failed_replace`, `publish_over`, mount voting | two stores changed in one commit; a copy fallback racing other processes | rows describe the archive, an overlay is never locked out of its own journal, a copy replaces nothing newer |
| commit gate (`overlay_gate.rs`) | none (reads rows and archive) | `check_commit_base_with` | its answer is used later | a commit overwrites only the recorded base |
| write overlay (`write_overlay.rs`) | overlay database, upper directory, tombstones, queue of unsaved rows, spool | file operations, live, interval and on-exit commits | host and rows change in two steps, commit threads, timeouts, lost PUT answers | every change is shown, committed once or kept |
| rolling archives (`rolling.rs`) | numbered archives, the member list | rotation, refusal of sealed deletions, rescan | rotation inside a commit, retention by the host, archives that do not open | the newest content is shown and what was accepted can be committed |
| overlay metadata, seal, layers, changes, fsck | SQLite rows, layer files | create, seal, diff, verify | publish order | a published layer is complete |
| sandbox state log (`ratarmount/src/sandbox/state_log.rs`) | append-only file | open, append, compaction, replay | torn tails, failed syncs and truncations | what memory applied is what every later open replays |
| sandbox requests (`requests.rs`) | bounded table of requests | begin, finish, rotate, evict, resolve | restarts, eviction at the caps, lines in doubt | a request is answered once |
| sandbox daemon, retained trees (`daemon.rs`, `retained.rs`, `finalize.rs`) | attempts, retained trees, pins | new, finalize, destroy, restart | three stores in one commit, failed fsyncs | a reported tree stays, with its record and its lowers |
| FUSE front end (`ratarmount-fuse/src/lib.rs`) | nodeid table, lookup counts, file handles | lookup, open, read, create, unlink, rename, forget | a commit replaces the archive inside a request | a nodeid and a handle stay with their file |
| HTTP pool and prefetch (`ratarmount-remote/src/http_pool.rs`) | workers, permits, payloads | read, seek, readahead, cancel | detached workers, a cap shared by readers | permits are counted, no read waits for another reader |
| index store and caches (`ratarmount-index`) | SQLite index, range, digest and payload caches | build, open, look up, evict | several processes share a cache | a hit returns the bytes that were stored |
| session and factory (`ratarmount-session`) | opened mount sources | open by format, recover first | opening while another process commits | what is served is one version |
| union, automount, versioning | caches of opened members | look-up across layers | none of their own | look-up order |
| NFS, SMB, 9P, SFTP, HTTP, CSI, Python | handle tables | adapters | concurrent callers | handle life cycle |
| codecs and about thirty formats | none shared | parse, seek | none (data) | bytes |

How the write path fits together. A commit (live, interval, on-exit or offline)
first recovers a pending journal, then asks the gate whether the archive is the
recorded base; the gate returns the stat the plan is based on. The replacement
locks the archive, refuses unless that stat still agrees, journals the old and
new tails, writes, and calls back the overlay (`before_unlink`) to restamp its
rows before the journal is removed. A replacement that cannot be done in place
falls back to a copy that is renamed over the archive under the same lock.
After the lock is released the overlay refreshes its baseline, hands the mount
the reopened archive and forgets what it committed; the front end's tables
learn of the new archive by a generation number. Every other open of the same
archive, by any process, recovers a pending journal before it reads. The
sandbox daemon runs mounts for clients, records their requests in a state log
and commits finished attempts to `retained/`.

## 2. Modules

| module | models | composes |
|---|---|---|
| `CommitJournal` | the journaled replacement and its recovery | |
| `AtomicReplace` | abstract: a version that changes in one step | implemented by `CommitJournal` |
| `JournalRows` | the rows of an overlay, the gate, the baseline refresh | `CommitJournal` |
| `CopyFallback` | copies renamed over an archive others commit to | the journal in three steps |
| `LiveCommit` | interval and exit commits, local and remote | |
| `OverlayFiles` | file operations, rows, tombstones, unsaved rows | |
| `RollingSeries` | numbered archives under an overlay | |
| `FuseInodes` | nodeids and file handles over a committing overlay | |
| `LogRecords`, `DurableLog` | abstract: a log whose last line may be in doubt | implemented by `StateLog` |
| `StateLog` | the daemon's append-only log on disk | |
| `RequestLog` | request records and their eviction | appends as `DurableLog` allows |
| `RetainedCommit` | commits of finished attempts to `retained/` | appends as `DurableLog` allows |
| `Prefetch` | readahead of HTTP range files | |
| `MC...` | instances for TLC | |
| `CommitJournalProofs` | theorems and proofs | `CommitJournal`, `AtomicReplace` |
| `RowsProofs` | theorems and proofs | `JournalRows`, on `CommitJournalProofs` |
| `CopyProofs` | theorems and proofs | `CopyFallback` |
| `LiveProofs` | theorems and proofs | `LiveCommit` |
| `RetainedProofs` | theorems and proofs | `RetainedCommit` |
| `RollingProofs` | theorems and proofs | `RollingSeries` |
| `PrefetchProofs` | theorems and proofs | `Prefetch` |
| `FuseProofs` | theorems and proofs | `FuseInodes` |

### `CommitJournal`, `AtomicReplace`

One archive inode and every process that replaces its suffix or recovers it.
Bytes before the replaced offset never change and are left out. What the code
does, in the order of `run`, with the locator state on the inode in brackets:

    journal file built and synced
    [P] locator   publish the journal   sync its directory
    [A] locator   truncate   sync   write   sync
    [C] locator   the commit point      before_unlink hook
    [D] locator   unlink the journal    sync its directory   clear the locator

Each system call that changes the disk is one action. An error of `run` goes to
`finish_failed` (`FinishFailed`, `DropMarker`, `DoneSync`, `DoneClear`), which
may end in `rollback`. `recover` is `Probe` (unlocked), `LockRecover`, `Locate`
(locator and journal read again under the lock) and then a stale-locator
clean-up or `rollback` (`Validate`, `RbTruncate`, ..., `RbClear`), which rolls
back or, for a complete locator, only finishes.

| variable | in the code |
|---|---|
| `file`, `stable` | the inode (tail, mtime, locator): page cache, and disk |
| `entry`, `dentry` | the journal beside the archive in each directory: cache, and disk |
| `pathOf` | the current path of each directory; the locator holds a path |
| `lock` | the flock on the archive |
| `pc`, `job` | where each call is; the `Attempt` record and its locals |
| `fresh` | whether `same_stamp(original, now)` would hold |
| `result` | the last return value of each process |

A tail is "the first n units of version c"; a version has a length and a common
prefix with the others, which is all `matches_tail` can tell. `Mixed` is a tail
that is a prefix of neither side. What an fsync guarantees is the assumption
about the system below: it makes the content, the times and the xattr of an
inode durable, and a directory sync its entries; anything else survives a power
loss or not, each item independently (`TailImages`, `PowerLoss`). Any change of
the inode moves its ctime, so `fresh` becomes false.

Faults: every call can fail with no effect (`StepFails`), a locator write can
take effect and fail in its fsync (`MarkerHalfSet`), the fstat after the
publish can fail (`PublishUnseen`), guards and hook can refuse, a process can
die (`Kill`), the machine can lose power (`PowerLoss`), another program can
rename the directory (`RenameDir`).

`AtomicReplace` has a version that changes only to an offered one, in one step.
`Atomic` instantiates it with `version <- Promise` (what recovery would make of
the durable disk alone) and `offered <- Offered`. The step that changes
`Promise` is the fsync of the complete locator, and no crash, failed clean-up
or recovery may change it back.

### `JournalRows`

`CommitJournal` composed with the recorded base of one overlay: `rows` (size,
mtime, digest). The hook steps move the rows (`Restamped` is `restamp_once`),
the gate (`GateAccepts`) and the recovery's owner (`Authorized`) judge by them,
and `HashBase`/`StoreBase` are `refresh_committed_base` after the lock was
released. A process in `Overlays` works for the overlay; any other process is a
plain opener (`Owner::Inode`, `Rows::None`) or a foreign committer. The history
variable `alone` tells whether the overlay's journals were settled only by
itself: the claims about rows are made while it is true (disagreement 5 below
is why). SQLite transactions are taken as atomic and durable.

### `CopyFallback`

Overlays of several processes append in place (three steps here: the locked
check, the torn bytes under a journal, the outcome), fall back to a copy
(`OpenCopySource`, `ReadCopy` without the lock, `OpenGuard`, `GuardCopy`,
`Publish`), refresh their rows and reopen. A stamp is (inode, length, mtime,
ctime); every change has its own time, which is what the code relies on and a
coarse clock does not give. An inode has its journal, active or complete, and
`pre`, the archive the journal was started on; the gate accepts a pending
journal that agrees with the rows (`JournalAgrees`), as `check_commit_base` does.

A journal is settled by any open of the archive, which knows nothing of the
rows of the overlays mounted on it (`Recover`), or by the recovery at the start
of a mounted overlay's own commit, which restamps that overlay's rows
(`RecoverOwn`). The second can roll another process's commit forward: the rows
then describe an archive the mount has not read. The history variable `adopted`
holds these commits, and `Known` is what the mount read together with them
(disagreement 14). Mounts with `--force-base-mismatch` accept any archive, by
design, and are left out.

### `LiveCommit`

The interval thread (`Tick`) and the exit commit (`Exit`) with the in-flight
flag, its condition variable and timeouts, for a local archive or a remote
object behind a spool (HEAD, GET, splice, PUT, reopen, forget). `remote` and
`joinsFirst` (whether the caller joins the interval thread before it commits, as
`main.rs` does) are chosen at the start, and for a remote archive `store`:

| `store` | PUT | in the code |
|---|---|---|
| `match` | with If-Match, the ETag of the spool | S3 and Azure (`overlay_commit.rs:1158`, `:1464`) |
| `blind` | without a precondition; the HEAD is compared before | `publish_gcs` (`overlay_commit.rs:1283`, `gcs.rs:949`) |
| `untagged` | without a precondition, nothing to compare | S3 and Azure servers whose HEAD has no ETag |

Every remote call can fail, a PUT also after it was stored, and a failed splice
refuses the base (`SpliceFails`). Other programs append to the object in one
step and keep the members that are there. The parent-commit check of `hf://`
(`HfLiveCommit`, `overlay_commit.rs:790`) has no store of its own.

### `OverlayFiles`

Host folder, rows, in-memory tombstones and the queue of rows SQLite refused;
unlink, create, symlink, open and rename of names of one folder, each in the
steps between which another call or a crash can fall; live and offline commits
with half-failed cleanups; unmount and mount. Crashes are of the process: power
loss is SQLite's and the host's matter. `OneAtATime` (no two calls in flight
share a name: FUSE runs one request at a time) and `LooksUp` (the front end
looked the name up) are assumptions about the callers.

### `RollingSeries`

Discovery, rotation inside a commit, refused deletions, commits into the active
archive, retention by the host, crashes, and archives that do not open. Writing
an archive is one step and rows are durable when an operation returns; whether
a rotation is due is a free choice. The host deletes only sealed archives.

A commit's write fails in one of three ways. `PersistFails`: nothing was
written and the overlay goes on. `PersistRefused`: the archive may have been
written, or a journal is left that the next open settles either way; the
interval commits stop and the mount's base becomes `FailedCommitSource`, which
has no names (`refuse_base_after_commit_failure`). `RecoveryFails`: the recovery
before the plan fails, with the same end.

Two history variables mark what the properties leave out. `unopened`: the next
archive was created and did not open (disagreement 13). `loose`: the names that
were removed, without a tombstone and not written again, while the mount's base
was not the archive on disk (disagreement 12).

### `FuseInodes`

The nodeid table (lookup counts, cached members, detached files) and the file
handles, with requests split where a live commit can come in between. A file is
an identity that copy-ups, renames and commits keep; a member's offsets read
through a later base in which members moved give `Garbage`. Copying commits
only; READDIRPLUS is not negotiated; the kernel may send UNLINK and RENAME
without a LOOKUP; an open handle keeps its nodeid. One folder of non-empty
regular files.

### `StateLog`, `DurableLog`, `LogRecords`

`StateLog` has the log's files with cache and disk contents, the name and its
durable target, and the writer: open (sync file, sync directory, replay, cut
the torn tail), append (write, sync, truncate on failure, broken when that
fails too), compaction (new file, sync, rename, directory sync, backoff), kills
and power losses. `DurableLog` is the abstract log: a list of records, and at
most one line in doubt after a failed append, settled by the next open.

### `RequestLog`, `RetainedCommit`

`RequestLog`: `begin`, the run of `new` or `finalize`, `finish`, stored
answers, pins, rotation of pinned records, admission under the caps, eviction,
restart and `resolve_interrupted`. `blind` is a history variable: attempts made
without a request ID while the log was broken (disagreement 6).
`RetainedCommit`: R1 to R4 of `commit_retained`, with the directories, the
content and the log as separate stores, failed fsyncs that drop pages, the
poisoned device, restore and reconcile at a restart, and lowers that are
themselves retained. A directory fsync that fails at R4 leaves the rename
unsynced, and a later one that succeeds makes it durable. This is an assumption
about fsync on directories, the one `retained.rs:1121` makes. For file contents
it is not assumed: a failed fsync may drop the pages (`sandbox.md:3132`), and
syncing again does not bring them back.

### `Prefetch`

Readers of one source, worker threads, payloads and the process-wide budget of
permits; seeks that detach workers, cancellation under memory pressure, the
range cache and its eviction, an identity that comes and goes, and the Hub's
publication of the whole file. A read past the front chunk ends in the panic of
`http_pool.rs:1140` (`Panic`, disagreement 7): the file's call never returns,
and its readahead keeps its permits until the file is dropped.

## 3. Properties and runs

| run | instance | properties | states |
|---|---|---|---|
| `crash_and_race` | 2 processes, 2 paths, 2 versions, 1 replacement, 2 faults, fairness | `TypeOK`, `PowerLossRecoverable`, `AnswersHold`, `Atomic`, `RecoveryEnds` | 123 thousand |
| `rows_shared` | 1 overlay, 1 stranger, 2 paths, 2 replacements, 1 fault, 2 clock values | `NoLostUpdate`, `RowsFollowArchive`, `OwnJournalAgrees`, `CommitsOnRecorded` | 2.2 million |
| `live_exit` | 2 files, 2 writes, 1 foreign commit, local and three kinds of remote, fairness | `NothingLost`, `ReadersCurrent`, `AppendOnce`, `ExitCommitsAll`, `ForeignKept`, `ExitAnswers` | 912 thousand |
| `remote_stash` | 1 file, 2 writes, remote | `NothingLost` | violated |
| `copy_races` | 3 overlays, 3 commits, 1 remount | `CopyKeepsCommits`, `GateMatchesServed`, `CommitsOnServed` | 1.8 million |
| `overlay_rows` | 2 names, 2 callers, 1 new content, 2 unsaved rows | `SettledView`, `RenameAtomic`, `CommitKeepsView` | 857 thousand |
| `rolling_faults` | 2 names, 3 generations, 3 writes, 2 faults | `RemountShowsLatest`, `MountShowsLatest`, `AcceptedCommits` | 4.0 million |
| `fuse_commits` | 2 names, 2 files, 3 nodeids, 1 handle, 2 commits | `NodeidKeepsFile`, `CountsAgree`, `CachedMembersFit`, `HandlesKeepFile` | 3.3 million |
| `log_faults` | 2 keys, 2 values, 3 inodes, 5 lines | `Reopenable`, `DurableSpec` | 385 thousand |
| `request_retries` | 3 requests, 2 attempt IDs, a table of 2, 5 lines | `ReplayMatches`, `ToldIsStored`, `NamesUnambiguous`, `FinalizeRecordKept` | 944 thousand |
| `retain_crash` | 3 attempts, 3 IDs, room for 2 | `ReportedStays`, `TreesRecorded`, `LowersRetained` | 140 thousand |
| `prefetch_readers` | 2 readers, 2 threads, 1 permit, 4 bytes in chunks of 2 | `ReadsInside`, `PermitsHeld`, `ReadsNeverWait` | 583 thousand |

What they say:

- `PowerLossRecoverable`: for every image a power loss now could leave, the
  archive is whole or a journal there leads to a whole version. `Atomic`: the
  replacement implements `AtomicReplace`. `AnswersHold`: what each return value
  says of the disk; the callers depend on it, since `RolledBack` allows a copy
  fallback and `Committed` forbids it. `RecoveryEnds`: once the faults stop, a
  pending journal is settled.
- `NoLostUpdate`: what is journaled as old bytes are the bytes of the plan.
  `RowsFollowArchive`, `OwnJournalAgrees`: with no journal the rows describe
  the archive, with one they accept it, over all power-loss images.
  `CommitsOnRecorded`: once the journal is published, the gate's answer still
  holds while bytes are written.
- `NothingLost`, `ReadersCurrent`, `AppendOnce`, `ExitCommitsAll`,
  `ForeignKept`, `ExitAnswers`: a write is in the overlay or the archive,
  readers see it, it is appended once, a successful exit commit leaves nothing
  behind, and the exit answers. `ForeignKept`, per store: with If-Match no other
  program's commit is ever overwritten; with a blind PUT none that this commit's
  HEAD saw; without ETags nothing is claimed (disagreement 15).
- `CopyKeepsCommits`: a reported commit stays, and torn bytes have their
  journal. `GateMatchesServed`, `CommitsOnServed`: the gate judges, and a commit
  changes, the archive the overlay knows: what its mount reads and what its own
  recoveries rolled forward, but never a commit of somebody else beyond these.
- `SettledView`: the mount shows what the finished calls left, and the
  unmount's report of reappearing names is exact. `RenameAtomic`: readers and
  crashes see the old or the new target. `CommitKeepsView`: no commit changes
  what is shown.
- `RemountShowsLatest`, `MountShowsLatest`: the newest content is shown by this
  and by the next mount, except for `loose` names in the next mount and on a
  refused base in this one. `AcceptedCommits`: no accepted removal blocks every
  later commit.
- `NodeidKeepsFile`, `CountsAgree`, `CachedMembersFit`, `HandlesKeepFile`:
  nodeids and handles stay with their files through renames over, unlinks and
  commits; the table counts what the kernel holds.
- `DurableSpec`: `StateLog` implements `DurableLog`. `Reopenable`: damage is
  confined to the last line.
- `ReplayMatches`: the file leads to the table in memory. `ToldIsStored`: an
  answer given is the answer kept. `NamesUnambiguous`: a stored attempt ID is
  not another attempt's. `FinalizeRecordKept`: a record whose attempt exists is
  not evicted.
- `ReportedStays`, `TreesRecorded`, `LowersRetained`: an answered commit is
  for ever, every retained tree has its record, and no tree outlives its lower.
- `ReadsInside`, `PermitsHeld`, `ReadsNeverWait`: prefetched reads start inside
  their chunk, every running worker and unconsumed payload is counted, and no
  read waits for another reader's permit.

Each property has a mutant: an operator before the definition it replaces, with
a plausible bug, under which TLC finds the property violated (`mutant:` in the
modules). The modules' type invariants other than `TypeOK` are left to the
proofs of section 4; the runs spend their time on the properties above.

**Bounds.** Two processes give every interleaving of a holder of the lock with
a competitor; a third can only be refused by the same flock. Two faults put a
crash into the recovery of a crash; `rows_shared` has one, and two clock values
instead, so that a rollback may or may not restore the archive's mtime under
the rows. In `RollingSeries` two faults put a crash, or a second failure, after
a refused base. Versions differ in length and share a prefix of 1, so that a
torn tail can match both sides, one or neither. In `CopyFallback` three
overlays let a second commit come between a third's copy and its publication.
Two names are a rename with its target; two callers share the queue of unsaved
rows. Three generations have two sealed archives, so that a name can be held by
one, the other or both. A table of two records with three requests is always at
its cap. Three inodes are the log, its compacted successor and the file of the
next compaction. Four bytes in chunks of two have windows that start inside a
chunk and end short, and buffers are shorter and longer than a chunk; two
thread names and one permit let a detached worker and a new one run at once, so
that the cap could be exceeded. The panic of disagreement 7 takes larger
buffers (`Chunk` 2, `Size` 8, `Bufs` {1, 4}); the proofs have it for all. All
bounds are named constants used in guards, except `MaxQueue`, a state
constraint.

**Symmetry** is used for keys, values, request and attempt IDs, overlays,
readers and names: they are only compared for equality, and no run with symmetry
checks liveness.

**Deadlock** is checked, except where the system may really stop: a quiet
overlay, front end or reader with its bounds used up.

**Fairness.** `crash_and_race`: a call under way is scheduled (no call waits on
another, flock is taken with `LOCK_NB`), and the archive keeps being opened:
every open, mount and commit recovers first. Faults have no fairness and are
bounded. `live_exit`: the exit thread runs, and the tick of a local archive
ends; a remote tick may hang in I/O for ever, which is what the exit's timeout
is for. Nothing is assumed of the clients.

### Disagreements met while modelling

Where code and documentation disagree, a property is stated for the rest of the
behaviour, and its comment says what it leaves out. Only the first has a run of
its own.

1. `remote_stash` (`write_overlay.rs:4299`): a file written again while its
   splice waits for a retried PUT is forgotten with the old version. The
   constant `RewriteStashed` keeps it out of `live_exit`.
2. A remote exit commit that finds a stashed plan publishes only that plan
   (`write_overlay.rs:4322`, against `:503`): `ExitCommitsAll` is about local
   archives.
3. After a PUT that was stored and a foreign commit, the next splice appends
   the same version again (`write_overlay.rs:4193`, against
   `write_overlay/tests.rs:10227`): `AppendOnce` excludes foreign commits.
4. With two hard links in two directories, a recovery through one clears the
   prepared locator of a journal that moved with the other
   (`commit_journal.rs:1368`, against `tar-zst-live-commit-design.md:1169`): the
   instances have one directory, with two paths.
5. A plain open settles an overlay's journal without its rows
   (`factory.rs:2386`, against `sandbox.md:437`): the rows' properties hold
   while `alone`.
6. An attempt ID named only by a line in doubt may be drawn again
   (`daemon.rs:1142`, against its comment at 1123): `NamesUnambiguous` leaves
   out `blind` attempts.
7. A read from the Hub's blob can pass the front chunk, and the next read from
   the chunk panics (`http_pool.rs:1140`): `ReadsInside` holds until the blob is
   there, and `Take` panics as the code does.
8. Two calls on one name are not ordered, so that a plan can publish what the
   mount hides (`write_overlay.rs:1760`, against `:2752`): `OneAtATime`.
9. A server's write through a stale handle copies a deleted member back
   (`write_overlay.rs:1845`): `LooksUp`.
10. A detached member is reopened by offsets into a replaced archive
    (`ratarmount-fuse/src/lib.rs:2457`, against
    `fuse-atomic-rename-over.md:160`): `HandlesKeepFile` allows `Garbage`.
11. An open can sample the generation after the commit that made its offsets
    old (`ratarmount-fuse/src/lib.rs:1416`, against `:442`): the same.
12. After a commit whose archive does not open again, or whose base was refused,
    an unlink asks a base that is not the archive on disk and leaves no
    tombstone (`write_overlay.rs:1751`, `:4838`, against
    `fuse-atomic-rename-over.md:114`): `loose`.
13. A new generation that does not open stays behind as an empty file, which
    the next mount takes for the active one (`rolling.rs:434`, against
    `rolling-archives.md:57`): `unopened`.
14. The recovery before a commit is said to roll back only, "to the archive the
    rows describe" (`write_overlay.rs:4381`). It also rolls another process's
    complete journal forward and moves the overlay's rows to the new stamp
    (`journal_recovery.rs:585`), so that the gate accepts, and the commit
    changes, an archive the mount has not read: `adopted`.
15. A commit to `gs://`, or to a server without ETags, replaces the object
    without a precondition (`gcs.rs:949`, `overlay_commit.rs:1158`, `:1464`) and
    can drop another program's commit: `ForeignKept` is stated per store.

## 4. Proofs

Every theorem is about every value of the constants: any sets of processes,
overlays, files, names or readers, and any bounds. It rests on the named
assumption of its module and on nothing else: the "none" values are not members
of the sets they extend, lengths and bounds are naturals, one path names one
directory. Some assumptions ask for more because the code has it too: the files
of an overlay (`LiveAssumption`), the threads of a process
(`PrefetchAssumption`) and the names of a folder (`FuseAssumption`) are finite in
number, the members of the archive at mount are distinct files numbered from 1
(`FuseAssumption`), and versions are byte strings, so that two of them share at
least the shorter of the prefixes each shares with a third
(`PrefixAssumption`). Hypotheses beyond these are named in the theorem:
`~RewriteStashed` in `LiveProofs` and `OneName` in `CommitJournalProofs` and
`RowsProofs`, each the limit a known disagreement sets, and `OneOverlay` in
`RowsProofs`: one process at a time works on an overlay. The code has it from a
flock on the overlay's directory (`SealCommitGuard`, `write_overlay.rs:7414`),
which "covers commit publication and baseline refresh together"
(`overlay_seal.rs:568`); callers that share the rows take turns, and appear as
the successive calls of one process.

None of the proved invariants is inductive. Each module defines the inductive
invariant it needs as a conjunction of named parts, has one lemma per action
(or per group of actions that change the same things), and combines them in an
`...Invariance` theorem; the properties then follow from a state.

| module | theorems | property of a run |
|---|---|---|
| `CommitJournalProofs` | `Invariance`, `MutualExclusion`, `TypeCorrect`, `NoLostUpdateHolds`, `CrashInvariance`, `PowerLossRecoverableHolds`, `AnswersHoldHolds`, `AtomicHolds` | `TypeOK`, `NoLostUpdate`, `PowerLossRecoverable`, `AnswersHold`, `Atomic` |
| `RowsProofs` | `RowsInvariance`, `RowsFollowArchiveHolds`, `OwnJournalAgreesHolds`, `CommitsOnRecordedHolds`, `JournalUnderRows` | `RowsFollowArchive`, `OwnJournalAgrees`, `CommitsOnRecorded`, `NoLostUpdate` |
| `CopyProofs` | `CopyInvariance`, `CopyExclusion`, `CopyTypeCorrect`, `CopyKeepsCommitsHolds`, `GateMatchesServedHolds`, `CommitsOnServedHolds` | `CopyKeepsCommits`, `GateMatchesServed`, `CommitsOnServed` |
| `LiveProofs` | `CommitInvariance`, `WriteInvariance`, `OnceInvariance`, `ForeignKeptHolds`, `NothingLostHolds`, `ReadersCurrentHolds`, `ExitCommitsAllHolds`, `AppendOnceHolds` | `ForeignKept`, `NothingLost`, `ReadersCurrent`, `ExitCommitsAll`, `AppendOnce` |
| `RetainedProofs` | `RetInvariance`, `RetTypeCorrect`, `ReportedStaysHolds`, `TreesRecordedHolds`, `LowersRetainedHolds` | `ReportedStays`, `TreesRecorded`, `LowersRetained` |
| `RollingProofs` | `RollInvariance`, `RollTypeCorrect`, `RemountShowsLatestHolds`, `MountShowsLatestHolds`, `AcceptedCommitsHolds` | `RemountShowsLatest`, `MountShowsLatest`, `AcceptedCommits` |
| `FuseProofs` | `FuseInvariance`, `NodeidKeepsFileHolds`, `CountsAgreeHolds`, `CachedMembersFitHolds`, `HandlesKeepFileHolds` | `NodeidKeepsFile`, `CountsAgree`, `CachedMembersFit`, `HandlesKeepFile` |
| `PrefetchProofs` | `PrefetchInvariance`, `PermitsHeldHolds`, `ReadsInsideHolds` | `PermitsHeld`, `ReadsInside` |

### `CommitJournalProofs`: the plan and the journal

`NoLostUpdate` speaks of the journal header a call holds, which is read from the
disk again during a rollback. `Inv` adds what is needed:

- `IdInv`: attempt numbers of calls under way are distinct and at most
  `attempts`, and a control point determines the operation;
- `LockInv`: a call past the lock holds it, so that only one call moves bytes;
- `PlanInv`: while a call waits for the lock or is about to check, a stamp that
  still agrees means the bytes of the plan; after the check they are the plan;
- `JournalInv`: any journal in memory, in a directory or in its durable copy
  that carries a call's attempt number records that call's plan.

Most actions move one call from one locked step to another, change the file
while its holder is past the check, and leave the journals alone. The lemma
`ShapeStep` shows that they all have this shape, and the `Shape...` lemmas that
the shape preserves each part of `Inv`. The actions that do not have it have a
lemma each (`StartInv`, `LockReplaceInv`, `CheckInv`, `BuildInv`, `PublishInv`,
`ValidateInv`, `PowerLossInv`). `TypeStep` has one step per action.

### `CommitJournalProofs`: crashes

The theorems about crashes, on top of `Inv`. Their hypothesis is `OneName`: the
archive has one directory entry, under any number of paths the directory is
moved to, as in the run `crash_and_race`. It is not for convenience: with a
second hard link in another directory a call does not see a journal left beside
the first (disagreement 4 is one way to leave one), and TLC finds
`PowerLossRecoverable` violated by a second replacement that comes by the other
name.

`CrashInv` has two halves. `DiskInv` says that the cache and the disk together
are in one of four states:

| state | bytes | journal | locator, cache and disk |
|---|---|---|---|
| `RestDisk` | whole and durable | none, or one with these bytes as its old version | none or prepared (done, if there is no journal) |
| `PendingDisk` | being written over | durable, leads on from either copy of the bytes | up to active |
| `CompleteDisk` | the new version, durable | durable | complete or done (active, on disk) |
| `DoneDisk` | the new version, durable | unlinked, on disk still | done |

`CallInv` ties each control point to the state it counts on: what the
`Attempt` record says of the stages reached (`FlagsOf`), what each branch of
`finish_failed` may assume (`FailedInv`, `CleanupInv`), and how far a rollback
has come (`RollbackInv`). Only the holder of the lock changes the disk
(`MutualExclusion`), so every other call's part holds because it names no disk
state before the lock is taken. A power loss takes each of the four states to
one of the four: the lemmas `LevelImages`, `GrownImages` and `LeadsImages` say
what a torn write can leave. Which version a tail holds depends on its bytes
alone (`SameWhole`), which needs that common prefixes of byte strings compose
(`PrefixTrans`).

`PowerLossRecoverable` follows from the disk state. `AnswersHold` is about the
steps that return, and about every later step of others, which may not make an
answer false. For `Atomic`, `Promise` is computed in each of the four states, and
changes only in the step from `PendingDisk` to `CompleteDisk` that makes the
complete locator durable.

### `RowsProofs`

`RowsSpec` is not an instance of `Spec`: a hook fails, without a fault of the
disk, where the rows cannot be restamped (`HookFails`), and an overlay may
refuse a journal (`Refuse`). Both keep `Inv` and `CrashInv` (`JournalHolds`),
because the proofs about the journal's error paths use only that a call fails
where it stands (`FailsInPlace`). So `JournalUnderRows` has the journal's
promises in the composition too.

`RowsInv` puts the rows beside the four states of the disk. As long as no other
process has locked the archive, they are

- `Settled`: at the stamp of the archive, which is the same in the cache and on
  disk; and the locator, of which both copies say the same, tells whether a
  journal's old or new version is in place; or
- `Owned`: at the stamp the durable journal started from.

From its active locator on, with the journal durable, a commit counts on the
second (`ActiveOwned`), and its hook restores the first: `HookedRows` and
`RbHookedRows` show that the restamp closes the gap, for the forward and for the
rolled-back outcome, and `HalfRows` that a locator whose fsync failed opens
none. `DuringInv` says which of the two a control point may count on. `OwedInv`
covers the refresh that runs after the archive's lock is released: with a
refresh owed no journal is left, and the digest hashed before is of the bytes
stored after. `ViaInv` says that the overlay comes by its recorded name,
`AloneInv` that `alone` means what it says.

`GateInv` does not need `alone`: the stamp the gate accepted holds until the
lock is taken, or the plan is stale, or a journal is there that makes a later
check fail. Only the publication, which refuses to replace a journal, rules out
the last case; `CommitsOnRecorded` is therefore about the steps after it, the
first of which that touches the archive's bytes is the truncation.

### `CopyProofs`

The argument is about time. Every change of an inode gives it a ctime later
than all stamps (`ClockInv`, lemma `Later`), so a stamp that still agrees stands
for an unchanged file, and a copy read since for a copy of it (`StampInv`). The
flock is on an inode and not on the name, so that after a publication a process
can hold the lock of a file nobody opens any more: `LockInv` says that a process
past its check holds the lock of the inode that is under the name now, which
`CopyExclusion` follows from. A rollback gives the archive its old mtime back,
and an own recovery moves the rows to bytes the mount has not read; `BaseInv`
therefore covers two mtimes, the archive's own and the one its journal was
started on, and says of both that an overlay with it in its rows knows those
bytes (`Known`, with `adopted` growing by what a recovery rolls forward).
`JournalInv` says which of the two the bytes are.

### `LiveProofs`

`CommitInv` is the control: the in-flight flag and the gate admit one committing
thread, each step finds the spool it needs, between a HEAD and the GET only
other programs change the object (`HeadInv`), and with ETags a splice starts
from a body no older than the last HEAD (`TagInv`). `ForeignKept`, an action
property, follows from `CommitInv` alone, store by store: the only step that
could take a foreign commit away is the PUT; If-Match compares with the HEAD the
body was made from, and a blind PUT still has in its body what that HEAD saw.

`WriteInv` adds where the last write of a file is: in the overlay, or, once a
plan left it, in the archive (`KeptInv`) and in what the mount reads; `PlanInv`
and `PublishInv` say what the plan under way has reached, and `SpoolInv` that a
spool, stale as it may be, differs from the object in the files of its plan only,
so that a PUT without a precondition loses none of the mount's own members.
`OnceInv` adds what a retry may find: an object that holds a version the overlay
still has holds it through the spool at hand (`StashInv`), so the retry
recognises its own PUT, and with nobody else at work no conditional PUT of it is
refused (`MatchInv`).

`WriteInv` and `OnceInv` assume `~RewriteStashed`. This is no convenience: the
run `remote_stash` shows `NothingLost` violated without it (disagreement 1), and
the theorems say that the model has no other way to lose a write. `CommitInv` and
`ForeignKept` do not need it.

### `RetainedProofs`

Three stores change in one commit. `MemoryInv` says what the daemon's maps say
of the trees, `LogInv` that the records in memory are those of the log unless it
is broken, `JobInv` what each step of a finalize may rely on. `TreeInv` is the
centre: a tree that is in `retained/`, or that a power loss may leave there, has
safe content, has its record in every log image, and shares its ID with nobody.
`KeptInv` says that an answered tree and a lower in use are in `retained/` both
visibly and durably, a state no action leaves.

### `RollingProofs`

`MembersInv` says that an archive not in the folder, or not known to the mount,
holds nothing; `SourceInv` that the archives the mount reads are the files, but
for the active one between a commit's write and its reopen, when the overlay
still covers the names that differ; `LooseInv` that the names removed without a
tombstone are in nothing the mount reads and appear only on a mount that
commits no more; `PlanInv` what the plan under way will delete and append. That
a new generation, or one deleted by the host, does not change the newest copy
of any name is the lemmas `NewestSame`, `NewestGrow`, `NewestCleared` and
`NewestShrink`.

### `PrefetchProofs`

`PermitsHeld` equates the budget with a cardinality over the threads; the lemmas
`PermitTaken`, `OneBack`, `PermitsBack` and `PermitsKept` are the four ways a
step can change both sides. `ReadsInside` needs the shape of a readahead:
`QueueInv` (the queued chunks are the reader's own and follow each other in the
file), `CallInv` (what a read in progress has) and `AlignInv` (where a chunk does
not begin at the end of the last one or at the reader, it begins at a chunk
boundary, which no read of the range cache crosses). Both properties are kept by
the panic too (`PanicKeeps`).

### `FuseProofs`

The observation the proof rests on: none of the four steps of a live commit
changes which file a name shows (`CommitKeeps`), so a request that a commit
interrupts still names its file, and only the offsets it holds can be old.
`FuseInv` has

- `StoreInv`, `ViewInv`: the base and the generation move together except
  between swap and bump, the plan is what the overlay changed and then what the
  new base holds, and no two names show one file;
- `TableInv`: an entry is blank, or linked to a name that shows its file, or
  detached and parked on a file that no name shows; no two entries are of one
  file, and an entry counts the kernel's references;
- `CacheInv`: a cached member is the file of its entry and fits the base, or the
  sweep that drops it is due (`Fits`);
- `HandleInv`: a handle on the source that is not detached has a name that shows
  its file, which is why a refresh by name finds the right one;
- `ReqInv`: what the request in progress read in its earlier steps still holds,
  whatever the commit did in between.

There is one lemma per handler. Unlink and rename are the long ones: they are
the only requests that change what two names show, detach an entry, and mark
handles in one step.

### Only model-checked

- `RecoveryEnds`, `ExitAnswers`: liveness under fairness, and `ReadsNeverWait`,
  which says `ENABLED`, are out of the prover's reach.
- `StateLog` and `RequestLog` (`Reopenable`, `ReplayMatches`, `ToldIsStored`,
  `NamesUnambiguous`, `FinalizeRecordKept`, `DurableSpec`) replay a sequence of
  records by a fold: what it computes for every sequence takes an induction over
  data, which the installed provers cannot do. Maxima and least elements need
  no such induction: lemma `Least` has them from the well-foundedness of `<`.
- `OverlayFiles` (`SettledView`, `RenameAtomic`, `CommitKeepsView`) replays the
  queue of unsaved rows by a fold (`ApplyOps`): the same limit.

## 5. Plan

Done: the modules of section 2. Left, in this order:

1. Mount voting: several overlays' records decide one journal (`Owner::Mount`,
   `decide`, `recover_mount_journals`), which a stamp alone identifies.
2. The mount control socket and the sandbox's child processes.

## 6. Not modelled

Corrupt journals and locators (CRC and bounds checks), foreign journals beside
the archive, the `--force-*` flags, platforms without xattrs (no journal
there), SQLite internals, directories and attributes in the overlay and the
front end, the sandbox's child processes and mounts, archive formats and
codecs, other remote backends, the servers. These are most of the repository's
lines: about thirty parsers, codecs, protocol clients and option handling whose
correctness is about bytes, not about order, and which share no state that
outlives a call. The map therefore covers a small share of all lines; it covers
the code that changes persistent or shared state on the write path. The reasons
are with each component in `PROJECT.json`.
