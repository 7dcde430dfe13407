---------------------------- MODULE CopyFallback ----------------------------
(***************************************************************************)
(* A commit that cannot append in place copies the archive and renames the *)
(* copy over it (journal_recovery.rs failed_replace, open_copy_source,     *)
(* publish_over; commit_journal.rs guard_copy), while other processes      *)
(* append, copy and recover the same archive.                              *)
(*                                                                         *)
(* The journaled replacement is CommitJournal's, here in three steps: the  *)
(* locked check, the torn bytes under a journal, and its outcome.  An      *)
(* archive is the set of the commits it holds.  The clock gives every      *)
(* change its own time, so a stamp is (inode, length, mtime, ctime); a     *)
(* rollback may restore the mtime, and losing its name moves an inode's    *)
(* ctime.  A journal left behind is applied by any open of the archive,    *)
(* which leaves the rows of the mounted overlays alone (Recover), or by a  *)
(* commit of a mounted overlay, which restamps its own (RecoverOwn).       *)
(***************************************************************************)
EXTENDS Naturals, FiniteSets

CONSTANTS
  Overlays,       \* write overlays mounted on the archive, one process each
  None,
  MaxCommits,     \* bound: commits started, by all overlays
  MaxRemounts     \* bound: remounts that accept the archive as it is

ASSUME CopyAssumption ==
  /\ None \notin Overlays
  /\ MaxCommits \in Nat /\ MaxRemounts \in Nat

Commits == 1..MaxCommits
\* Every copy is of another commit, so it has the number of its commit.
Inodes == 0..MaxCommits

VARIABLES
  inode,          \* the files: what they hold, their times and journal
  name,           \* the inode the archive's path leads to
  lock,           \* the holder of each inode's flock
  clock, next,    \* the time; the next commit's number
  acked,          \* the commits that were reported done
  pc,
  commit,         \* the commit each overlay works on
  stamp,          \* the stamp its next check compares with
  fd,             \* the file it has open
  copy,           \* the staged copy
  base,           \* base_size, base_mtime of its rows, the inode of its token
  served,         \* what its mount reads
  adopted,        \* history: the commits its own recoveries rolled forward
  remounts

disk == <<inode, name, lock, clock, next>>
own == <<commit, stamp, fd, copy>>
mount == <<base, served, adopted, remounts>>
copyVars == <<disk, acked, pc, own, mount>>

\* A journal is started on `pre`, the archive before the suffix is replaced;
\* "complete" once the new bytes are.
NoPre == [data |-> {}, mtime |-> 0]
NoFile == [data |-> {}, torn |-> FALSE, journal |-> "none", pre |-> NoPre,
           mtime |-> 0, ctime |-> 0]

\* stat: the length is the number of commits, torn bytes make it another one.
Length(i) == 2 * Cardinality(inode[i].data) + (IF inode[i].torn THEN 1 ELSE 0)

\* same_stamp: device, inode, length, mtime and ctime.
Stamp(i) ==
  [ino |-> i, len |-> Length(i), mtime |-> inode[i].mtime, ctime |-> inode[i].ctime]

\* What the gate compares: size and mtime with the rows, the inode with the
\* token (same_file).
BaseOf(i) == [ino |-> i, len |-> Length(i), mtime |-> inode[i].mtime]

\* The archive at i before its journal was started.
PreBase(i) == [ino |-> i, len |-> 2 * Cardinality(inode[i].pre.data),
               mtime |-> inode[i].pre.mtime]

Steps == {"idle", "gated", "open", "write", "torn", "copy", "read", "guard", "lock",
          "publish", "refresh", "reopen", "stopped"}

CopyTypeOK ==
  /\ \A i \in Inodes :
       /\ inode[i].data \subseteq Commits
       /\ inode[i].torn \in BOOLEAN /\ inode[i].journal \in {"none", "active", "complete"}
       /\ inode[i].pre.data \subseteq Commits /\ inode[i].pre.mtime \in 0..clock
       /\ inode[i].mtime \in 0..clock /\ inode[i].ctime \in 0..clock
  /\ name \in Inodes
  /\ lock \in [Inodes -> Overlays \cup {None}]
  /\ clock \in Nat /\ next \in 1..(MaxCommits + 1)
  /\ acked \subseteq Commits
  /\ pc \in [Overlays -> Steps]
  /\ commit \in [Overlays -> Inodes] /\ fd \in [Overlays -> Inodes]
  /\ \A o \in Overlays :
       /\ served[o] \subseteq Commits /\ copy[o].data \subseteq Commits
       /\ adopted[o] \subseteq Commits
  /\ remounts \in 0..MaxRemounts
  \* A lock is held between its check and the write it protects, no longer.
  /\ \A i \in Inodes, o \in Overlays :
       lock[i] = o => pc[o] \in {"write", "torn", "publish"} /\ fd[o] = i

Init ==
  /\ inode = [i \in Inodes |-> NoFile] /\ name = 0
  /\ lock = [i \in Inodes |-> None] /\ clock = 0 /\ next = 1
  /\ acked = {}
  /\ pc = [o \in Overlays |-> "idle"]
  /\ commit = [o \in Overlays |-> 0] /\ fd = [o \in Overlays |-> 0]
  /\ stamp = [o \in Overlays |-> Stamp(0)]
  /\ copy = [o \in Overlays |-> [data |-> {}, torn |-> FALSE]]
  /\ base = [o \in Overlays |-> BaseOf(0)]
  /\ served = [o \in Overlays |-> {}] /\ adopted = [o \in Overlays |-> {}]
  /\ remounts = 0

Goto(o, step) == pc' = [pc EXCEPT ![o] = step]
Unlock(o) == lock' = [i \in Inodes |-> IF lock[i] = o THEN None ELSE lock[i]]

\* An inode changed now; `restored` keeps the mtime it is given.
Touched(file, mtime) == [file EXCEPT !.mtime = mtime, !.ctime = clock + 1]

-----------------------------------------------------------------------------
(* The gate and the replacement in place.                                  *)

Pending(i) == inode[i].journal # "none"

\* journal_agrees: started on the recorded state, or the rows already describe
\* what a recovery will leave.
JournalAgrees(o) ==
  \/ PreBase(name) = base[o]
  \/ inode[name].journal = "complete" /\ BaseOf(name) = base[o]
  \/ /\ inode[name].journal = "active" /\ BaseOf(name) = base[o]
     /\ Length(name) = PreBase(name).len

\* check_commit_base: the recorded file, with a journal that agrees or at the
\* recorded stamp.
GateAccepts(o) ==
  /\ base[o].ino = name
  /\ IF Pending(name) THEN JournalAgrees(o) ELSE BaseOf(name) = base[o]

\* check_commit_identity gives the snapshot every later check compares with.
Gate(o) ==
  /\ pc[o] = "idle" /\ next <= MaxCommits /\ GateAccepts(o)
  /\ commit' = [commit EXCEPT ![o] = next] /\ next' = next + 1
  /\ stamp' = [stamp EXCEPT ![o] = Stamp(name)]
  /\ Goto(o, "gated")
  /\ UNCHANGED <<inode, name, lock, clock, acked, fd, copy, mount>>

\* may_append: the replacement in place, else the copy at once (CopyFrom::Gate).
Choose(o) ==
  /\ pc[o] = "gated"
  /\ \/ Goto(o, "open") /\ fd' = [fd EXCEPT ![o] = name]
     \/ Goto(o, "copy") /\ UNCHANGED fd
  /\ UNCHANGED <<disk, acked, commit, stamp, copy, mount>>

\* The archive that was opened is locked and is the gate's snapshot; or the
\* replacement is refused and the copy compares with the gate's snapshot.
LockReplace(o) ==
  /\ pc[o] = "open"
  /\ IF lock[fd[o]] = None /\ ~Pending(fd[o]) /\ Stamp(fd[o]) = stamp[o]
     THEN lock' = [lock EXCEPT ![fd[o]] = o] /\ Goto(o, "write")
     ELSE UNCHANGED lock /\ Goto(o, "copy")
  /\ UNCHANGED <<inode, name, clock, next, acked, own, mount>>

\* The journal is durable and the suffix is being replaced.
Tear(o) ==
  /\ pc[o] = "write" /\ Goto(o, "torn")
  /\ inode' = [inode EXCEPT ![fd[o]] =
       [Touched(@, clock + 1) EXCEPT !.torn = TRUE, !.journal = "active",
                                     !.pre = [data |-> inode[fd[o]].data,
                                              mtime |-> inode[fd[o]].mtime]]]
  /\ clock' = clock + 1
  /\ UNCHANGED <<name, lock, next, acked, own, mount>>

\* The replacement is done: rows restamped by the hook, journal unlinked.
Replaced(o) ==
  /\ pc[o] = "torn" /\ Goto(o, "refresh")
  /\ inode' = [inode EXCEPT ![fd[o]] =
       [Touched(@, clock + 1) EXCEPT !.torn = FALSE, !.journal = "none", !.pre = NoPre,
                                     !.data = inode[fd[o]].data \cup {commit[o]}]]
  /\ clock' = clock + 1 /\ Unlock(o)
  /\ base' = [base EXCEPT ![o].len = 2 * Cardinality(inode'[fd[o]].data),
                          ![o].mtime = inode'[fd[o]].mtime]
  /\ acked' = acked \cup {commit[o]}
  /\ UNCHANGED <<name, next, own, served, adopted, remounts>>

\* rollback: old bytes that are not in place are put back, and their mtime
\* unless that is not permitted; bytes in place, old or new, are left.
SettledTimes(i) ==
  IF inode[i].torn THEN {inode[i].pre.mtime, clock + 1} ELSE {inode[i].mtime}

\* The bytes are settled and the journal is unlinked, or `kept`.
Settled(i, mtime, kept) ==
  [Touched(inode[i], mtime) EXCEPT !.torn = FALSE,
                                   !.journal = IF kept THEN @ ELSE "none",
                                   !.pre = IF kept THEN @ ELSE NoPre]

\* ReplaceError::RolledBack: the locked descriptor's stamp after the cleanup.
CopyReference(o, i) ==
  [ino |-> i, len |-> 2 * Cardinality(inode'[i].data), mtime |-> inode'[i].mtime,
   ctime |-> inode'[i].ctime]

\* The attempt rolled back under its lock; the hook restamps the rows.  The
\* copy may follow, unless its reference stamp could not be read.
RolledBack(o) ==
  /\ pc[o] = "torn"
  /\ LET i == fd[o] IN
     /\ \E t \in SettledTimes(i) : inode' = [inode EXCEPT ![i] = Settled(i, t, FALSE)]
     /\ \/ Goto(o, "copy") /\ stamp' = [stamp EXCEPT ![o] = CopyReference(o, i)]
        \/ Goto(o, "idle") /\ UNCHANGED stamp
     /\ base' = [base EXCEPT ![o].mtime = inode'[i].mtime]
  /\ clock' = clock + 1 /\ Unlock(o)
  /\ UNCHANGED <<name, next, acked, commit, fd, copy, served, adopted, remounts>>

\* ReplaceError::Pending, or Committed with its cleanup undone: the mount stops.
Unusable(o) ==
  /\ pc[o] = "torn" /\ Goto(o, "stopped") /\ Unlock(o)
  /\ \/ UNCHANGED <<inode, clock>>
     \/ /\ inode' = [inode EXCEPT ![fd[o]] =
              [Touched(@, clock + 1) EXCEPT !.torn = FALSE, !.journal = "complete",
                                            !.data = inode[fd[o]].data \cup {commit[o]}]]
        /\ clock' = clock + 1
  /\ UNCHANGED <<name, next, acked, own, mount>>

-----------------------------------------------------------------------------
(* The copy fallback.                                                      *)

\* mutant: the copy is compared with the stamp it finds.
OpenCopySourceAny(o) ==
  /\ pc[o] = "copy" /\ fd' = [fd EXCEPT ![o] = name] /\ Goto(o, "read")
  /\ stamp' = [stamp EXCEPT ![o] = Stamp(name)]
  /\ UNCHANGED <<disk, acked, commit, copy, mount>>

\* open_copy_source: the archive, by name, is still the reference stamp.
OpenCopySource(o) ==
  /\ pc[o] = "copy" /\ fd' = [fd EXCEPT ![o] = name]
  /\ Goto(o, IF Stamp(name) = stamp[o] THEN "read" ELSE "idle")
  /\ UNCHANGED <<disk, acked, commit, stamp, copy, mount>>

\* The copy is read without a lock, from a file that may be changing.
ReadCopy(o) ==
  /\ pc[o] = "read"
  /\ copy' = [copy EXCEPT ![o] = [data |-> inode[fd[o]].data, torn |-> inode[fd[o]].torn]]
  /\ Goto(o, "guard")
  /\ UNCHANGED <<disk, acked, commit, stamp, fd, mount>>

\* guard_copy opens the archive by name,
OpenGuard(o) ==
  /\ pc[o] = "guard" /\ fd' = [fd EXCEPT ![o] = name] /\ Goto(o, "lock")
  /\ UNCHANGED <<disk, acked, commit, stamp, copy, mount>>

\* mutant: the copy is published without the archive's lock.
GuardCopyUnlocked(o) ==
  /\ pc[o] = "lock"
  /\ Goto(o, IF ~Pending(fd[o]) /\ Stamp(fd[o]) = stamp[o] THEN "publish" ELSE "idle")
  /\ UNCHANGED <<disk, acked, own, mount>>

\* locks it once, and refuses a journal and any other stamp.
GuardCopy(o) ==
  /\ pc[o] = "lock"
  /\ IF lock[fd[o]] = None /\ ~Pending(fd[o]) /\ Stamp(fd[o]) = stamp[o]
     THEN lock' = [lock EXCEPT ![fd[o]] = o] /\ Goto(o, "publish")
     ELSE UNCHANGED lock /\ Goto(o, "idle")
  /\ UNCHANGED <<inode, name, clock, next, acked, own, mount>>

\* publish_over: the staged copy is renamed over the archive under the guard.
Publish(o) ==
  /\ pc[o] = "publish" /\ Goto(o, "refresh")
  /\ inode' = [inode EXCEPT
       ![name] = Touched(@, @.mtime),
       ![commit[o]] = [data |-> copy[o].data \cup {commit[o]}, torn |-> copy[o].torn,
                       journal |-> "none", pre |-> NoPre,
                       mtime |-> clock + 1, ctime |-> clock + 1]]
  /\ name' = commit[o]
  /\ clock' = clock + 1 /\ Unlock(o)
  /\ acked' = acked \cup {commit[o]}
  /\ UNCHANGED <<next, own, mount>>

\* The publication fails under the guard.
PublishFails(o) ==
  /\ pc[o] = "publish" /\ Goto(o, "idle") /\ Unlock(o)
  /\ UNCHANGED <<inode, name, clock, next, acked, own, mount>>

-----------------------------------------------------------------------------
(* After the lock: refresh_committed_base, then the reopen.                *)

\* The archive by name, whatever it is by now; hashing a torn one fails or
\* refuses the base.
Refresh(o) ==
  /\ pc[o] = "refresh"
  /\ \/ Goto(o, "stopped") /\ UNCHANGED base
     \/ ~inode[name].torn /\ Goto(o, "reopen") /\ base' = [base EXCEPT ![o] = BaseOf(name)]
  /\ UNCHANGED <<disk, acked, own, served, adopted, remounts>>

\* mutant: the mount adds the commit to what it read before.
ReopenAdds(o) ==
  /\ pc[o] = "reopen" /\ Goto(o, "idle")
  /\ served' = [served EXCEPT ![o] = @ \cup {commit[o]}]
  /\ UNCHANGED <<disk, acked, own, base, adopted, remounts>>

\* The mount reads the archive by name; a torn one does not open.
Reopen(o) ==
  /\ pc[o] = "reopen"
  /\ \/ Goto(o, "stopped") /\ UNCHANGED <<served, adopted>>
     \/ /\ ~inode[name].torn /\ served' = [served EXCEPT ![o] = inode[name].data]
        /\ adopted' = [adopted EXCEPT ![o] = {}]
        /\ Goto(o, "idle")
  /\ UNCHANGED <<disk, acked, own, base, remounts>>

-----------------------------------------------------------------------------
(* Recovery, crashes and remounts.                                         *)

\* recover, by any open of the archive: under the lock, back to the old
\* bytes, or forward when the new ones are complete.  The rows of the mounted
\* overlays are not this open's.  A failure after the bytes are restored
\* leaves the journal.
Recover ==
  /\ Pending(name) /\ lock[name] = None
  /\ \E t \in SettledTimes(name), kept \in {FALSE, inode[name].torn} :
       inode' = [inode EXCEPT ![name] = Settled(name, t, kept)]
  /\ clock' = clock + 1
  /\ UNCHANGED <<name, lock, next, acked, pc, own, mount>>

\* restamp_once, Restamp::Recovery: after a rollback the rows follow only an
\* mtime that was not restored, of a journal started on the recorded state;
\* after a roll-forward they take the new stamp, unless the journal was started
\* on another state.
Restamped(o, mtime) ==
  LET f == inode[name]
      started == PreBase(name) = base[o]
      final == [ino |-> base[o].ino, len |-> 2 * Cardinality(f.data), mtime |-> mtime]
  IN IF f.journal = "active"
     THEN IF mtime = f.pre.mtime \/ ~started THEN base[o] ELSE final
     ELSE IF ~started /\ base[o] # final THEN base[o] ELSE final

\* The recovery at the start of a mounted overlay's commit, Rows::Shared and
\* Owner::Recorded: authorized like the gate, it restamps the rows while the
\* mount goes on reading what it opened.  A failure keeps the journal, with
\* the rows restamped or not: over committed bytes it stops the mount, over
\* restored ones only the first of the two recoveries of a commit does.
RecoverOwn(o) ==
  /\ pc[o] = "idle" /\ Pending(name) /\ lock[name] = None /\ GateAccepts(o)
  /\ LET complete == inode[name].journal = "complete" IN
     \E t \in SettledTimes(name), kept \in {FALSE, complete \/ inode[name].torn} :
       /\ inode' = [inode EXCEPT ![name] = Settled(name, t, kept)]
       /\ \/ base' = [base EXCEPT ![o] = Restamped(o, t)]
          \/ kept /\ UNCHANGED base
       /\ \/ kept /\ Goto(o, "stopped")
          \/ ~(kept /\ complete) /\ UNCHANGED pc
       /\ adopted' = [adopted EXCEPT ![o] = @ \cup (inode[name].data \ inode[name].pre.data)]
  /\ clock' = clock + 1
  /\ UNCHANGED <<name, lock, next, acked, own, served, remounts>>

\* The process dies; the kernel drops its lock.
Kill(o) ==
  /\ pc[o] # "stopped" /\ Goto(o, "stopped") /\ Unlock(o)
  /\ UNCHANGED <<inode, name, clock, next, acked, own, mount>>

\* A remount that the gate accepts, or of a new overlay, with the archive as
\* its base.
Remount(o) ==
  /\ pc[o] \in {"idle", "stopped"} /\ remounts < MaxRemounts
  /\ ~Pending(name) /\ remounts' = remounts + 1
  /\ Goto(o, "idle")
  /\ base' = [base EXCEPT ![o] = BaseOf(name)]
  /\ served' = [served EXCEPT ![o] = inode[name].data]
  /\ adopted' = [adopted EXCEPT ![o] = {}]
  /\ UNCHANGED <<disk, acked, own>>

\* Nothing is under way.
Rest == (\A o \in Overlays : pc[o] \in {"idle", "stopped"}) /\ UNCHANGED copyVars

Next ==
  \/ \E o \in Overlays :
       \/ Gate(o) \/ Choose(o) \/ LockReplace(o) \/ Tear(o) \/ Replaced(o)
       \/ RolledBack(o) \/ Unusable(o) \/ OpenCopySource(o) \/ ReadCopy(o)
       \/ OpenGuard(o) \/ GuardCopy(o) \/ Publish(o) \/ PublishFails(o)
       \/ Refresh(o) \/ Reopen(o) \/ RecoverOwn(o) \/ Kill(o) \/ Remount(o)
  \/ Recover \/ Rest

CopySpec == Init /\ [][Next]_copyVars

-----------------------------------------------------------------------------
(* A commit once reported stays in the archive: no copy made from an older *)
(* archive, and no rollback, ever replaces a file that has it.  And the    *)
(* archive's name never leads to bytes that are neither old nor new        *)
(* without the journal that repairs them: a copy read while another        *)
(* process was replacing the suffix is never published, and no copy is     *)
(* renamed over an archive whose journal is pending.                       *)
CopyKeepsCommits ==
  /\ acked \subseteq inode[name].data
  /\ inode[name].torn => Pending(name)

(* The archive as an overlay knows it: what its mount read, and the        *)
(* commits of others its own recoveries have rolled forward since.         *)
Known(o) == served[o] \cup adopted[o]

(* The gate judges what the mount knows: an overlay whose recorded base    *)
(* matches the archive, although refresh and reopen look at it after the   *)
(* lock was released and rollbacks may restore an mtime, has read exactly  *)
(* that archive, or has itself rolled forward whatever it has not read.    *)
(* (The comment at write_overlay.rs:4381 knows rollbacks only.)            *)
GateMatchesServed ==
  \A o \in Overlays :
    pc[o] = "idle" /\ ~Pending(name) /\ base[o] = BaseOf(name)
      => Known(o) = inode[name].data

(* A commit goes only onto the archive its gate judged, whichever way it   *)
(* is written: its deletions and its window are never applied to commits   *)
(* of another process that neither its mount read nor its own recovery     *)
(* rolled forward.                                                         *)
CommitsOnServed ==
  \A o \in Overlays :
    /\ pc[o] \in {"write", "torn"} => inode[fd[o]].data = Known(o)
    /\ pc[o] = "publish" => copy[o].data = Known(o)
=============================================================================
