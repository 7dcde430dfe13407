----------------------------- MODULE CopyProofs -----------------------------
(***************************************************************************)
(* Proofs about CopyFallback, for every number of overlays, commits and    *)
(* remounts: no copy loses a reported commit, the gate judges what the     *)
(* mount knows, and a commit goes only onto the archive its gate judged.   *)
(*                                                                         *)
(* The argument is about time.  Every change of an inode gives it a new    *)
(* ctime, so a stamp that still agrees stands for an unchanged file        *)
(* (StampInv); who is past the flock works on the archive's own inode,     *)
(* which nobody else changes (LockInv); and the mtimes the archive can     *)
(* have, its own and the one its journal was started on, stand for what    *)
(* the overlay with that mtime in its rows knows (BaseInv), also when its  *)
(* own recovery moves the rows to bytes its mount has not read.            *)
(***************************************************************************)
EXTENDS CopyFallback, FiniteSetTheorems, TLAPS

PreRec == [data : SUBSET Commits, mtime : Nat]
File == [data : SUBSET Commits, torn : BOOLEAN, journal : {"none", "active", "complete"},
         pre : PreRec, mtime : Nat, ctime : Nat]
StampRec == [ino : Inodes, len : Nat, mtime : Nat, ctime : Nat]
CopyRec == [data : SUBSET Commits, torn : BOOLEAN]
BaseRec == [ino : Inodes, len : Nat, mtime : Nat]

DiskTypes ==
  /\ inode \in [Inodes -> File] /\ name \in Inodes
  /\ lock \in [Inodes -> Overlays \cup {None}]
  /\ clock \in Nat /\ next \in 1..(MaxCommits + 1) /\ acked \in SUBSET Commits

OwnTypes ==
  /\ pc \in [Overlays -> Steps]
  /\ commit \in [Overlays -> Inodes] /\ fd \in [Overlays -> Inodes]
  /\ stamp \in [Overlays -> StampRec] /\ copy \in [Overlays -> CopyRec]
  /\ base \in [Overlays -> BaseRec] /\ served \in [Overlays -> SUBSET Commits]
  /\ adopted \in [Overlays -> SUBSET Commits]
  /\ remounts \in 0..MaxRemounts

Types == DiskTypes /\ OwnTypes

\* Nothing is stamped in the future.
ClockInv ==
  /\ clock \in Nat
  /\ \A i \in Inodes : /\ inode[i].mtime \in 0..clock /\ inode[i].ctime \in 0..clock
                       /\ inode[i].pre.mtime \in 0..clock
  /\ \A o \in Overlays : /\ stamp[o].ctime \in 0..clock /\ stamp[o].mtime \in 0..clock
                         /\ base[o].mtime \in 0..clock
  /\ \A o \in Overlays : pc[o] \notin {"idle", "stopped"} => commit[o] \in Commits

\* A journal holds the old bytes, which the archive keeps until the new ones
\* are complete.
JournalInv ==
  /\ Pending(name) => inode[name].pre.data \subseteq inode[name].data
  /\ inode[name].journal = "active" => inode[name].pre.data = inode[name].data
  /\ inode[name].torn => inode[name].journal = "active"

Locked == {"write", "torn", "publish"}

\* A lock is held between its check and the write it protects; its holder
\* works on the archive its overlay knows.
LockInv ==
  /\ \A i \in Inodes, o \in Overlays : lock[i] = o => pc[o] \in Locked /\ fd[o] = i
  /\ \A o \in Overlays : pc[o] \in Locked =>
       fd[o] = name /\ lock[name] = o /\ inode[name].data = Known(o)
  /\ \A o \in Overlays :
       /\ pc[o] = "torn" => inode[name].torn
       /\ pc[o] = "write" => ~inode[name].torn
       /\ pc[o] = "publish" => copy[o].data = Known(o) /\ ~copy[o].torn

Stamped == {"gated", "open", "copy", "read", "guard", "lock"}

Agrees(o) == inode[stamp[o].ino].ctime = stamp[o].ctime

\* A stamp that still agrees is the archive's, as the overlay knows it unless
\* the gate took it with a journal, which is then still there; a copy read
\* since is a copy of it.
StampInv ==
  \A o \in Overlays :
    /\ pc[o] \in Stamped /\ Agrees(o) =>
         /\ stamp[o].ino = name
         /\ ~Pending(name) => inode[name].data = Known(o)
    /\ pc[o] \in {"guard", "lock"} /\ Agrees(o) /\ ~Pending(name) =>
         copy[o].data = Known(o) /\ ~copy[o].torn
    /\ pc[o] = "read" => fd[o] = stamp[o].ino

\* A recorded mtime that the archive has means its bytes; one that its journal
\* was started on means the old bytes, and nothing beyond the new ones.
BaseInv ==
  \A o \in Overlays : pc[o] \notin {"refresh", "reopen", "stopped"} =>
    /\ base[o].mtime = inode[name].mtime => Known(o) = inode[name].data
    /\ Pending(name) /\ base[o].mtime = inode[name].pre.mtime =>
         inode[name].pre.data \subseteq Known(o) /\ Known(o) \subseteq inode[name].data

CopyInv == /\ Types /\ ClockInv /\ JournalInv /\ LockInv /\ StampInv /\ BaseInv
           /\ CopyKeepsCommits

\* A file's length is a number: the archive holds finitely many commits.
LEMMA LengthType ==
  ASSUME NEW data \in SUBSET Commits
  PROVE  Cardinality(data) \in Nat
<1>1. IsFiniteSet(Commits)
  BY CopyAssumption, FS_Interval DEF Commits
<1>2. QED
  BY <1>1, FS_Subset, FS_CardinalityType

\* No journal.
LEMMA NoPreType == NoPre \in PreRec
BY DEF NoPre, PreRec

\* Inode i, and no other, changed now.
Changed(i, data, torn, journal, pre, mtime) ==
  /\ inode' \in [Inodes -> File] /\ clock' = clock + 1
  /\ \A k \in Inodes : k # i => inode'[k] = inode[k]
  /\ inode'[i].data = data /\ inode'[i].torn = torn /\ inode'[i].journal = journal
  /\ inode'[i].pre = pre
  /\ inode'[i].mtime = mtime /\ inode'[i].ctime = clock + 1

\* What the clock gives now is later than everything stamped so far.
LEMMA Later ==
  ASSUME ClockInv
  PROVE  /\ clock + 1 \in Nat /\ clock + 1 \in 0..(clock + 1)
         /\ \A t \in 0..clock : t \in 0..(clock + 1) /\ t # clock + 1
         /\ \A o \in Overlays : stamp[o].ctime # clock + 1 /\ base[o].mtime # clock + 1
BY DEF ClockInv

\* A process drops its own locks only.
Freed(o) ==
  /\ lock' \in [Inodes -> Overlays \cup {None}]
  /\ \A i \in Inodes : lock'[i] = IF lock[i] = o THEN None ELSE lock[i]

\* That is what the end of a locked section, or of a process, does.
LEMMA UnlockFrees ==
  ASSUME CopyInv, NEW o \in Overlays, Unlock(o)
  PROVE  Freed(o)
BY DEF Unlock, Freed, CopyInv, Types, DiskTypes, OwnTypes

\* Touched changes the times of a file and nothing else.
LEMMA TouchedFile ==
  ASSUME NEW f \in File, NEW m \in Nat, clock \in Nat
  PROVE  /\ Touched(f, m) \in File
         /\ Touched(f, m).data = f.data /\ Touched(f, m).torn = f.torn
         /\ Touched(f, m).journal = f.journal /\ Touched(f, m).pre = f.pre
         /\ Touched(f, m).mtime = m /\ Touched(f, m).ctime = clock + 1
<1>1. ASSUME NEW c \in Nat
      PROVE  LET g == [f EXCEPT !.mtime = m, !.ctime = c]
             IN  /\ g \in File /\ g.mtime = m /\ g.ctime = c
                 /\ g.data = f.data /\ g.torn = f.torn /\ g.journal = f.journal /\ g.pre = f.pre
  BY DEF File
<1>2. clock + 1 \in Nat
  OBVIOUS
<1>3. QED
  BY ONLY <1>1, <1>2 DEF Touched

\* What an assignment to one inode means.
LEMMA SetChanged ==
  ASSUME CopyInv, NEW i \in Inodes, NEW f \in File, f.ctime = clock + 1,
         inode' = [inode EXCEPT ![i] = f], clock' = clock + 1
  PROVE  Changed(i, f.data, f.torn, f.journal, f.pre, f.mtime)
BY DEF Changed, CopyInv, Types, DiskTypes, OwnTypes

\* What a journal started now records.
Now(i) == [data |-> inode[i].data, mtime |-> inode[i].mtime]

\* The suffix is being replaced.
LEMMA TearChanges ==
  ASSUME CopyInv, NEW o \in Overlays, Tear(o)
  PROVE  Changed(fd[o], inode[fd[o]].data, TRUE, "active", Now(fd[o]), clock + 1)
<1>1. /\ inode[fd[o]] \in File /\ fd[o] \in Inodes
      /\ clock \in Nat /\ clock + 1 \in Nat
  BY DEF CopyInv, Types, DiskTypes, OwnTypes
<1> DEFINE t == Touched(inode[fd[o]], clock + 1)
           n == Now(fd[o])
           f == [t EXCEPT !.torn = TRUE, !.journal = "active", !.pre = n]
<1>2. inode' = [inode EXCEPT ![fd[o]] = f] /\ clock' = clock + 1
  BY DEF Tear, Now
<1>3. /\ t \in File /\ t.data = inode[fd[o]].data
      /\ t.mtime = clock + 1 /\ t.ctime = clock + 1
  BY <1>1, TouchedFile
<1>4. n \in PreRec
  BY <1>1 DEF Now, File, PreRec
<1> HIDE DEF t, n
<1>5. /\ f \in File /\ f.data = inode[fd[o]].data /\ f.torn = TRUE
      /\ f.journal = "active" /\ f.pre = n /\ f.mtime = clock + 1 /\ f.ctime = clock + 1
  BY <1>3, <1>4 DEF File
<1> HIDE DEF f
<1>6. QED
  BY <1>1, <1>2, <1>5, SetChanged DEF n

\* The suffix is replaced.
LEMMA ReplacedChanges ==
  ASSUME CopyInv, NEW o \in Overlays, Replaced(o)
  PROVE  Changed(fd[o], inode[fd[o]].data \cup {commit[o]}, FALSE, "none", NoPre,
                  clock + 1)
<1>1. /\ inode[fd[o]] \in File /\ fd[o] \in Inodes
      /\ clock \in Nat /\ clock + 1 \in Nat
  BY DEF CopyInv, Types, DiskTypes, OwnTypes
<1>2. commit[o] \in Commits
  BY DEF Replaced, CopyInv, ClockInv
<1> DEFINE t == Touched(inode[fd[o]], clock + 1)
           d == inode[fd[o]].data \cup {commit[o]}
           f == [t EXCEPT !.torn = FALSE, !.journal = "none", !.pre = NoPre, !.data = d]
<1>3. inode' = [inode EXCEPT ![fd[o]] = f] /\ clock' = clock + 1
  BY DEF Replaced
<1>4. t \in File /\ t.mtime = clock + 1 /\ t.ctime = clock + 1
  BY <1>1, TouchedFile
<1>5. d \in SUBSET Commits
  BY <1>1, <1>2 DEF File
<1> HIDE DEF t, d
<1>6. /\ f \in File /\ f.data = d /\ f.torn = FALSE /\ f.journal = "none"
      /\ f.pre = NoPre /\ f.mtime = clock + 1 /\ f.ctime = clock + 1
  BY <1>4, <1>5, NoPreType DEF File
<1> HIDE DEF f
<1>7. QED
  BY <1>1, <1>3, <1>6, SetChanged DEF d

\* A rollback, or a recovery.
LEMMA SettledChanges ==
  ASSUME CopyInv, NEW i \in Inodes, NEW m \in Nat, NEW kept \in BOOLEAN,
         inode' = [inode EXCEPT ![i] = Settled(i, m, kept)], clock' = clock + 1
  PROVE  Changed(i, inode[i].data, FALSE, IF kept THEN inode[i].journal ELSE "none",
                 IF kept THEN inode[i].pre ELSE NoPre, m)
<1>1. inode[i] \in File /\ clock \in Nat
  BY DEF CopyInv, Types, DiskTypes, OwnTypes
<1> DEFINE t == Touched(inode[i], m)
           j == IF kept THEN t.journal ELSE "none"
           p == IF kept THEN t.pre ELSE NoPre
           f == [t EXCEPT !.torn = FALSE, !.journal = j, !.pre = p]
<1>2. inode' = [inode EXCEPT ![i] = f]
  BY DEF Settled
<1>3. /\ t \in File /\ t.data = inode[i].data /\ t.mtime = m /\ t.ctime = clock + 1
      /\ t.journal = inode[i].journal /\ t.pre = inode[i].pre
  BY <1>1, TouchedFile
<1>4. /\ j = IF kept THEN inode[i].journal ELSE "none"
      /\ p = IF kept THEN inode[i].pre ELSE NoPre
      /\ j \in {"none", "active", "complete"} /\ p \in PreRec
  BY <1>1, <1>3, NoPreType DEF File
<1> HIDE DEF t, j, p
<1>5. /\ f \in File /\ f.data = inode[i].data /\ f.torn = FALSE
      /\ f.journal = j /\ f.pre = p /\ f.mtime = m /\ f.ctime = clock + 1
  BY <1>3, <1>4 DEF File
<1> HIDE DEF f
<1>6. Changed(i, f.data, f.torn, f.journal, f.pre, f.mtime)
  BY <1>2, <1>5, SetChanged
<1>7. QED
  BY <1>4, <1>5, <1>6

\* The mtimes a settled archive can have.
LEMMA SettledTimesType ==
  ASSUME CopyInv, NEW i \in Inodes, NEW m \in SettledTimes(i)
  PROVE  /\ m \in Nat /\ m \in 0..(clock + 1)
         /\ m \in {inode[i].mtime, inode[i].pre.mtime, clock + 1}
         /\ ~inode[i].torn => m = inode[i].mtime
         /\ inode[i].torn => m \in {inode[i].pre.mtime, clock + 1}
<1>1. /\ inode[i].mtime \in 0..clock /\ inode[i].pre.mtime \in 0..clock /\ clock \in Nat
  BY DEF CopyInv, ClockInv
<1>2. QED
  BY <1>1 DEF SettledTimes

\* The new bytes are complete and the journal is left.
LEMMA UnusableChanges ==
  ASSUME CopyInv, NEW o \in Overlays, Unusable(o)
  PROVE  \/ UNCHANGED <<inode, clock>>
         \/ Changed(fd[o], inode[fd[o]].data \cup {commit[o]}, FALSE, "complete",
                    inode[fd[o]].pre, clock + 1)
<1>1. /\ inode[fd[o]] \in File /\ fd[o] \in Inodes
      /\ clock \in Nat /\ clock + 1 \in Nat
  BY DEF CopyInv, Types, DiskTypes, OwnTypes
<1>2. commit[o] \in Commits
  BY DEF Unusable, CopyInv, ClockInv
<1> DEFINE t == Touched(inode[fd[o]], clock + 1)
           d == inode[fd[o]].data \cup {commit[o]}
           f == [t EXCEPT !.torn = FALSE, !.journal = "complete", !.data = d]
<1>3. \/ UNCHANGED <<inode, clock>>
      \/ inode' = [inode EXCEPT ![fd[o]] = f] /\ clock' = clock + 1
  BY DEF Unusable
<1>4. /\ t \in File /\ t.pre = inode[fd[o]].pre
      /\ t.mtime = clock + 1 /\ t.ctime = clock + 1
  BY <1>1, TouchedFile
<1>5. d \in SUBSET Commits
  BY <1>1, <1>2 DEF File
<1> HIDE DEF t, d
<1>6. /\ f \in File /\ f.data = d /\ f.torn = FALSE
      /\ f.journal = "complete" /\ f.pre = inode[fd[o]].pre
      /\ f.mtime = clock + 1 /\ f.ctime = clock + 1
  BY <1>4, <1>5 DEF File
<1> HIDE DEF f
<1>7. QED
  BY <1>1, <1>3, <1>6, SetChanged DEF d

\* The copy takes the archive's name, whose inode gets a new ctime.
LEMMA PublishChanges ==
  ASSUME CopyInv, NEW o \in Overlays, Publish(o)
  PROVE  /\ inode' \in [Inodes -> File] /\ clock' = clock + 1
         /\ \A k \in Inodes : k \notin {name, commit[o]} => inode'[k] = inode[k]
         /\ name # commit[o] => /\ inode'[name].ctime = clock + 1
                                /\ inode'[name].mtime = inode[name].mtime
                                /\ inode'[name].pre = inode[name].pre
         /\ inode'[commit[o]].data = copy[o].data \cup {commit[o]}
         /\ inode'[commit[o]].torn = copy[o].torn
         /\ inode'[commit[o]].journal = "none" /\ inode'[commit[o]].pre = NoPre
         /\ inode'[commit[o]].mtime = clock + 1
         /\ inode'[commit[o]].ctime = clock + 1
<1>1. /\ inode \in [Inodes -> File] /\ inode[name] \in File /\ clock \in Nat
      /\ name \in Inodes /\ commit[o] \in Inodes /\ copy[o].data \in SUBSET Commits
      /\ copy[o].torn \in BOOLEAN
  BY DEF CopyInv, Types, DiskTypes, OwnTypes, CopyRec
<1>2. commit[o] \in Commits
  BY DEF Publish, CopyInv, ClockInv
<1> DEFINE t == Touched(inode[name], inode[name].mtime)
           f == [data |-> copy[o].data \cup {commit[o]}, torn |-> copy[o].torn,
                 journal |-> "none", pre |-> NoPre,
                 mtime |-> clock + 1, ctime |-> clock + 1]
<1>3. inode' = [inode EXCEPT ![name] = t, ![commit[o]] = f] /\ clock' = clock + 1
  BY DEF Publish
<1>4. inode[name].mtime \in Nat
  BY <1>1 DEF File
<1>5. /\ t \in File /\ t.ctime = clock + 1 /\ t.mtime = inode[name].mtime
      /\ t.pre = inode[name].pre
  BY <1>1, <1>4, TouchedFile
<1>6. /\ f \in File /\ f.data = copy[o].data \cup {commit[o]}
      /\ f.torn = copy[o].torn /\ f.journal = "none" /\ f.pre = NoPre
      /\ f.mtime = clock + 1 /\ f.ctime = clock + 1
  BY <1>1, <1>2, NoPreType DEF File
<1> HIDE DEF t, f
<1>7. QED
  BY <1>1, <1>3, <1>5, <1>6
-----------------------------------------------------------------------------
(* Every action keeps the invariant.                                       *)

\* The gate's stamp is the archive's, and its mount reads it.
LEMMA GateInv ==
  ASSUME CopyInv, NEW o \in Overlays, Gate(o)
  PROVE  CopyInv'
<1>1. /\ stamp' \in [Overlays -> StampRec]
      /\ stamp'[o].ino = name /\ stamp'[o].ctime = inode[name].ctime
      /\ stamp'[o].mtime = inode[name].mtime
      /\ \A p \in Overlays : p # o => stamp'[p] = stamp[p]
  <2>1. Length(name) \in Nat /\ inode[name].mtime \in Nat /\ inode[name].ctime \in Nat
    BY LengthType DEF Length, CopyInv, Types, DiskTypes, File
  <2>2. Stamp(name) \in StampRec
    BY <2>1 DEF Stamp, StampRec, CopyInv, Types, DiskTypes
  <2>3. QED
    BY <2>2 DEF Gate, Stamp, CopyInv, Types, OwnTypes
<1>2. /\ pc[o] = "idle" /\ pc' = [pc EXCEPT ![o] = "gated"]
      /\ next \in Commits /\ next \in Inodes /\ next' \in 1..(MaxCommits + 1)
      /\ commit' = [commit EXCEPT ![o] = next]
      /\ ~Pending(name) => base[o].mtime = inode[name].mtime
      /\ UNCHANGED <<inode, name, lock, clock, acked, fd, copy, mount>>
  BY CopyAssumption DEF Gate, GateAccepts, Goto, BaseOf, CopyInv, Types,
    DiskTypes, Commits, Inodes
<1>3. DiskTypes'
  BY <1>2, <1>1 DEF CopyInv, Types, DiskTypes, OwnTypes, mount
<1>4. OwnTypes'
  BY <1>2, <1>1 DEF CopyInv, Types, DiskTypes, OwnTypes, Steps, mount
<1>5. ClockInv'
  BY <1>2, <1>1 DEF CopyInv, Types, DiskTypes, OwnTypes, ClockInv, mount
<1>6. LockInv'
  BY <1>2, <1>1 DEF CopyInv, Types, DiskTypes, OwnTypes, LockInv, Locked,
    mount, Known, Pending
<1>7. StampInv'
  <2>1. ~Pending(name) => inode[name].data = Known(o)
    BY <1>2 DEF CopyInv, BaseInv
  <2>2. \A p \in Overlays : Known(p)' = Known(p) /\ (p # o => pc'[p] = pc[p])
    BY <1>2 DEF Known, mount, CopyInv, Types, OwnTypes
  <2>3. Pending(name)' = Pending(name) /\ name' = name /\ pc'[o] = "gated"
    BY <1>2 DEF Pending, CopyInv, Types, OwnTypes
  <2>4. QED
    BY <1>1, <1>2, <2>1, <2>2, <2>3 DEF CopyInv, StampInv, Stamped, Agrees
<1>8. BaseInv'
  BY <1>2, <1>1 DEF CopyInv, Types, DiskTypes, OwnTypes, BaseInv, mount,
    Known, Pending
<1>9. JournalInv' /\ CopyKeepsCommits'
  BY <1>2, <1>1 DEF CopyInv, Types, DiskTypes, OwnTypes, CopyKeepsCommits,
    mount, JournalInv, Pending
<1>10. QED
  BY <1>3, <1>4, <1>5, <1>6, <1>7, <1>8, <1>9 DEF CopyInv, Types

\* The choice of the way looks at nothing but the path.
LEMMA ChooseInv ==
  ASSUME CopyInv, NEW o \in Overlays, Choose(o)
  PROVE  CopyInv'
<1>1. DiskTypes'
  BY DEF CopyInv, Types, DiskTypes, OwnTypes, Choose, Goto, disk, mount
<1>2. OwnTypes'
  BY DEF CopyInv, Types, DiskTypes, OwnTypes, Steps, Choose, Goto, disk, mount
<1>3. ClockInv'
  BY DEF CopyInv, Types, DiskTypes, OwnTypes, ClockInv, Choose, Goto, disk,
    mount
<1>4. LockInv'
  BY DEF CopyInv, Types, OwnTypes, LockInv, Locked, Choose, Goto, disk,
    mount, Known, Pending
<1>5. StampInv'
  BY DEF CopyInv, Types, OwnTypes, StampInv, Stamped, Agrees, Choose, Goto,
    disk, mount, Known, Pending
<1>6. BaseInv'
  BY DEF CopyInv, Types, DiskTypes, OwnTypes, BaseInv, Choose, Goto, disk,
    mount, Known, Pending
<1>7. JournalInv' /\ CopyKeepsCommits'
  BY DEF CopyInv, CopyKeepsCommits, Choose, disk, JournalInv, Pending
<1>8. QED
  BY <1>1, <1>2, <1>3, <1>4, <1>5, <1>6, <1>7 DEF CopyInv, Types

\* The stamp compared under the lock is still the archive's.
LEMMA LockReplaceInv ==
  ASSUME CopyInv, NEW o \in Overlays, LockReplace(o)
  PROVE  CopyInv'
<1>1. pc[o] = "open" /\ UNCHANGED <<inode, name, clock, next, acked, own,
                                    mount>>
  BY DEF LockReplace
<1>2. \/ /\ pc' = [pc EXCEPT ![o] = "write"] /\ lock' = [lock EXCEPT ![fd[o]] = o]
         /\ lock[fd[o]] = None /\ ~Pending(fd[o]) /\ stamp[o].ino = fd[o]
         /\ stamp[o].ctime = inode[fd[o]].ctime
         /\ stamp[o].mtime = inode[fd[o]].mtime
      \/ pc' = [pc EXCEPT ![o] = "copy"] /\ lock' = lock
  BY DEF LockReplace, Goto, Stamp
<1>3. DiskTypes'
  BY <1>1, <1>2 DEF CopyInv, Types, DiskTypes, OwnTypes, own, mount
<1>4. OwnTypes'
  BY <1>1, <1>2 DEF CopyInv, Types, DiskTypes, OwnTypes, Steps, own, mount
<1>5. ClockInv'
  BY <1>1, <1>2 DEF CopyInv, Types, DiskTypes, OwnTypes, ClockInv, own, mount
<1>6. LockInv'
  BY <1>1, <1>2, CopyAssumption DEF CopyInv, Types, DiskTypes, OwnTypes,
    LockInv, Locked, StampInv, Stamped, Agrees, own, mount, Known, Pending,
    JournalInv
<1>7. StampInv'
  BY <1>1, <1>2 DEF CopyInv, Types, OwnTypes, StampInv, Stamped, Agrees, own,
    mount, Known, Pending
<1>8. BaseInv'
  BY <1>1, <1>2 DEF CopyInv, Types, DiskTypes, OwnTypes, BaseInv, own, mount,
    Known, Pending
<1>9. JournalInv' /\ CopyKeepsCommits'
  BY <1>1, <1>2 DEF CopyInv, Types, DiskTypes, OwnTypes, CopyKeepsCommits,
    own, mount, JournalInv, Pending
<1>10. QED
  BY <1>3, <1>4, <1>5, <1>6, <1>7, <1>8, <1>9 DEF CopyInv, Types

\* A torn archive has its journal, which is started on the archive as it was.
LEMMA TearInv ==
  ASSUME CopyInv, NEW o \in Overlays, Tear(o)
  PROVE  CopyInv'
<1>1. /\ Changed(fd[o], inode[fd[o]].data, TRUE, "active", Now(fd[o]), clock + 1)
      /\ pc[o] = "write" /\ pc' = [pc EXCEPT ![o] = "torn"]
      /\ UNCHANGED <<name, lock, next, acked, own, mount>>
  BY TearChanges DEF Tear, Goto
<1>2. DiskTypes'
  BY <1>1 DEF CopyInv, Types, DiskTypes, OwnTypes, Changed, own, mount
<1>3. OwnTypes'
  BY <1>1 DEF CopyInv, Types, DiskTypes, OwnTypes, Steps, Changed, own, mount
<1>4. ClockInv'
  <2>1. /\ Now(fd[o]).mtime \in 0..clock /\ inode'[fd[o]].pre = Now(fd[o])
        /\ fd[o] \in Inodes
    BY <1>1 DEF Now, Changed, CopyInv, Types, OwnTypes, ClockInv
  <2>2. \A k \in Inodes : inode'[k].pre.mtime \in 0..clock'
    BY <1>1, <2>1, Later DEF Changed, CopyInv, ClockInv
  <2>3. QED
    BY <1>1, <2>2, Later DEF CopyInv, Types, OwnTypes, ClockInv, Changed, own, mount
<1>5. LockInv'
  BY <1>1 DEF CopyInv, Types, OwnTypes, LockInv, Locked, Changed, own, mount,
    Known, Pending
<1>6. StampInv'
  BY <1>1, Later DEF CopyInv, Types, OwnTypes, StampRec, StampInv, Stamped,
    Agrees, Changed, own, mount, Known, Pending
<1>7. BaseInv'
  BY <1>1, Later DEF CopyInv, BaseInv, LockInv, Locked, Changed, own, mount,
    Known, Pending, Now
<1>8. JournalInv' /\ CopyKeepsCommits'
  BY <1>1 DEF CopyInv, CopyKeepsCommits, LockInv, Locked, Changed, Known,
    Pending, JournalInv, Now
<1>9. QED
  BY <1>2, <1>3, <1>4, <1>5, <1>6, <1>7, <1>8 DEF CopyInv, Types

\* The commit is in the archive when it is reported.
LEMMA ReplacedInv ==
  ASSUME CopyInv, NEW o \in Overlays, Replaced(o)
  PROVE  CopyInv'
<1>1. /\ base' \in [Overlays -> BaseRec] /\ base'[o].mtime = clock + 1
      /\ \A p \in Overlays : p # o => base'[p] = base[p]
  <2>1. inode'[fd[o]] \in File /\ inode'[fd[o]].mtime = clock + 1
    BY ReplacedChanges DEF Changed, CopyInv, Types, OwnTypes
  <2>2. inode'[fd[o]].data \in SUBSET Commits /\ clock + 1 \in Nat
    BY <2>1 DEF File, CopyInv, Types, DiskTypes
  <2>3. 2 * Cardinality(inode'[fd[o]].data) \in Nat
    BY <2>2, LengthType
  <2>4. QED
    BY <2>1, <2>2, <2>3 DEF Replaced, CopyInv, Types, OwnTypes, BaseRec
<1>2. /\ Changed(fd[o], inode[fd[o]].data \cup {commit[o]}, FALSE, "none", NoPre,
                  clock + 1)
      /\ pc[o] = "torn" /\ pc' = [pc EXCEPT ![o] = "refresh"] /\ Freed(o)
      /\ acked' = acked \cup {commit[o]} /\ acked' \in SUBSET Commits
      /\ UNCHANGED <<name, next, own, served, adopted, remounts>>
  BY ReplacedChanges, UnlockFrees DEF Replaced, Goto, CopyInv, Types,
    DiskTypes, ClockInv
<1>3. DiskTypes'
  BY <1>2 DEF CopyInv, Types, DiskTypes, OwnTypes, Changed, Freed, own
<1>4. OwnTypes'
  BY <1>2, <1>1 DEF CopyInv, Types, DiskTypes, OwnTypes, Steps, Changed,
    Freed, own
<1>5. ClockInv'
  BY <1>2, Later, <1>1 DEF CopyInv, ClockInv, Changed, own, NoPre
<1>6. LockInv'
  BY <1>2, CopyAssumption DEF CopyInv, Types, OwnTypes, LockInv, Locked,
    Freed, Known, Pending
<1>7. StampInv'
  BY <1>2, Later DEF CopyInv, Types, OwnTypes, StampRec, StampInv, Stamped,
    Agrees, Changed, own, Known, Pending
<1>8. BaseInv'
  BY <1>2, Later, <1>1 DEF CopyInv, Types, OwnTypes, BaseInv, LockInv,
    Locked, Changed, Known, Pending
<1>9. JournalInv' /\ CopyKeepsCommits'
  BY <1>2 DEF CopyInv, CopyKeepsCommits, LockInv, Locked, Changed, Known,
    Pending, JournalInv
<1>10. QED
  BY <1>3, <1>4, <1>5, <1>6, <1>7, <1>8, <1>9 DEF CopyInv, Types

\* A rollback gives back the bytes; its stamp is taken under the lock.
LEMMA RolledBackInv ==
  ASSUME CopyInv, NEW o \in Overlays, RolledBack(o)
  PROVE  CopyInv'
<1>1. PICK m \in SettledTimes(fd[o]) :
        /\ Changed(fd[o], inode[fd[o]].data, FALSE, "none", NoPre, m)
        /\ m \in Nat /\ m \in 0..(clock + 1)
        /\ inode[fd[o]].torn => m \in {inode[fd[o]].pre.mtime, clock + 1}
  <2>1. PICK m \in SettledTimes(fd[o]) :
          inode' = [inode EXCEPT ![fd[o]] = Settled(fd[o], m, FALSE)]
    BY DEF RolledBack
  <2>2. fd[o] \in Inodes /\ clock' = clock + 1
    BY DEF RolledBack, CopyInv, Types, OwnTypes
  <2>3. /\ m \in Nat /\ m \in 0..(clock + 1)
        /\ inode[fd[o]].torn => m \in {inode[fd[o]].pre.mtime, clock + 1}
    BY <2>2, SettledTimesType
  <2>4. QED
    BY <2>1, <2>2, <2>3, SettledChanges
<1>2. /\ base' \in [Overlays -> BaseRec] /\ base'[o].mtime = m
      /\ \A p \in Overlays : p # o => base'[p] = base[p]
  <2>1. inode'[fd[o]].mtime = m /\ base[o] \in BaseRec
    BY <1>1 DEF Changed, CopyInv, Types, OwnTypes
  <2>2. base' = [base EXCEPT ![o].mtime = m]
    BY <2>1 DEF RolledBack
  <2>3. [base[o] EXCEPT !.mtime = m] \in BaseRec /\ [base[o] EXCEPT !.mtime = m].mtime = m
    BY <1>1, <2>1 DEF BaseRec
  <2>4. QED
    BY <2>2, <2>3 DEF CopyInv, Types, OwnTypes
<1>3. \/ /\ pc' = [pc EXCEPT ![o] = "copy"]
         /\ stamp' \in [Overlays -> StampRec]
         /\ \A p \in Overlays : p # o => stamp'[p] = stamp[p]
         /\ stamp'[o].ino = fd[o] /\ stamp'[o].ctime = clock + 1 /\ stamp'[o].mtime = m
      \/ pc' = [pc EXCEPT ![o] = "idle"] /\ stamp' = stamp
  <2>1. inode'[fd[o]] \in File /\ fd[o] \in Inodes
    BY <1>1 DEF Changed, CopyInv, Types, OwnTypes
  <2>2. 2 * Cardinality(inode'[fd[o]].data) \in Nat
    BY <2>1, LengthType DEF File
  <2>3. CopyReference(o, fd[o]) \in StampRec
    BY <2>1, <2>2 DEF CopyReference, StampRec, File
  <2>4. /\ CopyReference(o, fd[o]).ino = fd[o]
        /\ CopyReference(o, fd[o]).ctime = clock + 1
        /\ CopyReference(o, fd[o]).mtime = m
    BY <1>1 DEF CopyReference, Changed
  <2>5. QED
    BY <2>3, <2>4 DEF RolledBack, Goto, CopyInv, Types, OwnTypes
<1>4. /\ pc[o] = "torn" /\ Freed(o)
      /\ UNCHANGED <<name, next, acked, commit, fd, copy, served, adopted,
                     remounts>>
  BY UnlockFrees DEF RolledBack
<1>5. DiskTypes'
  BY <1>4, <1>1, <1>2, <1>3 DEF CopyInv, Types, DiskTypes, OwnTypes, Changed,
    Freed
<1>6. OwnTypes'
  BY <1>4, <1>1, <1>2, <1>3 DEF CopyInv, Types, DiskTypes, OwnTypes, Steps,
    Changed, Freed
<1>7. ClockInv'
  <2>1. m \in 0..(clock + 1) /\ clock' = clock + 1 /\ clock + 1 \in Nat
    BY <1>1, Later DEF Changed, CopyInv, ClockInv
  <2>2. \A i \in Inodes : /\ inode'[i].mtime \in 0..clock' /\ inode'[i].ctime \in 0..clock'
                           /\ inode'[i].pre.mtime \in 0..clock'
    BY <1>1, <2>1, Later DEF Changed, CopyInv, ClockInv, NoPre
  <2>3. \A p \in Overlays : /\ stamp'[p].ctime \in 0..clock' /\ stamp'[p].mtime \in 0..clock'
                            /\ base'[p].mtime \in 0..clock'
    BY <1>2, <1>3, <2>1, Later DEF CopyInv, ClockInv
  <2>4. QED
    BY <1>4, <1>3, <2>1, <2>2, <2>3 DEF CopyInv, Types, OwnTypes, ClockInv
<1>8. LockInv'
  BY <1>4, <1>3, CopyAssumption DEF CopyInv, Types, OwnTypes, LockInv,
    Locked, Freed, Known, Pending
<1>9. StampInv'
  BY <1>4, Later, <1>1, <1>3 DEF CopyInv, Types, OwnTypes, StampRec,
    StampInv, Stamped, Agrees, LockInv, Locked, Changed, Known, Pending
<1>10. BaseInv'
  BY <1>4, Later, <1>1, <1>2, <1>3 DEF CopyInv, Types, DiskTypes, OwnTypes,
    BaseInv, LockInv, Locked, Changed, Known, Pending, JournalInv
<1>11. JournalInv' /\ CopyKeepsCommits'
  BY <1>4, <1>1 DEF CopyInv, CopyKeepsCommits, LockInv, Locked, Changed,
    Known, Pending, JournalInv
<1>12. QED
  BY <1>5, <1>6, <1>7, <1>8, <1>9, <1>10, <1>11 DEF CopyInv, Types

\* An attempt that stops leaves its journal.
LEMMA UnusableInv ==
  ASSUME CopyInv, NEW o \in Overlays, Unusable(o)
  PROVE  CopyInv'
<1>1. /\ pc[o] = "torn" /\ pc' = [pc EXCEPT ![o] = "stopped"] /\ Freed(o)
      /\ \/ UNCHANGED <<inode, clock>>
         \/ Changed(fd[o], inode[fd[o]].data \cup {commit[o]}, FALSE, "complete",
                    inode[fd[o]].pre, clock + 1)
      /\ UNCHANGED <<name, next, acked, own, mount>>
  BY UnusableChanges, UnlockFrees DEF Unusable, Goto
<1>2. DiskTypes'
  BY <1>1 DEF CopyInv, Types, DiskTypes, OwnTypes, Changed, Freed, own, mount
<1>3. OwnTypes'
  BY <1>1 DEF CopyInv, Types, DiskTypes, OwnTypes, Steps, Changed, Freed,
    own, mount
<1>4. ClockInv'
  BY <1>1 DEF CopyInv, ClockInv, Changed, own, mount
<1>5. LockInv'
  BY <1>1, CopyAssumption DEF CopyInv, Types, OwnTypes, LockInv, Locked,
    Freed, Known, Pending
<1>6. StampInv'
  BY <1>1, Later DEF CopyInv, Types, OwnTypes, StampRec, StampInv, Stamped,
    Agrees, LockInv, Changed, own, Known, Pending, mount
<1>7. BaseInv'
  BY <1>1, Later DEF CopyInv, Types, OwnTypes, BaseInv, LockInv, Locked,
    Changed, mount, Known, Pending, JournalInv
<1>8. JournalInv' /\ CopyKeepsCommits'
  BY <1>1 DEF CopyInv, CopyKeepsCommits, LockInv, Locked, Changed, Known,
    Pending, JournalInv
<1>9. QED
  BY <1>2, <1>3, <1>4, <1>5, <1>6, <1>7, <1>8 DEF CopyInv, Types

\* The copy's source is the archive the stamp stands for.
LEMMA OpenCopySourceInv ==
  ASSUME CopyInv, NEW o \in Overlays, OpenCopySource(o)
  PROVE  CopyInv'
<1>1. Stamp(name) = stamp[o] => stamp[o].ino = name
  BY DEF Stamp
<1>2. /\ \/ pc' = [pc EXCEPT ![o] = "read"] /\ stamp[o].ino = name
         \/ pc' = [pc EXCEPT ![o] = "idle"]
      /\ pc[o] = "copy" /\ fd' = [fd EXCEPT ![o] = name]
      /\ UNCHANGED <<disk, acked, commit, stamp, copy, mount>>
  BY <1>1 DEF OpenCopySource, Goto
<1>3. DiskTypes'
  BY <1>2 DEF CopyInv, Types, DiskTypes, OwnTypes, disk, mount
<1>4. OwnTypes'
  BY <1>2 DEF CopyInv, Types, DiskTypes, OwnTypes, Steps, disk, mount
<1>5. ClockInv'
  BY <1>2 DEF CopyInv, Types, DiskTypes, OwnTypes, ClockInv, disk, mount
<1>6. LockInv'
  BY <1>2 DEF CopyInv, Types, DiskTypes, OwnTypes, LockInv, Locked, disk,
    mount, Known, Pending
<1>7. StampInv'
  BY <1>2 DEF CopyInv, Types, OwnTypes, StampInv, Stamped, Agrees, disk,
    mount, Known, Pending
<1>8. BaseInv'
  BY <1>2 DEF CopyInv, Types, DiskTypes, OwnTypes, BaseInv, disk, mount,
    Known, Pending
<1>9. JournalInv' /\ CopyKeepsCommits'
  BY <1>2 DEF CopyInv, Types, DiskTypes, OwnTypes, CopyKeepsCommits, disk,
    mount, JournalInv, Pending
<1>10. QED
  BY <1>3, <1>4, <1>5, <1>6, <1>7, <1>8, <1>9 DEF CopyInv, Types

\* A copy read while the stamp agrees is of the archive.
LEMMA ReadCopyInv ==
  ASSUME CopyInv, NEW o \in Overlays, ReadCopy(o)
  PROVE  CopyInv'
<1>1. /\ pc[o] = "read" /\ pc' = [pc EXCEPT ![o] = "guard"]
      /\ copy' \in [Overlays -> CopyRec]
      /\ copy'[o].data = inode[fd[o]].data /\ copy'[o].torn = inode[fd[o]].torn
      /\ \A p \in Overlays : p # o => copy'[p] = copy[p]
      /\ UNCHANGED <<disk, acked, commit, stamp, fd, mount>>
  BY DEF ReadCopy, Goto, CopyInv, Types, DiskTypes, OwnTypes, File, CopyRec
<1>2. DiskTypes'
  BY <1>1 DEF CopyInv, Types, DiskTypes, OwnTypes, disk, mount
<1>3. OwnTypes'
  BY <1>1 DEF CopyInv, Types, DiskTypes, OwnTypes, Steps, disk, mount
<1>4. ClockInv'
  BY <1>1 DEF CopyInv, Types, DiskTypes, OwnTypes, ClockInv, disk, mount
<1>5. LockInv'
  BY <1>1 DEF CopyInv, Types, DiskTypes, OwnTypes, LockInv, Locked, disk,
    mount, Known, Pending
<1>6. StampInv'
  BY <1>1 DEF CopyInv, StampInv, Stamped, Agrees, disk, mount, Known,
    Pending, JournalInv
<1>7. BaseInv'
  BY <1>1 DEF CopyInv, Types, DiskTypes, OwnTypes, BaseInv, disk, mount,
    Known, Pending
<1>8. JournalInv' /\ CopyKeepsCommits'
  BY <1>1 DEF CopyInv, Types, DiskTypes, OwnTypes, CopyKeepsCommits, disk,
    mount, JournalInv, Pending
<1>9. QED
  BY <1>2, <1>3, <1>4, <1>5, <1>6, <1>7, <1>8 DEF CopyInv, Types

\* guard_copy opens the archive again.
LEMMA OpenGuardInv ==
  ASSUME CopyInv, NEW o \in Overlays, OpenGuard(o)
  PROVE  CopyInv'
<1>1. DiskTypes'
  BY DEF CopyInv, Types, DiskTypes, OwnTypes, OpenGuard, Goto, disk, mount
<1>2. OwnTypes'
  BY DEF CopyInv, Types, DiskTypes, OwnTypes, Steps, OpenGuard, Goto, disk,
    mount
<1>3. ClockInv'
  BY DEF CopyInv, Types, DiskTypes, OwnTypes, ClockInv, OpenGuard, Goto,
    disk, mount
<1>4. LockInv'
  BY DEF CopyInv, LockInv, Locked, OpenGuard, Goto, disk, mount, Known,
    Pending
<1>5. StampInv'
  BY DEF CopyInv, StampInv, Stamped, Agrees, OpenGuard, Goto, disk, mount,
    Known, Pending
<1>6. BaseInv'
  BY DEF CopyInv, Types, DiskTypes, OwnTypes, BaseInv, OpenGuard, Goto, disk,
    mount, Known, Pending
<1>7. JournalInv' /\ CopyKeepsCommits'
  BY DEF CopyInv, CopyKeepsCommits, OpenGuard, disk, JournalInv, Pending
<1>8. QED
  BY <1>1, <1>2, <1>3, <1>4, <1>5, <1>6, <1>7 DEF CopyInv, Types

\* The stamp compared under the guard's lock covers the reading.
LEMMA GuardCopyInv ==
  ASSUME CopyInv, NEW o \in Overlays, GuardCopy(o)
  PROVE  CopyInv'
<1>1. /\ \/ /\ pc' = [pc EXCEPT ![o] = "publish"]
            /\ lock' = [lock EXCEPT ![fd[o]] = o] /\ lock[fd[o]] = None
            /\ ~Pending(fd[o])
            /\ stamp[o].ino = fd[o] /\ stamp[o].ctime = inode[fd[o]].ctime
         \/ pc' = [pc EXCEPT ![o] = "idle"] /\ lock' = lock
      /\ pc[o] = "lock" /\ UNCHANGED <<inode, name, clock, next, acked, own,
                                       mount>>
  BY DEF GuardCopy, Goto, Stamp
<1>2. DiskTypes'
  BY <1>1 DEF CopyInv, Types, DiskTypes, OwnTypes, own, mount
<1>3. OwnTypes'
  BY <1>1 DEF CopyInv, Types, DiskTypes, OwnTypes, Steps, own, mount
<1>4. ClockInv'
  BY <1>1 DEF CopyInv, Types, DiskTypes, OwnTypes, ClockInv, own, mount
<1>5. LockInv'
  BY <1>1, CopyAssumption DEF CopyInv, Types, DiskTypes, OwnTypes, LockInv,
    Locked, StampInv, Stamped, Agrees, own, mount, Known, Pending
<1>6. StampInv'
  BY <1>1 DEF CopyInv, Types, OwnTypes, StampInv, Stamped, Agrees, own,
    mount, Known, Pending
<1>7. BaseInv'
  BY <1>1 DEF CopyInv, Types, DiskTypes, OwnTypes, BaseInv, own, mount,
    Known, Pending
<1>8. JournalInv' /\ CopyKeepsCommits'
  BY <1>1 DEF CopyInv, Types, DiskTypes, OwnTypes, CopyKeepsCommits, own,
    mount, JournalInv, Pending
<1>9. QED
  BY <1>2, <1>3, <1>4, <1>5, <1>6, <1>7, <1>8 DEF CopyInv, Types

\* The published copy has every reported commit.
LEMMA PublishInv ==
  ASSUME CopyInv, NEW o \in Overlays, Publish(o)
  PROVE  CopyInv'
<1>1. /\ inode' \in [Inodes -> File] /\ clock' = clock + 1
      /\ \A k \in Inodes : k \notin {name, commit[o]} => inode'[k] = inode[k]
      /\ name # commit[o] => /\ inode'[name].ctime = clock + 1
                             /\ inode'[name].mtime = inode[name].mtime
                             /\ inode'[name].pre = inode[name].pre
      /\ inode'[commit[o]].data = copy[o].data \cup {commit[o]}
      /\ inode'[commit[o]].torn = copy[o].torn
      /\ inode'[commit[o]].journal = "none" /\ inode'[commit[o]].pre = NoPre
      /\ inode'[commit[o]].mtime = clock + 1
      /\ inode'[commit[o]].ctime = clock + 1
  BY PublishChanges
<1>2. /\ pc[o] = "publish" /\ pc' = [pc EXCEPT ![o] = "refresh"] /\ Freed(o)
      /\ name' = commit[o] /\ commit[o] \in Commits /\ commit[o] \in Inodes
      /\ acked' = acked \cup {commit[o]} /\ acked' \in SUBSET Commits
      /\ UNCHANGED <<next, own, mount>>
  BY UnlockFrees DEF Publish, Goto, CopyInv, Types, DiskTypes, OwnTypes,
    ClockInv
<1>3. DiskTypes'
  BY <1>2, <1>1 DEF CopyInv, Types, DiskTypes, OwnTypes, Freed, own, mount
<1>4. OwnTypes'
  BY <1>2, <1>1 DEF CopyInv, Types, DiskTypes, OwnTypes, Steps, Freed, own,
    mount
<1>5. ClockInv'
  <2>1. ASSUME NEW k \in Inodes
        PROVE  /\ inode'[k].mtime \in 0..clock' /\ inode'[k].ctime \in 0..clock'
               /\ inode'[k].pre.mtime \in 0..clock'
    <3>1. CASE k = commit[o]
      BY <1>1, <3>1, Later DEF CopyInv, NoPre
    <3>2. CASE k = name /\ k # commit[o]
      BY <1>1, <3>2, Later DEF CopyInv, ClockInv
    <3>3. CASE k \notin {name, commit[o]}
      BY <1>1, <3>3, Later DEF CopyInv, ClockInv
    <3>4. QED
      BY <3>1, <3>2, <3>3
  <2>2. QED
    BY <1>1, <1>2, <2>1, Later DEF CopyInv, Types, OwnTypes, ClockInv, own,
      mount
<1>6. LockInv'
  BY <1>2, CopyAssumption DEF CopyInv, Types, OwnTypes, LockInv, Locked,
    Freed, Known, Pending
<1>7. StampInv'
  BY <1>2, <1>1, Later DEF CopyInv, Types, OwnTypes, StampRec, StampInv,
    Stamped, Agrees, own, Known, Pending
<1>8. BaseInv'
  BY <1>2, <1>1, Later DEF CopyInv, BaseInv, LockInv, Locked, mount, Known,
    Pending
<1>9. JournalInv' /\ CopyKeepsCommits'
  BY <1>2, <1>1 DEF CopyInv, CopyKeepsCommits, LockInv, Locked, Known,
    Pending, JournalInv
<1>10. QED
  BY <1>3, <1>4, <1>5, <1>6, <1>7, <1>8, <1>9 DEF CopyInv, Types

\* A failed publication leaves the archive.
LEMMA PublishFailsInv ==
  ASSUME CopyInv, NEW o \in Overlays, PublishFails(o)
  PROVE  CopyInv'
<1>1. /\ pc[o] = "publish" /\ pc' = [pc EXCEPT ![o] = "idle"] /\ Freed(o)
      /\ UNCHANGED <<inode, name, clock, next, acked, own, mount>>
  BY UnlockFrees DEF PublishFails, Goto
<1>2. DiskTypes'
  BY <1>1 DEF CopyInv, Types, DiskTypes, OwnTypes, Freed, own, mount
<1>3. OwnTypes'
  BY <1>1 DEF CopyInv, Types, DiskTypes, OwnTypes, Steps, Freed, own, mount
<1>4. ClockInv'
  BY <1>1 DEF CopyInv, Types, DiskTypes, OwnTypes, ClockInv, Freed, own, mount
<1>5. LockInv'
  BY <1>1, CopyAssumption DEF CopyInv, Types, OwnTypes, LockInv, Locked,
    Freed, Known, Pending
<1>6. StampInv'
  BY <1>1 DEF CopyInv, StampInv, Stamped, Agrees, own, mount, Known, Pending
<1>7. BaseInv'
  BY <1>1 DEF CopyInv, Types, DiskTypes, OwnTypes, BaseInv, Freed, own,
    mount, Known, Pending
<1>8. JournalInv' /\ CopyKeepsCommits'
  BY <1>1 DEF CopyInv, Types, DiskTypes, OwnTypes, CopyKeepsCommits, Freed,
    own, mount, JournalInv, Pending
<1>9. QED
  BY <1>2, <1>3, <1>4, <1>5, <1>6, <1>7, <1>8 DEF CopyInv, Types

\* refresh_committed_base records a base that the reopen judges.
LEMMA RefreshInv ==
  ASSUME CopyInv, NEW o \in Overlays, Refresh(o)
  PROVE  CopyInv'
<1>1. /\ base' \in [Overlays -> BaseRec]
      /\ \A p \in Overlays : base'[p].mtime \in 0..clock
      /\ \A p \in Overlays : p # o => base'[p] = base[p]
  <2>1. Length(name) \in Nat /\ inode[name].mtime \in Nat
    BY LengthType DEF Length, CopyInv, Types, DiskTypes, File
  <2>2. BaseOf(name) \in BaseRec /\ BaseOf(name).mtime = inode[name].mtime
    BY <2>1 DEF BaseOf, BaseRec, CopyInv, Types, DiskTypes
  <2>3. QED
    BY <2>2 DEF Refresh, CopyInv, Types, DiskTypes, OwnTypes, ClockInv
<1>2. /\ pc[o] = "refresh" /\ pc'[o] \in {"stopped", "reopen"}
      /\ pc' \in [Overlays -> Steps] /\ \A p \in Overlays : p # o => pc'[p] = pc[p]
      /\ UNCHANGED <<disk, acked, own, served, adopted, remounts>>
  BY DEF Refresh, Goto, CopyInv, Types, OwnTypes, Steps
<1>3. DiskTypes'
  BY <1>2 DEF CopyInv, Types, DiskTypes, OwnTypes, disk, own
<1>4. OwnTypes'
  BY <1>2, <1>1 DEF CopyInv, Types, DiskTypes, OwnTypes, Steps, disk, own
<1>5. ClockInv'
  BY <1>2, <1>1 DEF CopyInv, Types, DiskTypes, OwnTypes, ClockInv, disk, own
<1>6. LockInv'
  BY <1>2 DEF CopyInv, Types, DiskTypes, OwnTypes, LockInv, Locked, disk,
    own, Known, Pending
<1>7. StampInv'
  BY <1>2 DEF CopyInv, StampInv, Stamped, Agrees, disk, own, Known, Pending
<1>8. BaseInv'
  BY <1>2, <1>1 DEF CopyInv, Types, DiskTypes, OwnTypes, BaseInv, disk, own,
    Known, Pending
<1>9. JournalInv' /\ CopyKeepsCommits'
  BY <1>2 DEF CopyInv, Types, DiskTypes, OwnTypes, CopyKeepsCommits, disk,
    own, JournalInv, Pending
<1>10. QED
  BY <1>3, <1>4, <1>5, <1>6, <1>7, <1>8, <1>9 DEF CopyInv, Types

\* The mount reads the archive that is there.
LEMMA ReopenInv ==
  ASSUME CopyInv, NEW o \in Overlays, Reopen(o)
  PROVE  CopyInv'
<1>1. /\ pc[o] = "reopen"
      /\ \/ /\ pc' = [pc EXCEPT ![o] = "stopped"] /\ served' = served
            /\ adopted' = adopted
         \/ /\ ~inode[name].torn /\ pc' = [pc EXCEPT ![o] = "idle"]
            /\ served' = [served EXCEPT ![o] = inode[name].data]
            /\ adopted' = [adopted EXCEPT ![o] = {}]
            /\ inode[name].data \in SUBSET Commits
      /\ UNCHANGED <<disk, acked, own, base, remounts>>
  BY DEF Reopen, Goto, CopyInv, Types, DiskTypes, File
<1>2. DiskTypes'
  BY <1>1 DEF CopyInv, Types, DiskTypes, OwnTypes, disk, own
<1>3. OwnTypes'
  BY <1>1 DEF CopyInv, Types, DiskTypes, OwnTypes, Steps, disk, own
<1>4. ClockInv'
  BY <1>1 DEF CopyInv, Types, DiskTypes, OwnTypes, ClockInv, disk, own
<1>5. LockInv'
  BY <1>1 DEF CopyInv, Types, DiskTypes, OwnTypes, LockInv, Locked, disk,
    own, Known, Pending
<1>6. StampInv'
  BY <1>1 DEF CopyInv, Types, OwnTypes, StampInv, Stamped, Agrees, disk, own,
    Known, Pending
<1>7. BaseInv'
  BY <1>1 DEF CopyInv, Types, DiskTypes, OwnTypes, BaseInv, LockInv, disk,
    own, Known, Pending, JournalInv
<1>8. JournalInv' /\ CopyKeepsCommits'
  BY <1>1 DEF CopyInv, Types, DiskTypes, OwnTypes, CopyKeepsCommits, disk,
    own, JournalInv, Pending
<1>9. QED
  BY <1>2, <1>3, <1>4, <1>5, <1>6, <1>7, <1>8 DEF CopyInv, Types

\* A killed process leaves its locks.
LEMMA KillInv ==
  ASSUME CopyInv, NEW o \in Overlays, Kill(o)
  PROVE  CopyInv'
<1>1. /\ pc' = [pc EXCEPT ![o] = "stopped"] /\ Freed(o)
      /\ UNCHANGED <<inode, name, clock, next, acked, own, mount>>
  BY UnlockFrees DEF Kill, Goto
<1>2. DiskTypes'
  BY <1>1 DEF CopyInv, Types, DiskTypes, OwnTypes, Freed, own, mount
<1>3. OwnTypes'
  BY <1>1 DEF CopyInv, Types, DiskTypes, OwnTypes, Steps, Freed, own, mount
<1>4. ClockInv'
  BY <1>1 DEF CopyInv, Types, DiskTypes, OwnTypes, ClockInv, Freed, own, mount
<1>5. LockInv'
  BY <1>1, CopyAssumption DEF CopyInv, Types, DiskTypes, OwnTypes, LockInv,
    Locked, Freed, own, mount, Known, Pending
<1>6. StampInv'
  BY <1>1 DEF CopyInv, StampInv, Stamped, Agrees, own, mount, Known, Pending
<1>7. BaseInv'
  BY <1>1 DEF CopyInv, Types, DiskTypes, OwnTypes, BaseInv, Freed, own,
    mount, Known, Pending
<1>8. JournalInv' /\ CopyKeepsCommits'
  BY <1>1 DEF CopyInv, Types, DiskTypes, OwnTypes, CopyKeepsCommits, Freed,
    own, mount, JournalInv, Pending
<1>9. QED
  BY <1>2, <1>3, <1>4, <1>5, <1>6, <1>7, <1>8 DEF CopyInv, Types

\* A remount reads the archive it records.
LEMMA RemountInv ==
  ASSUME CopyInv, NEW o \in Overlays, Remount(o)
  PROVE  CopyInv'
<1>1. /\ base' \in [Overlays -> BaseRec]
      /\ \A p \in Overlays : base'[p].mtime \in 0..clock
      /\ \A p \in Overlays : p # o => base'[p] = base[p]
  <2>1. Length(name) \in Nat /\ inode[name].mtime \in Nat
    BY LengthType DEF Length, CopyInv, Types, DiskTypes, File
  <2>2. BaseOf(name) \in BaseRec /\ BaseOf(name).mtime = inode[name].mtime
    BY <2>1 DEF BaseOf, BaseRec, CopyInv, Types, DiskTypes
  <2>3. QED
    BY <2>2 DEF Remount, CopyInv, Types, DiskTypes, OwnTypes, ClockInv
<1>2. /\ pc[o] \in {"idle", "stopped"} /\ pc' = [pc EXCEPT ![o] = "idle"]
      /\ ~Pending(name) /\ remounts' \in 0..MaxRemounts
      /\ served' = [served EXCEPT ![o] = inode[name].data]
      /\ adopted' = [adopted EXCEPT ![o] = {}]
      /\ inode[name].data \in SUBSET Commits
      /\ UNCHANGED <<disk, acked, own>>
  BY CopyAssumption DEF Remount, Goto, CopyInv, Types, DiskTypes, OwnTypes,
    File
<1>3. DiskTypes'
  BY <1>2 DEF CopyInv, Types, DiskTypes, OwnTypes, disk, own
<1>4. OwnTypes'
  BY <1>2, <1>1 DEF CopyInv, Types, DiskTypes, OwnTypes, Steps, disk, own
<1>5. ClockInv'
  BY <1>2, <1>1 DEF CopyInv, Types, DiskTypes, OwnTypes, ClockInv, disk, own
<1>6. LockInv'
  BY <1>2 DEF CopyInv, Types, DiskTypes, OwnTypes, LockInv, Locked, disk,
    own, Known, Pending
<1>7. StampInv'
  BY <1>2 DEF CopyInv, StampInv, Stamped, Agrees, disk, own, Known, Pending
<1>8. BaseInv'
  BY <1>2, <1>1 DEF CopyInv, Types, OwnTypes, BaseInv, disk, own, Known,
    Pending
<1>9. JournalInv' /\ CopyKeepsCommits'
  BY <1>2 DEF CopyInv, Types, DiskTypes, OwnTypes, CopyKeepsCommits, disk,
    own, JournalInv, Pending
<1>10. QED
  BY <1>3, <1>4, <1>5, <1>6, <1>7, <1>8, <1>9 DEF CopyInv, Types

\* What a recovery does to the archive.
RecoverySettles(m, kept) ==
  /\ kept \in BOOLEAN /\ m \in Nat /\ m \in 0..(clock + 1)
  /\ Changed(name, inode[name].data, FALSE, IF kept THEN inode[name].journal ELSE "none",
             IF kept THEN inode[name].pre ELSE NoPre, m)
  /\ ~inode[name].torn => m = inode[name].mtime
  /\ inode[name].torn => m \in {inode[name].pre.mtime, clock + 1}

\* Either recovery.
LEMMA RecoverySettlesArchive ==
  ASSUME CopyInv, NEW m \in SettledTimes(name), NEW kept \in BOOLEAN,
         inode' = [inode EXCEPT ![name] = Settled(name, m, kept)], clock' = clock + 1
  PROVE  RecoverySettles(m, kept)
<1>1. name \in Inodes
  BY DEF CopyInv, Types, DiskTypes
<1>2. QED
  BY <1>1, SettledTimesType, SettledChanges DEF RecoverySettles

\* A recovery keeps the clock and the journal's part of the invariant.
LEMMA RecoveryTimes ==
  ASSUME CopyInv, NEW m, NEW kept, RecoverySettles(m, kept), UNCHANGED <<name, acked>>
  PROVE  /\ \A i \in Inodes : /\ inode'[i].mtime \in 0..clock' /\ inode'[i].ctime \in 0..clock'
                             /\ inode'[i].pre.mtime \in 0..clock'
         /\ JournalInv' /\ CopyKeepsCommits'
<1>1. name \in Inodes
  BY DEF CopyInv, Types, DiskTypes
<1>2. \A i \in Inodes : /\ inode'[i].mtime \in 0..clock' /\ inode'[i].ctime \in 0..clock'
                       /\ inode'[i].pre.mtime \in 0..clock'
  BY <1>1, Later DEF RecoverySettles, Changed, CopyInv, ClockInv, NoPre
<1>3. JournalInv' /\ CopyKeepsCommits'
  BY <1>1 DEF RecoverySettles, Changed, CopyInv, JournalInv,
    CopyKeepsCommits, Pending
<1>4. QED
  BY <1>2, <1>3

\* A recovery restores what the archive held.
LEMMA RecoverInv ==
  ASSUME CopyInv, Recover
  PROVE  CopyInv'
<1>1. PICK m, kept : RecoverySettles(m, kept)
  BY RecoverySettlesArchive DEF Recover, CopyInv, Types, DiskTypes, File
<1>2. /\ lock[name] = None
      /\ UNCHANGED <<name, lock, next, acked, pc, own, mount>>
  BY DEF Recover
<1>3. DiskTypes'
  BY <1>2, <1>1 DEF CopyInv, Types, DiskTypes, RecoverySettles, Changed
<1>4. OwnTypes'
  BY <1>2 DEF CopyInv, Types, OwnTypes, own, mount
<1>5. ClockInv'
  BY <1>2, <1>1, Later, RecoveryTimes DEF CopyInv, ClockInv, RecoverySettles,
    Changed, own, mount
<1>6. LockInv'
  BY <1>2, CopyAssumption DEF CopyInv, LockInv, Locked, Known, Pending
<1>7. StampInv'
  BY <1>2, Later, <1>1 DEF CopyInv, Types, OwnTypes, StampRec, StampInv,
    Stamped, Agrees, RecoverySettles, Changed, own
<1>8. BaseInv'
  BY <1>2, Later, <1>1 DEF CopyInv, Types, DiskTypes, BaseInv, JournalInv,
    Pending, Known, RecoverySettles, Changed, own, mount
<1>9. JournalInv' /\ CopyKeepsCommits'
  BY <1>2, <1>1, RecoveryTimes
<1>10. QED
  BY <1>3, <1>4, <1>5, <1>6, <1>7, <1>8, <1>9 DEF CopyInv, Types

\* The rows after a recovery: as they were, or with the mtime it leaves.
LEMMA RestampedRows ==
  ASSUME CopyInv, NEW o \in Overlays, NEW m \in Nat
  PROVE  /\ Restamped(o, m) \in BaseRec
         /\ Restamped(o, m).mtime \in {base[o].mtime, m}
<1>1. base[o] \in BaseRec /\ inode[name].data \in SUBSET Commits
  BY DEF CopyInv, Types, DiskTypes, OwnTypes, File
<1> DEFINE n == 2 * Cardinality(inode[name].data)
           final == [ino |-> base[o].ino, len |-> n, mtime |-> m]
<1>2. n \in Nat
  BY <1>1, LengthType
<1> HIDE DEF n
<1>3. final \in BaseRec /\ final.mtime = m
  BY <1>1, <1>2 DEF BaseRec
<1>4. Restamped(o, m) \in {base[o], final}
  BY DEF Restamped, n
<1> HIDE DEF final
<1>5. QED
  BY <1>1, <1>3, <1>4

\* A journal the gate accepts was started on what the overlay knows, or the
\* overlay knows what it leaves: rolled forward, nothing is left unknown.
LEMMA AgreedKnown ==
  ASSUME CopyInv, NEW o \in Overlays, pc[o] = "idle", Pending(name), GateAccepts(o)
  PROVE  Known(o) \cup (inode[name].data \ inode[name].pre.data) = inode[name].data
<1>1. base[o].mtime \in {inode[name].mtime, inode[name].pre.mtime}
  BY DEF GateAccepts, JournalAgrees, PreBase, BaseOf
<1>2. \/ Known(o) = inode[name].data
      \/ inode[name].pre.data \subseteq Known(o) /\ Known(o) \subseteq inode[name].data
  BY <1>1 DEF CopyInv, BaseInv
<1>3. QED
  BY <1>2

\* A commit's own recovery moves the rows only to an archive the overlay knows.
LEMMA RecoverOwnInv ==
  ASSUME CopyInv, NEW o \in Overlays, RecoverOwn(o)
  PROVE  CopyInv'
<1> DEFINE rolled == adopted[o] \cup (inode[name].data \ inode[name].pre.data)
<1>1. PICK m, kept :
        /\ RecoverySettles(m, kept)
        /\ base' = [base EXCEPT ![o] = Restamped(o, m)] \/ UNCHANGED base
        /\ pc' = [pc EXCEPT ![o] = "stopped"] \/ UNCHANGED pc
        /\ adopted' = [adopted EXCEPT ![o] = rolled]
  <2>1. PICK m \in SettledTimes(name),
             kept \in {FALSE, inode[name].journal = "complete" \/ inode[name].torn} :
          /\ inode' = [inode EXCEPT ![name] = Settled(name, m, kept)]
          /\ base' = [base EXCEPT ![o] = Restamped(o, m)] \/ UNCHANGED base
          /\ pc' = [pc EXCEPT ![o] = "stopped"] \/ UNCHANGED pc
          /\ adopted' = [adopted EXCEPT ![o] = rolled]
    BY DEF RecoverOwn, Goto
  <2>2. kept \in BOOLEAN /\ clock' = clock + 1
    BY <2>1 DEF RecoverOwn
  <2>3. QED
    BY <2>1, <2>2, RecoverySettlesArchive
<1>2. /\ pc[o] = "idle" /\ lock[name] = None
      /\ UNCHANGED <<name, lock, next, acked, own, served, remounts>>
  BY DEF RecoverOwn
<1>3. /\ base' \in [Overlays -> BaseRec]
      /\ \A p \in Overlays : base'[p].mtime \in 0..(clock + 1)
      /\ \A p \in Overlays : p # o => base'[p] = base[p]
  <2>1. m \in Nat /\ m \in 0..(clock + 1)
    BY <1>1 DEF RecoverySettles
  <2>2. Restamped(o, m) \in BaseRec /\ Restamped(o, m).mtime \in {base[o].mtime, m}
    BY <2>1, RestampedRows
  <2>3. \A p \in Overlays : base[p].mtime \in 0..(clock + 1)
    BY Later DEF CopyInv, ClockInv
  <2>4. QED
    BY <1>1, <2>1, <2>2, <2>3 DEF CopyInv, Types, OwnTypes
<1>4. /\ inode[name].data \in SUBSET Commits /\ rolled \in SUBSET Commits
      /\ name \in Inodes
  BY DEF CopyInv, Types, DiskTypes, OwnTypes, File
<1>5. /\ served[o] \cup rolled = inode[name].data
      /\ served' = served /\ adopted'[o] = rolled
      /\ \A p \in Overlays : p # o => adopted'[p] = adopted[p]
  <2>1. Known(o) \cup (inode[name].data \ inode[name].pre.data) = inode[name].data
    BY AgreedKnown DEF RecoverOwn
  <2>2. QED
    BY <1>1, <1>2, <2>1 DEF Known, CopyInv, Types, OwnTypes
<1>6. DiskTypes'
  BY <1>2, <1>1 DEF CopyInv, Types, DiskTypes, RecoverySettles, Changed
<1>7. OwnTypes'
  BY <1>1, <1>2, <1>3, <1>4 DEF CopyInv, Types, OwnTypes, Steps, own
<1> HIDE DEF rolled
<1>8. ClockInv'
  BY <1>1, <1>2, <1>3, Later, RecoveryTimes DEF CopyInv, Types, OwnTypes,
    ClockInv, RecoverySettles, Changed, own
<1>9. LockInv'
  BY <1>1, <1>2, CopyAssumption DEF CopyInv, Types, OwnTypes, LockInv,
    Locked, own
<1>10. StampInv'
  BY <1>1, <1>2, Later DEF CopyInv, Types, OwnTypes, StampRec, StampInv,
    Stamped, Agrees, RecoverySettles, Changed, own
<1>11. JournalInv' /\ CopyKeepsCommits'
  BY <1>2, <1>1, RecoveryTimes
<1>12. BaseInv'
  <2>1. /\ inode'[name].data = inode[name].data /\ name' = name
        /\ Pending(name)' => inode'[name].pre.data \subseteq inode[name].data
    BY <1>1, <1>2, <1>11 DEF RecoverySettles, Changed, JournalInv, Pending
  <2>2. Known(o)' = inode[name].data
    BY <1>5 DEF Known
  <2>3. ASSUME NEW p \in Overlays, p # o, pc'[p] \notin {"refresh", "reopen", "stopped"}
        PROVE  /\ base'[p].mtime = inode'[name].mtime => Known(p)' = inode'[name].data
               /\ Pending(name)' /\ base'[p].mtime = inode'[name].pre.mtime =>
                    /\ inode'[name].pre.data \subseteq Known(p)'
                    /\ Known(p)' \subseteq inode'[name].data
    <3>1. /\ pc[p] \notin {"refresh", "reopen", "stopped"} /\ base'[p] = base[p]
          /\ Known(p)' = Known(p)
      BY <1>1, <1>3, <1>5, <2>3 DEF Known, CopyInv, Types, OwnTypes
    <3>2. /\ base[p].mtime = inode[name].mtime => Known(p) = inode[name].data
          /\ Pending(name) /\ base[p].mtime = inode[name].pre.mtime =>
               /\ inode[name].pre.data \subseteq Known(p)
               /\ Known(p) \subseteq inode[name].data
      BY <3>1 DEF CopyInv, BaseInv
    <3>3. base[p].mtime # clock + 1
      BY Later DEF CopyInv
    <3>4. /\ inode'[name].mtime \in {inode[name].mtime, inode[name].pre.mtime, clock + 1}
          /\ Pending(name)' => Pending(name) /\ inode'[name].pre = inode[name].pre
          /\ inode'[name].mtime # inode[name].mtime => inode[name].torn
      BY <1>1, <1>2 DEF RecoverySettles, Changed, Pending
    <3>5. inode[name].torn => Pending(name) /\ inode[name].pre.data = inode[name].data
      BY DEF CopyInv, JournalInv, Pending
    <3>6. base[p].mtime = inode'[name].mtime => Known(p) = inode[name].data
      BY <3>2, <3>3, <3>4, <3>5
    <3>7. Pending(name)' /\ base[p].mtime = inode'[name].pre.mtime =>
            /\ inode'[name].pre.data \subseteq Known(p)
            /\ Known(p) \subseteq inode[name].data
      BY <3>2, <3>4
    <3>8. QED
      BY ONLY <2>1, <3>1, <3>6, <3>7
  <2>4. QED
    BY <2>1, <2>2, <2>3 DEF BaseInv
<1>13. QED
  BY <1>6, <1>7, <1>8, <1>9, <1>10, <1>11, <1>12 DEF CopyInv, Types

\* The first state: an archive without commits, at rest.
LEMMA InitInv == Init => CopyInv
<1>1. SUFFICES ASSUME Init PROVE CopyInv
  OBVIOUS
<1>2. 0 \in Inodes /\ Cardinality({}) = 0
  BY CopyAssumption, FS_EmptySet DEF Inodes
<1>3. NoFile \in File
  BY NoPreType DEF NoFile, File
<1>4. Length(0) = 0 /\ inode[0].mtime = 0 /\ inode[0].ctime = 0
  <2>1. /\ inode[0].data = {} /\ inode[0].torn = FALSE
        /\ inode[0].mtime = 0 /\ inode[0].ctime = 0
    BY <1>1, <1>2 DEF Init, NoFile
  <2>2. Length(0) = 2 * 0 + 0
    BY <1>2, <2>1 DEF Length
  <2>3. QED
    BY <2>1, <2>2
<1>5. Stamp(0) = [ino |-> 0, len |-> 0, mtime |-> 0, ctime |-> 0]
  BY <1>4 DEF Stamp
<1>6. BaseOf(0) = [ino |-> 0, len |-> 0, mtime |-> 0]
  BY <1>4 DEF BaseOf
<1>7. DiskTypes
  BY <1>1, <1>2, <1>3, CopyAssumption DEF Init, DiskTypes
<1>8. OwnTypes
  BY <1>1, <1>2, <1>5, <1>6, CopyAssumption DEF Init, OwnTypes, Steps,
    StampRec, CopyRec, BaseRec
<1>9. ClockInv
  BY <1>1, <1>2, <1>5, <1>6 DEF Init, ClockInv, NoFile, NoPre
<1>10. LockInv /\ StampInv
  BY <1>1, CopyAssumption DEF Init, LockInv, Locked, StampInv, Stamped,
    Known, Pending
<1>11. BaseInv /\ JournalInv /\ CopyKeepsCommits
  BY <1>1, <1>2 DEF Init, BaseInv, JournalInv, CopyKeepsCommits, NoFile,
    NoPre, Known, Pending, JournalInv
<1>12. QED
  BY <1>7, <1>8, <1>9, <1>10, <1>11 DEF CopyInv, Types

-----------------------------------------------------------------------------
(* The theorems.                                                           *)

\* The inductive invariant: stamps stand for unchanged files (StampInv), the
\* lock protects the archive's own inode (LockInv), recorded mtimes stand for
\* what the overlay knows, its own recoveries included (BaseInv).
THEOREM CopyInvariance == CopySpec => []CopyInv
<1>1. CopyInv /\ [Next]_copyVars => CopyInv'
  <2>1. SUFFICES ASSUME CopyInv, [Next]_copyVars PROVE CopyInv'
    OBVIOUS
  <2>2. CASE UNCHANGED copyVars
    BY <2>1, <2>2 DEF copyVars, disk, own, mount, CopyInv, Types, DiskTypes,
      OwnTypes, ClockInv, LockInv, StampInv, Agrees, BaseInv,
      CopyKeepsCommits, Known, Pending, JournalInv
  <2>3. CASE Next
    BY <2>1, <2>2, GateInv, ChooseInv, LockReplaceInv, TearInv, ReplacedInv,
      RolledBackInv, UnusableInv, OpenCopySourceInv, ReadCopyInv,
      OpenGuardInv, GuardCopyInv, PublishInv, PublishFailsInv, RefreshInv,
      ReopenInv, KillInv, RemountInv, RecoverInv, RecoverOwnInv DEF Next, Rest
  <2>4. QED
    BY <2>1, <2>2, <2>3
<1>2. QED
  BY <1>1, InitInv, PTL DEF CopySpec

\* A reported commit stays in the archive, and torn bytes never have its name
\* without their journal, for any number of processes that append, copy and
\* recover it.
THEOREM CopyKeepsCommitsHolds == CopySpec => []CopyKeepsCommits
<1>1. CopyInv => CopyKeepsCommits
  BY DEF CopyInv
<1>2. QED
  BY <1>1, CopyInvariance, PTL

\* The gate agrees only with the archive the mount read, or that its own
\* recovery rolled forward: size and mtime are enough, although a rollback may
\* restore an mtime.
THEOREM GateMatchesServedHolds == CopySpec => []GateMatchesServed
<1>1. CopyInv => GateMatchesServed
  BY DEF CopyInv, BaseInv, GateMatchesServed, BaseOf, Known, Pending
<1>2. QED
  BY <1>1, CopyInvariance, PTL

\* A commit is written only onto the archive its gate judged, in place or as a
\* copy.
THEOREM CommitsOnServedHolds == CopySpec => []CommitsOnServed
<1>1. CopyInv => CommitsOnServed
  BY DEF CopyInv, LockInv, Locked, CommitsOnServed, Known, Pending
<1>2. QED
  BY <1>1, CopyInvariance, PTL

\* The flock excludes: of all appends, copies and recoveries at most one
\* overlay is between its check and its write.
THEOREM CopyExclusion ==
  CopySpec => [](\A o, p \in Overlays : pc[o] \in Locked /\ pc[p] \in Locked => o = p)
<1>1. CopyInv => \A o, p \in Overlays : pc[o] \in Locked /\ pc[p] \in Locked => o = p
  BY DEF CopyInv, LockInv, Known, Pending
<1>2. QED
  BY <1>1, CopyInvariance, PTL

\* Types, times and lock ownership.
THEOREM CopyTypeCorrect == CopySpec => []CopyTypeOK
<1>1. CopyInv => CopyTypeOK
  <2>1. SUFFICES ASSUME CopyInv PROVE CopyTypeOK
    OBVIOUS
  <2>2. \A i \in Inodes :
          /\ inode[i].data \subseteq Commits
          /\ inode[i].torn \in BOOLEAN /\ inode[i].journal \in {"none", "active", "complete"}
          /\ inode[i].pre.data \subseteq Commits
    BY <2>1 DEF CopyInv, Types, DiskTypes, File, PreRec
  <2>3. \A o \in Overlays : /\ served[o] \subseteq Commits /\ copy[o].data \subseteq Commits
                            /\ adopted[o] \subseteq Commits
    BY <2>1 DEF CopyInv, Types, OwnTypes, CopyRec
  <2>4. QED
    BY <2>1, <2>2, <2>3 DEF CopyInv, Types, DiskTypes, OwnTypes, ClockInv,
      LockInv, Locked, CopyTypeOK, Known, Pending
<1>2. QED
  BY <1>1, CopyInvariance, PTL
=============================================================================
