---------------------------- MODULE OverlayFiles ----------------------------
(***************************************************************************)
(* The names of a mounted write overlay (write_overlay.rs).  A name's       *)
(* bytes come from the host folder, else from the archive ("base"); a name  *)
(* in the in-memory tombstone set is hidden.  The "files" table keeps the   *)
(* tombstones for the next mount.  An operation changes the host folder     *)
(* first, then writes its row, then the tombstone set; a row SQLite refuses *)
(* waits in the queue pending_rows and every later row waits behind it.     *)
(*                                                                          *)
(* Names are regular files and symbolic links of one folder; directories,   *)
(* attributes and open descriptors are left out.  An operation's steps are  *)
(* interleaved with those of the others, with a live commit, a crash, an    *)
(* unmount, an offline commit and the next mount.                           *)
(***************************************************************************)
EXTENDS Integers, Sequences, FiniteSets, SequencesExt

CONSTANTS
    Names,          \* file names of the folder
    Threads,        \* callers of the overlay: the FUSE loop, server workers
    Archived,       \* the names the archive holds at the first mount
    MaxContent,     \* bound: contents the clients write
    OneAtATime,     \* no two calls in flight share a name
    LooksUp         \* the front end looked the name up before open and rename

ASSUME FilesAssumption ==
    /\ IsFiniteSet(Archived) /\ Archived \subseteq Names
    /\ MaxContent \in Nat
    /\ OneAtATime \in BOOLEAN
    /\ LooksUp \in BOOLEAN

Absent == 0                     \* no such file
Old == Cardinality(Archived)    \* 1 .. Old: the members the archive starts with
Contents == Absent .. Old + MaxContent

RowStates == {"none", "present", "deleted"}

(* PendingFilesOp: a row update that still has to reach SQLite.  For a      *)
(* rename "path" is the target.                                             *)
PendingFilesOp ==
    [kind : {"rename", "deleted", "present", "clear"},
     path : Names, from : Names, hides : BOOLEAN]

VARIABLES
    base,       \* the archive's contents
    host,       \* the overlay folder
    row,        \* the "files" table: no row, deleted = 0, deleted = 1
    tomb,       \* tombstones: the hidden names, in memory
    queue,      \* pending_rows
    phase,      \* where each thread is in its call
    call,       \* the thread's operation and the row it has to write
    gate,       \* "open", "clean": a commit holds the gate, archive published
    plan,       \* what the running commit published: names appended, deleted
    mounted,
    fresh,      \* the last content written
    tree        \* history: what the finished calls promised of each name

filesVars == <<base, host, row, tomb, queue, phase, call, gate, plan, mounted,
               fresh, tree>>

NoPlan == [append |-> {}, delete |-> {}]

Idle == {t \in Threads : phase[t] = "idle"}

Touched(t) == {call[t].op.path, call[t].op.from}
InFlight == UNION {Touched(t) : t \in Threads \ Idle}

-----------------------------------------------------------------------------
(* What a reader and the next mount see.                                    *)

(* lookup: a tombstone hides the name, then the host file, then the base.   *)
Lookup(b, h, dead, n) ==
    IF n \in dead THEN Absent ELSE IF h[n] # Absent THEN h[n] ELSE b[n]

View(n) == Lookup(base, host, tomb, n)

(* tombstone_set_from_conn *)
DeletedRows(r) == {n \in Names : r[n] = "deleted"}

(* clear_tombstones_with_host_files: a mount drops the tombstone of a name  *)
(* with a host file (a crash came between the file and its row).            *)
ClearShadowed(r, h) ==
    [n \in Names |-> IF r[n] = "deleted" /\ h[n] # Absent THEN "present" ELSE r[n]]

Restored(n) == Lookup(base, host, DeletedRows(ClearShadowed(row, host)), n)

-----------------------------------------------------------------------------
(* The rows.                                                                *)

(* apply_files_op_sql: one row update.                                      *)
ApplyOp(r, op) ==
    LET gone == IF op.hides THEN "deleted" ELSE "none"
    IN  CASE op.kind = "rename"  -> [r EXCEPT ![op.path] = "present", ![op.from] = gone]
          [] op.kind = "deleted" -> [r EXCEPT ![op.path] = gone]
          [] op.kind = "present" -> [r EXCEPT ![op.path] = "present"]
          [] op.kind = "clear"   -> [r EXCEPT ![op.path] = IF @ = "none" THEN @ ELSE "present"]

(* apply_pending_ops_sql: a batch in one transaction.                       *)
ApplyOps(r, ops) == FoldLeft(ApplyOp, r, ops)

(* pending_reappear_paths: the names the unsaved rows hide and the table    *)
(* does not.                                                                *)
Reappear ==
    LET Hide(hidden, op) ==
          LET gone == IF op.kind = "rename" THEN op.from ELSE op.path
          IN  IF op.kind \in {"rename", "deleted"} /\ op.hides
                THEN (hidden \ {op.path}) \cup {gone}
                ELSE hidden \ {op.path, gone}
    IN  FoldLeft(Hide, {}, queue) \ DeletedRows(row)

-----------------------------------------------------------------------------
(* Calls.  A call takes the gate's read lock and makes its first change;    *)
(* its front end has looked the name up, or has not.                        *)

Row(kind, n, from, hides) == [kind |-> kind, path |-> n, from |-> from, hides |-> hides]
NoName == CHOOSE n \in Names : TRUE
NoCall == [op |-> Row("clear", NoName, NoName, FALSE), then |-> FALSE, new |-> Absent]

MayStart(t, names) ==
    /\ mounted
    /\ gate = "open"
    /\ phase[t] = "idle"
    /\ OneAtATime => names \cap InFlight = {}

(* The host folder has changed; the row comes next.                         *)
HostDone(t, h, op, new, again) ==
    /\ host' = h
    /\ call' = [call EXCEPT ![t] = [op |-> op, then |-> again, new |-> new]]
    /\ phase' = [phase EXCEPT ![t] = "replay"]
    /\ UNCHANGED <<base, row, tomb, queue, gate, plan, mounted, tree>>

NewFile(t, n, op, again) ==
    /\ fresh < Old + MaxContent
    /\ fresh' = fresh + 1
    /\ HostDone(t, [host EXCEPT ![n] = fresh + 1], op, fresh + 1, again)

(* unlink_inner: remove the host file; the row hides the name when the base *)
(* has it (mark_deleted).                                                   *)
Unlink(t, n) ==
    /\ MayStart(t, {n})
    /\ HostDone(t, [host EXCEPT ![n] = Absent],
                Row("deleted", n, n, base[n] # Absent), Absent, FALSE)
    /\ UNCHANGED fresh

(* create_file_inner: an empty host file, whatever the name had.            *)
CreateFile(t, n) ==
    /\ MayStart(t, {n})
    /\ NewFile(t, n, Row("present", n, n, FALSE), FALSE)

(* create_symlink: refused when the host or the mount has the name.         *)
CreateSymlink(t, n) ==
    /\ MayStart(t, {n})
    /\ host[n] = Absent /\ View(n) = Absent
    /\ NewFile(t, n, Row("present", n, n, FALSE), FALSE)

(* ensure_modifiable_inner: copy the base's file up unless the host has the *)
(* name.  The tombstone is not consulted.                                   *)
CopiedUp(n) == IF host[n] # Absent THEN host[n] ELSE base[n]

(* open_overlay_fd_with_mode: copy up; a name neither side has is created,  *)
(* with a row of its own, before the tombstone is cleared.                  *)
OpenOverlayFd(t, n) ==
    /\ MayStart(t, {n})
    /\ LooksUp => View(n) # Absent
    /\ IF CopiedUp(n) # Absent
         THEN /\ HostDone(t, [host EXCEPT ![n] = CopiedUp(n)],
                          Row("clear", n, n, FALSE), CopiedUp(n), FALSE)
              /\ UNCHANGED fresh
         ELSE NewFile(t, n, Row("present", n, n, FALSE), TRUE)

(* rename_inner, first half: copy the source up; a name neither side has is *)
(* refused.                                                                 *)
RenameCopiesUp(t, from, to) ==
    /\ MayStart(t, {from, to})
    /\ from # to
    /\ LooksUp => View(from) # Absent
    /\ CopiedUp(from) # Absent
    /\ host' = [host EXCEPT ![from] = CopiedUp(from)]
    /\ phase' = [phase EXCEPT ![t] = "move"]
    /\ call' = [call EXCEPT ![t] = [NoCall EXCEPT !.op = Row("rename", to, from, FALSE)]]
    /\ UNCHANGED <<base, row, tomb, queue, gate, plan, mounted, fresh, tree>>

Moved(t, from, to) ==
    /\ HostDone(t, [host EXCEPT ![to] = host[from], ![from] = Absent],
                Row("rename", to, from, base[from] # Absent), host[from], FALSE)
    /\ UNCHANGED fresh

(* mutant: the target is unlinked first                                     *)
RenameHostDeletes(t) ==
    LET op == call[t].op
    IN  /\ phase[t] = "move"
        /\ IF host[op.path] # Absent
             THEN /\ host' = [host EXCEPT ![op.path] = Absent]
                  /\ UNCHANGED <<base, row, tomb, queue, phase, call, gate, plan,
                                 mounted, fresh, tree>>
             ELSE Moved(t, op.from, op.path)

(* rename_inner, second half: rename(2) straight over the target.  The      *)
(* copied source may be gone again when calls share a name.                 *)
RenameHost(t) ==
    LET op == call[t].op
    IN  /\ phase[t] = "move"
        /\ IF host[op.from] # Absent
             THEN Moved(t, op.from, op.path)
             ELSE /\ phase' = [phase EXCEPT ![t] = "idle"]
                  /\ call' = [call EXCEPT ![t] = NoCall]
                  /\ UNCHANGED <<base, host, row, tomb, queue, gate, plan, mounted,
                                 fresh, tree>>

-----------------------------------------------------------------------------
(* persist_files_op, then the tombstone set.                                *)

(* replay_pending_rows: the queue in one transaction; a failure puts the    *)
(* batch back and the caller goes on.                                       *)
ReplayRows(t) ==
    /\ phase[t] = "replay"
    /\ phase' = [phase EXCEPT ![t] = "write"]
    /\ \/ row' = ApplyOps(row, queue) /\ queue' = <<>>
       \/ UNCHANGED <<row, queue>>
    /\ UNCHANGED <<base, host, tomb, call, gate, plan, mounted, fresh, tree>>

(* The rest of persist_files_op, under the queue's lock: behind older rows  *)
(* the row waits; else it is written, or waits when SQLite fails.           *)
WriteRow(t) ==
    /\ phase[t] = "write"
    /\ phase' = [phase EXCEPT ![t] = "memory"]
    /\ \/ queue = <<>> /\ row' = ApplyOp(row, call[t].op) /\ UNCHANGED queue
       \/ queue' = Append(queue, call[t].op) /\ UNCHANGED row
    /\ UNCHANGED <<base, host, tomb, call, gate, plan, mounted, fresh, tree>>

(* What the finished call promised.                                         *)
Promised(t) ==
    LET op == call[t].op
    IN  CASE op.kind = "rename"  -> [tree EXCEPT ![op.path] = call[t].new, ![op.from] = Absent]
          [] op.kind = "deleted" -> [tree EXCEPT ![op.path] = Absent]
          [] op.kind = "present" -> [tree EXCEPT ![op.path] = call[t].new]
          [] op.kind = "clear"   -> [tree EXCEPT ![op.path] = IF @ = Absent THEN call[t].new ELSE @]

(* mutant: the renamed name is not hidden                                   *)
TombstonesKeepFrom(op) == tomb \ {op.path, op.from}

(* mark_deleted, mark_present, apply_rename_tombstone_memory and            *)
(* tombstone_forget: the set after the row.                                 *)
Tombstones(op) ==
    CASE op.kind = "rename"  -> IF op.hides THEN (tomb \ {op.path}) \cup {op.from}
                                            ELSE tomb \ {op.path, op.from}
      [] op.kind = "deleted" -> IF op.hides THEN tomb \cup {op.path} ELSE tomb \ {op.path}
      [] op.kind \in {"present", "clear"} -> tomb \ {op.path}

(* The call returns, or an open that created its file clears the tombstone. *)
Remember(t) ==
    /\ phase[t] = "memory"
    /\ tomb' = Tombstones(call[t].op)
    /\ IF call[t].then
         THEN /\ phase' = [phase EXCEPT ![t] = "replay"]
              /\ call' = [call EXCEPT ![t].op.kind = "clear", ![t].then = FALSE]
              /\ UNCHANGED tree
         ELSE /\ phase' = [phase EXCEPT ![t] = "idle"]
              /\ call' = [call EXCEPT ![t] = NoCall]
              /\ tree' = Promised(t)
    /\ UNCHANGED <<base, host, row, queue, gate, plan, mounted, fresh>>

-----------------------------------------------------------------------------
(* Commits and mounts.                                                      *)

(* collect_overlay_commit_plan: the deleted rows and the host files of the  *)
(* folder; a live commit leaves out the files that are still "hot".         *)
CommitPlan(r, hot) ==
    LET files == {n \in Names : host[n] # Absent} \ hot
    IN  [append |-> files, delete |-> DeletedRows(r) \cup files]

PublishedBase(p) ==
    [n \in Names |-> IF n \in p.append THEN host[n]
                     ELSE IF n \in p.delete THEN Absent ELSE base[n]]

(* persist_and_swap under the gate's write lock: replay the queue or        *)
(* refuse, publish the plan, serve the new archive.                         *)
Publish(hot) ==
    /\ mounted
    /\ gate = "open"
    /\ Idle = Threads
    /\ row' = ApplyOps(row, queue)
    /\ queue' = <<>>
    /\ plan' = CommitPlan(row', hot)
    /\ plan' # NoPlan
    /\ base' = PublishedBase(plan')
    /\ gate' = "clean"
    /\ UNCHANGED <<host, tomb, phase, call, mounted, fresh, tree>>

Cleaned(done, rows) ==
    /\ gate = "clean"
    /\ gate' = "open"
    /\ plan' = NoPlan
    /\ host' = [n \in Names |-> IF n \in done THEN Absent ELSE host[n]]
    /\ row' = [n \in Names |-> IF n \in rows THEN "none" ELSE row[n]]
    /\ UNCHANGED <<base, queue, phase, call, mounted, fresh, tree>>

(* forget_committed_overlay_rows: the plan's files, then its deletions; the *)
(* rows dropped before a failure are forgotten too.                         *)
ForgetCommitted(done) ==
    LET rows == IF done = plan.append THEN plan.delete ELSE done
    IN  /\ done \subseteq plan.append
        /\ Cleaned(done, rows)
        /\ tomb' = tomb \ rows

(* The whole folder is reset when the commit took everything; a failure     *)
(* leaves the rows and the tombstones alone.                                *)
ResetOverlay(done) ==
    /\ plan.append = {n \in Names : host[n] # Absent}
    /\ \/ done = plan.append /\ Cleaned(done, Names) /\ tomb' = {}
       \/ done \subseteq plan.append /\ Cleaned(done, {}) /\ UNCHANGED tomb

(* The process ends: by a crash with calls and rows in flight, or by an     *)
(* unmount, whose last replay (replay_pending_on_drop) may fail.            *)
Stop ==
    /\ mounted' = FALSE
    /\ queue' = <<>>
    /\ gate' = "open"
    /\ plan' = NoPlan
    /\ phase' = [t \in Threads |-> "idle"]
    /\ call' = [t \in Threads |-> NoCall]
    /\ tomb' = {}
    /\ tree' = [n \in Names |-> Absent]
    /\ UNCHANGED <<base, host, fresh>>

Crash == mounted /\ Stop /\ UNCHANGED row

Unmount ==
    /\ mounted
    /\ gate = "open"
    /\ Idle = Threads
    /\ Stop
    /\ row' \in {row, ApplyOps(row, queue)}

(* mutant: the archive keeps the deleted names, and the rows are dropped    *)
OfflineCommitForgets ==
    /\ ~mounted
    /\ CommitPlan(row, {}) # NoPlan
    /\ base' = PublishedBase([CommitPlan(row, {}) EXCEPT !.delete = {}])
    /\ row' = [n \in Names |-> "none"]
    /\ UNCHANGED <<host, tomb, queue, phase, call, gate, plan, mounted, fresh, tree>>

(* commit_overlay_tar without a mount reads the table and the folder, and   *)
(* leaves both: the user removes the folder.                                *)
OfflineCommit ==
    /\ ~mounted
    /\ CommitPlan(row, {}) # NoPlan
    /\ base' = PublishedBase(CommitPlan(row, {}))
    /\ UNCHANGED <<host, row, tomb, queue, phase, call, gate, plan, mounted, fresh, tree>>

(* open_with_create_info: load the tombstones, clear the shadowed ones.     *)
Mount ==
    /\ ~mounted
    /\ mounted' = TRUE
    /\ row' = ClearShadowed(row, host)
    /\ tomb' = DeletedRows(row')
    /\ tree' = [n \in Names |-> Restored(n)]
    /\ UNCHANGED <<base, host, queue, phase, call, gate, plan, fresh>>

-----------------------------------------------------------------------------
FilesInit ==
    /\ LET members == SetToSeq(Archived)
       IN  base = [n \in Names |-> IF n \in Archived
                                     THEN CHOOSE i \in 1 .. Old : members[i] = n
                                     ELSE Absent]
    /\ host = [n \in Names |-> Absent]
    /\ row = [n \in Names |-> "none"]
    /\ tomb = {}
    /\ queue = <<>>
    /\ phase = [t \in Threads |-> "idle"]
    /\ call = [t \in Threads |-> NoCall]
    /\ gate = "open"
    /\ plan = NoPlan
    /\ mounted = TRUE
    /\ fresh = Old
    /\ tree = base

Calls(t) ==
    \/ \E n \in Names : Unlink(t, n)
    \/ \E n \in Names : CreateFile(t, n)
    \/ \E n \in Names : CreateSymlink(t, n)
    \/ \E n \in Names : OpenOverlayFd(t, n)
    \/ \E n, m \in Names : RenameCopiesUp(t, n, m)
    \/ RenameHost(t)
    \/ ReplayRows(t)
    \/ WriteRow(t)
    \/ Remember(t)

FilesNext ==
    \/ \E t \in Threads : Calls(t)
    \/ \E hot \in SUBSET Names : Publish(hot)
    \/ \E done \in SUBSET Names : ForgetCommitted(done)
    \/ \E done \in SUBSET Names : ResetOverlay(done)
    \/ Crash
    \/ Unmount
    \/ OfflineCommit
    \/ Mount

FilesSpec == FilesInit /\ [][FilesNext]_filesVars

-----------------------------------------------------------------------------
(* Types, and: while a commit holds the gate no call is in flight and no    *)
(* row is unsaved (commit_gate, replay_pending_or_refuse_commit).           *)
FilesTypeOK ==
    /\ base \in [Names -> Contents] /\ host \in [Names -> Contents]
    /\ row \in [Names -> RowStates]
    /\ tomb \subseteq Names
    /\ queue \in Seq(PendingFilesOp)
    /\ phase \in [Threads -> {"idle", "move", "replay", "write", "memory"}]
    /\ call \in [Threads -> [op : PendingFilesOp, then : BOOLEAN, new : Contents]]
    /\ gate \in {"open", "clean"}
    /\ plan \in [append : SUBSET Names, delete : SUBSET Names]
    /\ mounted \in BOOLEAN
    /\ fresh \in Contents
    /\ tree \in [Names -> Contents]
    /\ gate = "clean" => Idle = Threads /\ queue = <<>>

(* A mounted overlay shows of every name no call is changing what the       *)
(* finished calls left there, whatever rows SQLite refused and whichever    *)
(* commits ran: lookup (write_overlay.rs:5790) reads the tombstone set, not *)
(* the table.  And the unmount's report is exact: of those names, the next  *)
(* mount shows something else for just the ones pending_reappear_paths      *)
(* (write_overlay.rs:3075) lists, and shows the archive's member there.     *)
SettledView ==
    mounted =>
      LET settled == Names \ InFlight
      IN  /\ \A n \in settled : View(n) = tree[n]
          /\ {n \in settled : Restored(n) # tree[n]} = Reappear \cap settled
          /\ \A n \in Reappear \cap settled : Restored(n) = base[n]

(* A rename never shows its target as missing: a reader of a target that    *)
(* existed sees the old file, then the new one.  A crash in the middle of   *)
(* it loses nothing: the next mount shows the source's bytes under one of   *)
(* the two names, and under the target only the old file or the new one     *)
(* (docs/design/fuse-atomic-rename-over.md:132 and its crash table at :140, *)
(* rename_inner).                                                           *)
RenameAtomic ==
    \A t \in Threads \ Idle :
      LET op == call[t].op
          either == {tree[op.path], tree[op.from]}
      IN  op.kind = "rename" =>
            /\ tree[op.path] # Absent => View(op.path) \in either
            /\ tree[op.from] \in {Restored(op.from), Restored(op.path)}
            /\ Restored(op.path) \in either \cup
                  IF op.path \in Reappear THEN {base[op.path]} ELSE {}

(* A commit changes no name's content: neither publishing nor the cleanup,  *)
(* even one that fails half way, nor a commit without a mount, changes what *)
(* the mount, or the next one, shows.                                       *)
CommitKeepsView ==
    [][ /\ (gate # gate' /\ mounted /\ mounted') => \A n \in Names : View(n)' = View(n)
        /\ (~mounted /\ ~mounted') => \A n \in Names : Restored(n)' = Restored(n) ]_filesVars

=============================================================================
