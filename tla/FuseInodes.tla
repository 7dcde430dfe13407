----------------------------- MODULE FuseInodes -----------------------------
(***************************************************************************)
(* The nodeid and file handle tables of the FUSE front end                 *)
(* (ratarmount-fuse/src/lib.rs) over a write overlay, while the interval   *)
(* thread commits the overlay into the archive and swaps the base.         *)
(*                                                                         *)
(* A file is an identity: a copy-up, a rename and a commit keep it, a      *)
(* create makes a new one.  The front end runs one request at a time; a    *)
(* request is split where the committing thread, which shares no lock with *)
(* lookup and open, can come in between.  A FileInfo of an archive member  *)
(* holds offsets into the base it was looked up in: read through a later   *)
(* base in which members moved they give no member at all (Garbage).  A    *)
(* reader that is already open keeps the file it was opened on, because a  *)
(* copying commit renames a new archive into place.                        *)
(*                                                                         *)
(* One folder of non-empty regular files; directories, symlinks, extended  *)
(* attributes, the kernel's cached attributes and in-place commits (whose  *)
(* readers may observe the write) are left out.                            *)
(***************************************************************************)
EXTENDS Naturals, FiniteSets

CONSTANTS
    Names,          \* the names of the folder
    Archived,       \* [Names -> Nat]: the file of each member at mount, 0 for none
    MaxFile,        \* files that may ever exist
    MaxIno,         \* nodeids that may be handed out
    MaxHandles,     \* file handles open at once
    MaxRefs,        \* lookups of one nodeid the kernel holds
    MaxCommits      \* live commits

ASSUME FuseAssumption ==
    /\ Names # {} /\ IsFiniteSet(Names)
    /\ {"none", "stale"} \cap Names = {}
    /\ {MaxFile, MaxIno, MaxHandles, MaxRefs, MaxCommits} \subseteq Nat
    /\ Archived \in [Names -> 0..MaxFile]
    /\ \A m, n \in Names : m # n /\ Archived[m] # 0 => Archived[m] # Archived[n]
    /\ \A n \in Names : Archived[n] <= Cardinality({m \in Names : Archived[m] # 0})

VARIABLES
    base,       \* the archive view: file of each name, 0 for none
    baseNo,     \* which base is served; every swap makes a new one
    moved,      \* the last base in which members moved
    overlay,    \* the overlay's host file of each name, 0 for none
    tombs,      \* deleted names
    written,    \* names whose overlay copy may differ from the member it was copied from
    gen,        \* content_generation
    commit,     \* the committing thread: pc and the names of its plan
    p2i,        \* path_to_ino, 0 for none
    inodes,     \* the InodeEntry of each nodeid
    sourceGen,  \* source_generation: the generation last swept for
    handles,    \* the OpenBackend of each file handle
    req,        \* the request being served
    refs,       \* lookups the kernel holds of each nodeid
    nextIno, nextFile,
    fileOf      \* history: the file a nodeid was handed out for

store     == <<base, baseNo, moved, overlay, tombs, written, gen>>
tables    == <<p2i, inodes, sourceGen, handles>>
fresh     == <<nextIno, nextFile, fileOf>>
fuseVars  == <<store, commit, tables, req, refs, fresh>>

Inos    == 1..MaxIno
Files   == 1..MaxFile
Garbage == MaxFile + 1
Handles == 1..MaxHandles

NoFI     == [tag |-> "none", file |-> 0, base |-> 0]
NoPark   == [kind |-> "linked", fi |-> NoFI]
NoEntry  == [name |-> "none", cache |-> NoFI, nlookup |-> 0, det |-> NoPark]
NoHandle == [kind |-> "none", ino |-> 0, name |-> "none", reads |-> 0, gen |-> 0,
             det |-> FALSE, write |-> FALSE, file |-> 0]
NoReq    == [op |-> "idle", pc |-> "idle", ino |-> 0, name |-> "none", to |-> "none",
             fi |-> NoFI, gen |-> 0, fh |-> 0]

Stale      == "stale"          \* the path "\0stale-{ino}"
Detached(e) == e.det # NoPark

-----------------------------------------------------------------------------
(* The write overlay as the front end sees it. *)

\* The file lookup finds under a name.
View(n) ==
    IF overlay[n] # 0 THEN overlay[n] ELSE IF n \in tombs THEN 0 ELSE base[n]

\* WriteOverlay::lookup: an overlay file, or the member of the current base.
Lookup(n) ==
    IF View(n) = 0 THEN NoFI
    ELSE IF overlay[n] # 0 THEN [tag |-> "overlay", file |-> overlay[n], base |-> 0]
    ELSE [tag |-> "archive", file |-> base[n], base |-> baseNo]

\* The bytes WriteOverlay::open gives for a FileInfo: the current base is
\* read at the offsets the FileInfo carries.
Opens(fi) ==
    IF fi.tag = "overlay" \/ fi.base >= moved THEN fi.file ELSE Garbage

\* commit_gate is free for a mutation.
GateFree == commit.pc = "idle"

\* ensure_modifiable_inner: the copy-up keeps the file's identity.
CopyUp(n) == overlay' = [overlay EXCEPT ![n] = View(n)]

Hides(n) == IF base[n] # 0 THEN {n} ELSE {}

-----------------------------------------------------------------------------
(* The inode table. *)

MaxOf(a, b) == IF a < b THEN b ELSE a

\* The table after sweep_if_generation_advanced: a commit drops every cached
\* FileInfo and keeps the detached snapshots and the lookup counts.
Swept ==
    IF sourceGen < gen
    THEN [i \in Inos |-> [inodes[i] EXCEPT !.cache = NoFI]]
    ELSE inodes

\* sweep_if_generation_advanced
Sweep == sourceGen' = MaxOf(sourceGen, gen) /\ inodes' = Swept

\* inode_cache_from_fi: only a member the overlay does not shadow is kept.
Cached(fi) == IF fi.tag = "archive" THEN fi ELSE NoFI

\* The cached FileInfo of the nodeid of a name, or of a nodeid, in a table.
CachedAt(tab, i) == IF i = 0 THEN NoFI ELSE tab[i].cache

\* write_inode_cache: never on a detached nodeid.
WriteCache(e, fi) == IF Detached(e) THEN e ELSE [e EXCEPT !.cache = Cached(fi)]

\* bump_nlookup
BumpNlookup(e) == [e EXCEPT !.nlookup = @ + 1]

\* ino_for_path_with_fi on a name that has no nodeid yet: a fresh one, with
\* no lookup counted.
Allocate(n, fi, count) ==
    /\ nextIno <= MaxIno
    /\ nextIno' = nextIno + 1
    /\ p2i' = [p2i EXCEPT ![n] = nextIno]
    /\ inodes' = [inodes EXCEPT ![nextIno] =
                    [name |-> n, cache |-> Cached(fi), nlookup |-> count, det |-> NoPark]]
    /\ fileOf' = [fileOf EXCEPT ![nextIno] = fi.file]
    /\ refs' = [refs EXCEPT ![nextIno] = count]

\* build_detached: what the host file's park left, or the snapshot taken
\* before the call.
BuildDetached(parked, snap) ==
    IF parked.kind # "none" THEN parked
    ELSE [kind |-> IF snap.tag = "archive" THEN "archive"
                   ELSE IF snap.tag = "overlay" THEN "meta" ELSE "missing",
          fi |-> snap]

\* install_detached: without a lookup of the kernel the entry goes at once.
Detach(e, det) ==
    IF e.nlookup = 0 THEN NoEntry
    ELSE [e EXCEPT !.name = Stale, !.cache = NoFI, !.det = det]

\* A mutant: a rename marks no handle.
MarkUnlinkedOnly(hs, names) ==
    [h \in Handles |->
        IF hs[h].kind = "source" /\ names = {hs[h].name}
        THEN [hs[h] EXCEPT !.det = TRUE] ELSE hs[h]]

\* mark_source_handles_detached
MarkDetached(hs, names) ==
    [h \in Handles |->
        IF hs[h].kind = "source" /\ hs[h].name \in names
        THEN [hs[h] EXCEPT !.det = TRUE] ELSE hs[h]]

FreeHandles == {h \in Handles : handles[h] = NoHandle}

Put(h) == \E fh \in FreeHandles : handles' = [handles EXCEPT ![fh] = h]

-----------------------------------------------------------------------------
(* Requests. *)

\* The kernel sends the next request once the last one is answered.
Begins == req = NoReq

Reply == req' = NoReq

\* A nodeid of a linked file the kernel may name in a request.
Linked(i) == refs[i] > 0 /\ inodes[i] # NoEntry /\ ~Detached(inodes[i])

\* lookup_entry, lookup_file_info: the cached member, or a lookup.
BeginLookup(n) ==
    /\ Begins
    /\ IF p2i[n] = 0 THEN nextIno <= MaxIno ELSE refs[p2i[n]] < MaxRefs
    /\ Sweep
    /\ LET fi == CachedAt(Swept, p2i[n])
       IN  req' = [NoReq EXCEPT !.op = "lookup", !.name = n, !.fi = fi,
                                !.pc = IF fi = NoFI THEN "find" ELSE "store"]
    /\ UNCHANGED <<store, commit, p2i, handles, refs, fresh>>

\* getattr_reply on a linked nodeid, file_info_for_ino.
BeginGetattr(i) ==
    /\ Begins
    /\ Linked(i)
    /\ Sweep
    /\ req' = IF CachedAt(Swept, i) # NoFI THEN NoReq
              ELSE [NoReq EXCEPT !.op = "getattr", !.ino = i, !.name = inodes[i].name,
                                 !.pc = "find"]
    /\ UNCHANGED <<store, commit, p2i, handles, refs, fresh>>

\* open_inode for reading: an overlay file by its descriptor, a member by
\* file_info_for_open.
BeginOpen(i) ==
    /\ Begins
    /\ Linked(i)
    /\ FreeHandles # {}
    /\ LET n  == inodes[i].name
           shadowed == inodes[i].cache = NoFI /\ overlay[n] # 0
           fi == CachedAt(Swept, i)
       IN  \/ /\ shadowed
              /\ req' = [NoReq EXCEPT !.op = "open", !.ino = i, !.name = n, !.pc = "overlay"]
              /\ UNCHANGED <<inodes, sourceGen>>
           \/ /\ ~shadowed
              /\ Sweep
              /\ req' = [NoReq EXCEPT !.op = "open", !.ino = i, !.name = n, !.fi = fi,
                                      !.pc = IF fi = NoFI THEN "find" ELSE "sample"]
    /\ UNCHANGED <<store, commit, p2i, handles, refs, fresh>>

\* open_overlay_fd of a read-only open.
OpenOverlay ==
    /\ req.pc = "overlay"
    /\ GateFree
    /\ CopyUp(req.name)
    /\ inodes' = [inodes EXCEPT ![req.ino].cache = NoFI]
    /\ Put([NoHandle EXCEPT !.kind = "fd", !.ino = req.ino, !.reads = View(req.name),
                            !.file = fileOf[req.ino]])
    /\ Reply
    /\ UNCHANGED <<base, baseNo, moved, tombs, written, gen, commit, p2i, sourceGen, refs, fresh>>

\* source.lookup of a request that had nothing cached.
Find ==
    /\ req.pc = "find"
    /\ req' = IF Lookup(req.name) = NoFI THEN NoReq
              ELSE [req EXCEPT !.fi = Lookup(req.name), !.pc = "store"]
    /\ UNCHANGED <<store, commit, tables, refs, fresh>>

\* ino_for_path_with_fi and bump_nlookup of a lookup's reply.
StoreLookup ==
    /\ req.pc = "store"
    /\ req.op = "lookup"
    /\ IF p2i[req.name] = 0
       THEN Allocate(req.name, req.fi, 1)
       ELSE LET i == p2i[req.name]
            IN  /\ inodes' = [inodes EXCEPT ![i] = BumpNlookup(WriteCache(@, req.fi))]
                /\ refs' = [refs EXCEPT ![i] = @ + 1]
                /\ UNCHANGED <<p2i, nextIno, fileOf>>
    /\ Reply
    /\ UNCHANGED <<store, commit, sourceGen, handles, nextFile>>

\* store_fi of a getattr or an open.
StoreFi ==
    /\ req.pc = "store"
    /\ req.op \in {"getattr", "open"}
    /\ inodes' = [inodes EXCEPT ![req.ino] = WriteCache(@, req.fi)]
    /\ req' = IF req.op = "open" THEN [req EXCEPT !.pc = "sample"] ELSE NoReq
    /\ UNCHANGED <<store, commit, p2i, sourceGen, handles, refs, fresh>>

\* open_source_backend reads the generation after the FileInfo was resolved.
Sample ==
    /\ req.pc = "sample"
    /\ req' = [req EXCEPT !.gen = gen, !.pc = "reader"]
    /\ UNCHANGED <<store, commit, tables, refs, fresh>>

\* open_source_backend: source.open on the base of now.
OpenReader ==
    /\ req.pc = "reader"
    /\ Put([kind |-> "source", ino |-> req.ino, name |-> req.name, reads |-> Opens(req.fi),
            gen |-> req.gen, det |-> req.op = "reopen", write |-> FALSE,
            file |-> fileOf[req.ino]])
    /\ Reply
    /\ UNCHANGED <<store, commit, p2i, inodes, sourceGen, refs, fresh>>

\* A mutant: the copy-up leaves the cached member in place.
OpenWriteKeepsCache(i) ==
    /\ Begins
    /\ Linked(i)
    /\ GateFree
    /\ CopyUp(inodes[i].name)
    /\ written' = written \cup {inodes[i].name}
    /\ Put([NoHandle EXCEPT !.kind = "fd", !.ino = i, !.reads = View(inodes[i].name),
                            !.write = TRUE, !.file = fileOf[i]])
    /\ UNCHANGED <<base, baseNo, moved, tombs, gen, commit, p2i, inodes, sourceGen, req, refs,
                   fresh>>

\* open_inode for writing: the copy-up makes the cached member stale.
OpenWrite(i) ==
    /\ Begins
    /\ Linked(i)
    /\ GateFree
    /\ CopyUp(inodes[i].name)
    /\ written' = written \cup {inodes[i].name}
    /\ inodes' = [inodes EXCEPT ![i].cache = NoFI]
    /\ Put([NoHandle EXCEPT !.kind = "fd", !.ino = i, !.reads = View(inodes[i].name),
                            !.write = TRUE, !.file = fileOf[i]])
    /\ UNCHANGED <<base, baseNo, moved, tombs, gen, commit, p2i, sourceGen, req, refs, fresh>>

\* setattr_metadata_entry with a size on a linked nodeid.
Truncate(i) ==
    /\ Begins
    /\ Linked(i)
    /\ GateFree
    /\ CopyUp(inodes[i].name)
    /\ written' = written \cup {inodes[i].name}
    /\ inodes' = [Swept EXCEPT ![i].cache = NoFI]
    /\ sourceGen' = MaxOf(sourceGen, gen)
    /\ UNCHANGED <<base, baseNo, moved, tombs, gen, commit, p2i, handles, req, refs, fresh>>

\* open_detached for reading.  A parked descriptor is reopened, a member is
\* opened again from the snapshot, metadata alone is refused.
OpenDetached(i) ==
    /\ Begins
    /\ refs[i] > 0
    /\ Detached(inodes[i])
    /\ \/ /\ inodes[i].det.kind = "fd"
          /\ Put([NoHandle EXCEPT !.kind = "fd", !.ino = i, !.reads = inodes[i].det.fi.file,
                                  !.file = fileOf[i]])
          /\ UNCHANGED req
       \/ /\ inodes[i].det.kind = "archive"
          /\ FreeHandles # {}
          /\ req' = [NoReq EXCEPT !.op = "reopen", !.ino = i, !.name = Stale,
                                  !.fi = inodes[i].det.fi, !.pc = "sample"]
          /\ UNCHANGED handles
    /\ UNCHANGED <<store, commit, p2i, inodes, sourceGen, refs, fresh>>

\* read_handle: refresh_source_handle_if_stale reads the generation before it
\* looks the stored path up again.
BeginRead(h) ==
    /\ Begins
    /\ handles[h] # NoHandle
    /\ Sweep
    /\ LET o == handles[h]
       IN  req' = IF o.kind = "source" /\ ~o.det /\ o.gen < gen
                  THEN [NoReq EXCEPT !.op = "read", !.fh = h, !.name = o.name, !.gen = gen,
                                     !.pc = "relook"]
                  ELSE NoReq
    /\ UNCHANGED <<store, commit, p2i, handles, refs, fresh>>

\* The lookup of a stale handle's path; a name that is gone is ENOENT.
Relook ==
    /\ req.pc = "relook"
    /\ req' = IF Lookup(req.name) = NoFI THEN NoReq
              ELSE [req EXCEPT !.fi = Lookup(req.name), !.pc = "refresh"]
    /\ UNCHANGED <<store, commit, tables, refs, fresh>>

\* The refreshed reader replaces the stale one.
Refresh ==
    /\ req.pc = "refresh"
    /\ handles' = [handles EXCEPT ![req.fh].reads = Opens(req.fi), ![req.fh].gen = req.gen]
    /\ Reply
    /\ UNCHANGED <<store, commit, p2i, inodes, sourceGen, refs, fresh>>

\* create_entry of a name that is not there.
Create(n) ==
    /\ Begins
    /\ GateFree
    /\ View(n) = 0
    /\ p2i[n] = 0
    /\ nextFile <= MaxFile
    /\ overlay' = [overlay EXCEPT ![n] = nextFile]
    /\ tombs' = tombs \ {n}
    /\ written' = written \cup {n}
    /\ nextFile' = nextFile + 1
    /\ Allocate(n, [tag |-> "overlay", file |-> nextFile, base |-> 0], 1)
    /\ Put([NoHandle EXCEPT !.kind = "fd", !.ino = nextIno, !.reads = nextFile,
                            !.write = TRUE, !.file = nextFile])
    /\ UNCHANGED <<base, baseNo, moved, gen, commit, sourceGen, req>>

\* readdir hands out numbers without counting a lookup.
ReadDir(n) ==
    /\ Begins
    /\ View(n) # 0
    /\ p2i[n] = 0
    /\ Allocate(n, [NoFI EXCEPT !.file = View(n)], 0)
    /\ UNCHANGED <<store, commit, sourceGen, handles, req, nextFile>>

\* A mutant: no lookup when nothing is cached.
SnapshotCachedOnly(n) ==
    IF p2i[n] = 0 THEN NoFI ELSE inodes[p2i[n]].cache

\* snapshot_file_info: the cached member as it stands, or a lookup.
Snapshot(n) ==
    IF p2i[n] = 0 THEN NoFI
    ELSE IF inodes[p2i[n]].cache # NoFI THEN inodes[p2i[n]].cache ELSE Lookup(n)

\* remove_entry and rename_paths take the snapshot before the overlay's gate.
BeginUnlink(n) ==
    /\ Begins
    /\ View(n) # 0
    /\ req' = [NoReq EXCEPT !.op = "unlink", !.name = n, !.fi = Snapshot(n), !.pc = "core"]
    /\ UNCHANGED <<store, commit, tables, refs, fresh>>

BeginRename(from, to) ==
    /\ Begins
    /\ from # to
    /\ View(from) # 0
    /\ req' = [NoReq EXCEPT !.op = "rename", !.name = from, !.to = to, !.pc = "core",
                            !.fi = Snapshot(to)]
    /\ UNCHANGED <<store, commit, tables, refs, fresh>>

\* park_host: the host file of a name is opened before it goes; an open that
\* fails leaves its metadata, and descriptor exhaustion fails the call.
Parks(n) ==
    IF overlay[n] = 0 THEN {[kind |-> "none", fi |-> NoFI]}
    ELSE {[kind |-> k, fi |-> [tag |-> "overlay", file |-> overlay[n], base |-> 0]] :
             k \in {"fd", "meta"}}

\* unlink_parked, note_dir_changed, detach_unlinked.
Unlink ==
    /\ req.pc = "core"
    /\ req.op = "unlink"
    /\ GateFree
    /\ \E parked \in Parks(req.name) :
          LET i == p2i[req.name]
          IN  inodes' = IF i = 0 THEN inodes
                        ELSE [inodes EXCEPT ![i] = Detach(@, BuildDetached(parked, req.fi))]
    /\ overlay' = [overlay EXCEPT ![req.name] = 0]
    /\ tombs' = tombs \cup Hides(req.name)
    /\ written' = written \ {req.name}
    /\ p2i' = [p2i EXCEPT ![req.name] = 0]
    /\ handles' = MarkDetached(handles, {req.name})
    /\ Reply
    /\ UNCHANGED <<base, baseNo, moved, gen, commit, sourceGen, refs, fresh>>

\* rebind_after_rename: the replaced nodeid is detached, the source's one
\* moves to the new name.
Rebind(parked) ==
    LET src == p2i[req.name]
        old == p2i[req.to]
    IN  /\ p2i' = [p2i EXCEPT ![req.name] = 0, ![req.to] = src]
        /\ inodes' = [i \in Inos |->
              IF i = old THEN Detach(inodes[i], BuildDetached(parked, req.fi))
              ELSE IF i = src THEN [inodes[i] EXCEPT !.name = req.to, !.cache = NoFI]
              ELSE inodes[i]]

\* rename_parked, rebind_after_rename and the handles of both names.
Rename ==
    /\ req.pc = "core"
    /\ req.op = "rename"
    /\ GateFree
    /\ \E parked \in Parks(req.to) : Rebind(parked)
    /\ overlay' = [overlay EXCEPT ![req.to] = View(req.name), ![req.name] = 0]
    /\ tombs' = (tombs \ {req.to}) \cup Hides(req.name)
    /\ written' = (written \ {req.name}) \cup {req.to}
    /\ handles' = MarkDetached(handles, {req.name, req.to})
    /\ Reply
    /\ UNCHANGED <<base, baseNo, moved, gen, commit, sourceGen, refs, fresh>>

\* park_host ran out of descriptors: nothing has changed.
ParkRefused ==
    /\ req.pc = "core"
    /\ overlay[IF req.op = "rename" THEN req.to ELSE req.name] # 0
    /\ GateFree
    /\ overlay' = IF req.op = "rename"
                  THEN [overlay EXCEPT ![req.name] = View(req.name)] ELSE overlay
    /\ Reply
    /\ UNCHANGED <<base, baseNo, moved, tombs, written, gen, commit, tables, refs, fresh>>

\* A mutant: the first FORGET of a detached nodeid drops it.
ForgetDropsAll(i, n) ==
    /\ Begins
    /\ n <= refs[i]
    /\ (\E h \in Handles : handles[h].ino = i) => n < refs[i]
    /\ refs' = [refs EXCEPT ![i] = @ - n]
    /\ LET e == inodes[i]
       IN  inodes' = [inodes EXCEPT ![i] =
              IF Detached(e) THEN NoEntry ELSE [e EXCEPT !.nlookup = @ - n]]
    /\ UNCHANGED <<store, commit, p2i, sourceGen, handles, req, fresh>>

\* forget_nlookup.  The kernel forgets what it holds, and keeps a nodeid it
\* has open.
Forget(i, n) ==
    /\ Begins
    /\ n <= refs[i]
    /\ (\E h \in Handles : handles[h].ino = i) => n < refs[i]
    /\ refs' = [refs EXCEPT ![i] = @ - n]
    /\ LET e == inodes[i]
       IN  inodes' = [inodes EXCEPT ![i] =
              IF Detached(e) /\ e.nlookup = n THEN NoEntry ELSE [e EXCEPT !.nlookup = @ - n]]
    /\ UNCHANGED <<store, commit, p2i, sourceGen, handles, req, fresh>>

\* release
Release(h) ==
    /\ Begins
    /\ handles[h] # NoHandle
    /\ handles' = [handles EXCEPT ![h] = NoHandle]
    /\ UNCHANGED <<store, commit, p2i, inodes, sourceGen, req, refs, fresh>>

-----------------------------------------------------------------------------
(* A live commit: commit_live_inner after the archive was written. *)

Changed == {n \in Names : overlay[n] # 0 \/ n \in tombs}

\* write_open_inodes: a host file that is open for writing stays out.
Busy == {n \in Names : \E h \in Handles : handles[h].write /\ handles[h].file = overlay[n]}

BeginCommit(plan) ==
    /\ commit.pc = "idle"
    /\ baseNo < MaxCommits
    /\ plan # {}
    /\ commit' = [pc |-> "persisted", plan |-> plan]
    /\ UNCHANGED <<store, tables, req, refs, fresh>>

\* The new archive is served.  A plan that removes or rewrites a member
\* moves the members behind it, one that only adds does not.
SwapBase ==
    /\ base' = [n \in Names |-> IF n \in commit.plan THEN overlay[n] ELSE base[n]]
    /\ baseNo' = baseNo + 1
    /\ moved' = IF \E n \in commit.plan : base[n] # 0 THEN baseNo + 1 ELSE moved

Swap ==
    /\ commit.pc = "persisted"
    /\ SwapBase
    /\ commit' = [commit EXCEPT !.pc = "swapped"]
    /\ UNCHANGED <<overlay, tombs, written, gen, tables, req, refs, fresh>>

\* The generation tells the front end to drop its offsets.
Bump ==
    /\ commit.pc = "swapped"
    /\ gen' = gen + 1
    /\ commit' = [commit EXCEPT !.pc = "bumped"]
    /\ UNCHANGED <<base, baseNo, moved, overlay, tombs, written, tables, req, refs, fresh>>

\* forget_committed_overlay
ForgetCommitted ==
    /\ commit.pc = "bumped"
    /\ overlay' = [n \in Names |-> IF n \in commit.plan THEN 0 ELSE overlay[n]]
    /\ tombs' = tombs \ commit.plan
    /\ written' = written \ commit.plan
    /\ commit' = [pc |-> "idle", plan |-> {}]
    /\ UNCHANGED <<base, baseNo, moved, gen, tables, req, refs, fresh>>

-----------------------------------------------------------------------------
Init ==
    /\ base = Archived /\ baseNo = 0 /\ moved = 0
    /\ overlay = [n \in Names |-> 0] /\ tombs = {} /\ written = {} /\ gen = 0
    /\ commit = [pc |-> "idle", plan |-> {}]
    /\ p2i = [n \in Names |-> 0]
    /\ inodes = [i \in Inos |-> NoEntry]
    /\ sourceGen = 0
    /\ handles = [h \in Handles |-> NoHandle]
    /\ req = NoReq
    /\ refs = [i \in Inos |-> 0]
    /\ nextIno = 1
    /\ nextFile = 1 + Cardinality({n \in Names : Archived[n] # 0})
    /\ fileOf = [i \in Inos |-> 0]

Next ==
    \/ \E n \in Names : \/ BeginLookup(n) \/ Create(n) \/ ReadDir(n) \/ BeginUnlink(n)
                        \/ \E to \in Names : BeginRename(n, to)
    \/ \E i \in Inos : \/ BeginGetattr(i) \/ BeginOpen(i) \/ OpenWrite(i) \/ Truncate(i)
                       \/ OpenDetached(i)
                       \/ \E n \in 1..MaxRefs : Forget(i, n)
    \/ \E h \in Handles : BeginRead(h) \/ Release(h)
    \/ Find \/ StoreLookup \/ StoreFi \/ Sample \/ OpenReader \/ OpenOverlay
    \/ Relook \/ Refresh \/ Unlink \/ Rename \/ ParkRefused
    \/ \E plan \in SUBSET (Changed \ Busy) : BeginCommit(plan)
    \/ Swap \/ Bump \/ ForgetCommitted

FuseSpec == Init /\ [][Next]_fuseVars

-----------------------------------------------------------------------------
(* Properties. *)

FIs == [tag : {"none", "archive", "overlay"}, file : 0..MaxFile, base : 0..MaxCommits]
Parked == [kind : {"linked", "fd", "archive", "meta", "missing"}, fi : FIs]

\* Types of the tables: a nodeid the path map names is a linked entry of that
\* name (path_to_ino and inodes are updated together).
FuseTypeOK ==
    /\ base \in [Names -> 0..MaxFile] /\ overlay \in [Names -> 0..MaxFile]
    /\ baseNo \in 0..MaxCommits /\ moved \in 0..baseNo /\ gen \in 0..baseNo
    /\ tombs \subseteq Names /\ written \subseteq Names /\ sourceGen \in 0..gen
    /\ \A n \in Names : overlay[n] # 0 => n \notin tombs
    /\ p2i \in [Names -> 0..MaxIno]
    /\ \A n \in Names : p2i[n] # 0 => /\ inodes[p2i[n]].name = n
                                     /\ ~Detached(inodes[p2i[n]])
    /\ \A i \in Inos : /\ inodes[i].name \in Names \cup {Stale, "none"}
                       /\ inodes[i].cache \in FIs /\ inodes[i].det \in Parked
                       /\ inodes[i].nlookup \in 0..MaxRefs
                       /\ inodes[i].name \in Names => p2i[inodes[i].name] = i
    /\ \A h \in Handles : handles[h].reads \in 0..Garbage /\ handles[h].gen \in 0..gen

\* What GETATTR answers for a nodeid: the parked file or the snapshot of a
\* detached one, the cached member or the file of its name otherwise.
Answer(i) ==
    LET e == inodes[i]
    IN  IF Detached(e) THEN e.det.fi.file
        ELSE IF e.cache # NoFI /\ sourceGen = gen THEN e.cache.file
        ELSE View(e.name)

\* A nodeid the kernel holds answers with the file it was handed out for,
\* whatever was renamed over it, unlinked, created in its place or committed;
\* and a file has one nodeid: a rename carries it along, a create never takes
\* up a nodeid of another file, a commit gives none anew.
NodeidKeepsFile ==
    \A i, j \in Inos : inodes[i] # NoEntry =>
        /\ Answer(i) = fileOf[i]
        /\ i # j /\ inodes[j] # NoEntry => fileOf[i] # fileOf[j]

\* The entry of a nodeid counts the lookups the kernel holds, so the table
\* keeps every nodeid the kernel may still name; and a detached entry, and
\* with it a parked descriptor, lives only while the kernel holds the nodeid:
\* replaced files do not pile up.
CountsAgree ==
    \A i \in Inos :
        /\ inodes[i].nlookup = refs[i]
        /\ Detached(inodes[i]) => refs[i] > 0

\* A cached member is one the overlay has not changed, and its offsets fit
\* the base that is served, unless the next request drops it first.  Between
\* the swap of the base and the new generation the offsets are already old.
CachedMembersFit ==
    \A i \in Inos : inodes[i].cache # NoFI =>
        /\ inodes[i].name \notin written
        /\ \/ inodes[i].cache.base = baseNo
           \/ sourceGen < gen
           \/ commit.pc = "swapped"

\* A handle that reads its file goes on reading it, through renames, unlinks
\* and commits; a refresh that meets a commit may take offsets that are old
\* already, but then keeps an older generation, so that the next read repairs
\* it.  (A handle that never read its file raced with a commit at its open, or
\* took the snapshot of a detached member: it reads Garbage, the offsets of a
\* replaced base.  Not even that one changes over to another file.)
HandlesKeepFile ==
    [][\A h \in Handles :
         /\ handles'[h].reads \in {handles'[h].file, Garbage}
         /\ /\ handles[h] # NoHandle /\ handles'[h] # NoHandle
            /\ handles[h].reads = handles[h].file
            => \/ handles'[h].reads = handles'[h].file
               \/ handles'[h].gen < gen \/ commit.pc = "swapped"]_fuseVars
=============================================================================
