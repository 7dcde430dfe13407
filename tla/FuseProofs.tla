----------------------------- MODULE FuseProofs -----------------------------
(***************************************************************************)
(* The four properties of FuseInodes, for every set of names, every        *)
(* archive and every bound.  The argument rests on one observation: no     *)
(* step of a live commit changes the file that a name shows.  Persisting   *)
(* the plan, swapping the base, bumping the generation and letting the     *)
(* overlay go each leave View alone, so a request that a commit interrupts *)
(* still names its file, and only the place of the file's bytes is stale.  *)
(* That staleness lasts from the swap to the sweep of the caches.          *)
(***************************************************************************)
EXTENDS FuseInodes, FiniteSetTheorems, TLAPS

\* The values of a FileInfo, of what a removed file is parked on, of a path,
\* of an inode entry, of an open handle and of the request in progress.
FI == [tag : {"none", "archive", "overlay"}, file : Nat, base : Nat]
Park == [kind : {"linked", "fd", "archive", "meta", "missing"}, fi : FI]
AnyName == Names \cup {Stale, "none"}
Entry == [name : AnyName, cache : FI, nlookup : Nat, det : Park]
Handle == [kind : {"none", "fd", "source"}, ino : Nat, name : AnyName, reads : Nat,
           gen : Nat, det : BOOLEAN, write : BOOLEAN, file : Nat]
Req == [op : {"idle", "lookup", "getattr", "open", "reopen", "read", "unlink", "rename"},
        pc : {"idle", "find", "store", "overlay", "sample", "reader", "relook", "refresh",
              "core"},
        ino : Nat, name : AnyName, to : AnyName, fi : FI, gen : Nat, fh : Nat]

\* Every variable has its type; the nodeids are drawn from a finite table.
TypeInv ==
    /\ base \in [Names -> Nat] /\ overlay \in [Names -> Nat]
    /\ baseNo \in Nat /\ moved \in Nat /\ gen \in Nat /\ sourceGen \in Nat
    /\ tombs \in SUBSET Names /\ written \in SUBSET Names
    /\ commit \in [pc : {"idle", "persisted", "swapped", "bumped"}, plan : SUBSET Names]
    /\ p2i \in [Names -> 0..MaxIno] /\ inodes \in [Inos -> Entry]
    /\ handles \in [Handles -> Handle] /\ req \in Req /\ refs \in [Inos -> Nat]
    /\ nextIno \in Nat /\ nextFile \in Nat /\ fileOf \in [Inos -> Nat]

\* The store and the commit in progress: the base and the generation go up
\* together but for the moment between swap and bump, a name with an overlay
\* file has no tombstone, and the plan is what the overlay changed and, once
\* the base is swapped, what the base holds.
StoreInv ==
    /\ moved <= baseNo /\ sourceGen <= gen
    /\ baseNo = IF commit.pc = "swapped" THEN gen + 1 ELSE gen
    /\ \A n \in Names : overlay[n] # 0 => n \notin tombs
    /\ \A n \in written : overlay[n] # 0
    /\ commit.pc # "idle" => \A n \in commit.plan : overlay[n] # 0 \/ n \in tombs
    /\ commit.pc \in {"swapped", "bumped"} =>
         \A n \in commit.plan : base[n] = overlay[n]

\* No two names show one file, and a new file is unlike all of them.
ViewInv ==
    /\ nextFile > 0
    /\ \A n \in Names : View(n) < nextFile
    /\ \A m, n \in Names : m # n /\ View(m) # 0 => View(m) # View(n)

\* An entry of the inode table: blank, or linked to a name that shows its
\* file, or detached and parked on a file that no name shows and that the
\* kernel still refers to.
EntryInv(i) ==
    LET e == inodes[i]
    IN  /\ i >= nextIno => e.name = "none"
        /\ e.name = "none" => e = NoEntry
        /\ e.name \in Names => /\ p2i[e.name] = i /\ e.det = NoPark
                               /\ fileOf[i] = View(e.name) /\ View(e.name) # 0
        /\ e.name = Stale => /\ e.det.kind # "linked" /\ e.det.fi.file = fileOf[i]
                             /\ refs[i] > 0 /\ fileOf[i] # 0 /\ fileOf[i] < nextFile
                             /\ \A n \in Names : View(n) # fileOf[i]
        /\ e.nlookup = refs[i]

\* The path map and the table agree, and no two entries are of one file.
TableInv ==
    /\ nextIno > 0
    /\ \A i \in Inos : EntryInv(i)
    /\ \A n \in Names : p2i[n] # 0 => inodes[p2i[n]].name = n
    /\ \A i, j \in Inos : i # j /\ inodes[i].name # "none" /\ inodes[j].name # "none"
         => fileOf[i] # fileOf[j]

\* A member's offsets are those of the base served, or they will be dropped:
\* a sweep is due, or a commit is about to make one due.
Fits(fi) == fi.base = baseNo \/ sourceGen < gen \/ commit.pc = "swapped"

\* A cached FileInfo is of an archive member that its name shows, that has no
\* written overlay file, and it fits.
CacheInv ==
    \A i \in Inos :
        LET e == inodes[i]
        IN  IF e.cache.tag = "none" THEN e.cache = NoFI
            ELSE /\ e.cache.tag = "archive" /\ e.name \in Names
                 /\ e.cache.file = fileOf[i] /\ e.name \notin written
                 /\ Fits(e.cache)

\* A handle reads its own file, or at offsets of a replaced base; one on the
\* source that is not detached has a name that shows its file.
HandleInv ==
    \A h \in Handles :
        LET o == handles[h]
        IN  /\ o.reads \in {o.file, Garbage}
            /\ o.kind = "source" /\ ~o.det => /\ o.name \in Names
                                              /\ View(o.name) = o.file /\ o.file # 0

\* The request's nodeid is still linked to the request's name.
Held == req.ino \in Inos /\ req.name \in Names /\ inodes[req.ino].name = req.name

\* What the request in progress read in its earlier steps is still true of the
\* file it is for, whatever the commit did in between.
ReqInv ==
    /\ req.pc \in {"find", "store"} =>
         /\ req.op \in {"lookup", "getattr", "open"} /\ req.name \in Names
         /\ req.op # "lookup" => Held
    /\ req.pc = "store" =>
         /\ req.fi.tag # "none" /\ req.fi.file = View(req.name) /\ View(req.name) # 0
         /\ req.fi.tag = "archive" => req.name \notin written /\ Fits(req.fi)
    /\ req.pc = "overlay" => Held
    /\ req.pc \in {"sample", "reader"} =>
         /\ req.ino \in Inos /\ req.fi.file = fileOf[req.ino]
         /\ req.op \in {"open", "reopen"} /\ (req.op = "open" => Held)
    /\ req.pc \in {"relook", "refresh"} =>
         /\ req.fh \in Handles /\ req.name \in Names /\ req.gen <= gen
         /\ View(req.name) = handles[req.fh].file
    /\ req.pc = "refresh" =>
         /\ req.fi.file = View(req.name)
         /\ req.fi.tag = "overlay" \/ req.fi.base = baseNo \/ req.gen < gen
              \/ commit.pc = "swapped"
    /\ req.pc = "core" =>
         /\ req.op \in {"unlink", "rename"} /\ req.name \in Names /\ View(req.name) # 0
         /\ req.op = "rename" => req.to \in Names /\ req.to # req.name
         /\ LET t == IF req.op = "rename" THEN req.to ELSE req.name
            IN  p2i[t] # 0 => req.fi.file = View(t) /\ req.fi.tag # "none"

\* The inductive invariant.
FuseInv == /\ TypeInv /\ StoreInv /\ ViewInv /\ TableInv /\ CacheInv /\ HandleInv
           /\ ReqInv

-----------------------------------------------------------------------------
USE FuseAssumption

\* No name is one of the two paths that stand for no name.
LEMMA NamesApart ==
  /\ "none" \notin Names /\ Stale \notin Names /\ Stale # "none"
BY DEF Stale

\* The blank records are well typed.
LEMMA BlankType ==
  /\ NoFI \in FI /\ NoPark \in Park /\ NoEntry \in Entry
  /\ NoHandle \in Handle /\ NoReq \in Req
BY DEF NoFI, NoPark, NoEntry, NoHandle, NoReq, FI, Park, Entry, Handle, Req,
   AnyName, Stale

\* What is not blank shows in one field.
LEMMA BlankFields ==
  /\ NoFI.tag = "none" /\ NoFI.file = 0 /\ NoFI.base = 0
  /\ NoPark.kind = "linked"
  /\ NoEntry.name = "none" /\ NoEntry.cache = NoFI /\ NoEntry.nlookup = 0
  /\ NoEntry.det = NoPark
  /\ NoReq.pc = "idle"
BY DEF NoFI, NoPark, NoEntry, NoReq

\* Every file a name shows is one of the store.
LEMMA ViewType ==
  ASSUME TypeInv, NEW n \in Names
  PROVE  View(n) \in Nat
BY DEF TypeInv, View

\* lookup finds the file of the name, in the base that is served.
LEMMA LookupFinds ==
  ASSUME TypeInv, NEW n \in Names
  PROVE  /\ Lookup(n) \in FI
         /\ Lookup(n).tag = "none" <=> View(n) = 0
         /\ Lookup(n) = NoFI <=> View(n) = 0
         /\ Lookup(n).file = View(n)
         /\ Lookup(n).tag = "archive" => Lookup(n).base = baseNo /\ overlay[n] = 0
BY DEF TypeInv, Lookup, View, FI, NoFI

-----------------------------------------------------------------------------
(* The store.                                                              *)

\* Every name shows the file it showed.
ViewKept == \A n \in Names : View(n)' = View(n)

\* The names show what they showed, whatever else happened.
LEMMA ViewKeeps ==
  ASSUME TypeInv, ViewInv, ViewKept, nextFile' = nextFile
  PROVE  ViewInv'
BY DEF ViewInv, ViewKept

\* A request that leaves the store alone.
LEMMA StoreStays ==
  ASSUME TypeInv, StoreInv, UNCHANGED <<store, commit>>,
         sourceGen' \in {sourceGen, MaxOf(sourceGen, gen)}
  PROVE  StoreInv' /\ ViewKept
BY DEF TypeInv, StoreInv, store, ViewKept, View, MaxOf

\* A copy-up: the name shows the same file from the overlay.
LEMMA CopyUpKeeps ==
  ASSUME TypeInv, StoreInv, NEW n \in Names, CopyUp(n), GateFree, View(n) # 0,
         UNCHANGED <<base, baseNo, moved, tombs, gen, commit>>,
         written' \in {written, written \cup {n}},
         sourceGen' \in {sourceGen, MaxOf(sourceGen, gen)}
  PROVE  StoreInv' /\ ViewKept
BY DEF TypeInv, StoreInv, CopyUp, GateFree, ViewKept, View, MaxOf

\* The steps of a commit: the plan is what the overlay changed, the new base
\* holds it, and the overlay lets go of it.
LEMMA CommitKeeps ==
  ASSUME TypeInv, StoreInv, sourceGen' = sourceGen,
         \/ \E plan \in SUBSET (Changed \ Busy) : BeginCommit(plan)
         \/ Swap \/ Bump \/ ForgetCommitted
  PROVE  StoreInv' /\ ViewKept
<1>1. CASE \E plan \in SUBSET (Changed \ Busy) : BeginCommit(plan)
  BY <1>1 DEF TypeInv, StoreInv, BeginCommit, Changed, store, ViewKept, View
<1>2. CASE Swap
  <2>1. ViewKept
    BY <1>2 DEF TypeInv, StoreInv, Swap, SwapBase, ViewKept, View
  <2>2. StoreInv'
    BY <1>2 DEF TypeInv, StoreInv, Swap, SwapBase
  <2>3. QED
    BY <2>1, <2>2
<1>3. CASE Bump
  BY <1>3 DEF TypeInv, StoreInv, Bump, ViewKept, View
<1>4. CASE ForgetCommitted
  <2>1. ViewKept
    BY <1>4 DEF TypeInv, StoreInv, ForgetCommitted, ViewKept, View
  <2>2. StoreInv'
    BY <1>4 DEF TypeInv, StoreInv, ForgetCommitted
  <2>3. QED
    BY <2>1, <2>2
<1>5. QED
  BY <1>1, <1>2, <1>3, <1>4

-----------------------------------------------------------------------------
(* The tables.                                                             *)

\* The bounds are numbers.
LEMMA Bounds ==
  MaxFile \in Nat /\ MaxIno \in Nat /\ MaxHandles \in Nat /\ MaxRefs \in Nat
BY DEF FuseAssumption

\* A nodeid the path map names is one that can be.
LEMMA InoOf ==
  ASSUME TypeInv, NEW n \in Names, p2i[n] # 0
  PROVE  p2i[n] \in Inos
<1>1. p2i[n] \in 0..MaxIno
  BY DEF TypeInv
<1>2. QED
  BY <1>1, Bounds DEF Inos

\* A step that touches an entry's cached FileInfo and nothing else of it.
Recached(i) ==
  /\ inodes'[i].name = inodes[i].name /\ inodes'[i].det = inodes[i].det
  /\ inodes'[i].nlookup = inodes[i].nlookup
  /\ inodes[i] = NoEntry => inodes'[i] = NoEntry

\* It keeps the table.
LEMMA TableStays ==
  ASSUME TypeInv, TableInv, ViewKept, \A i \in Inos : Recached(i),
         UNCHANGED <<p2i, fileOf, nextIno, nextFile, refs>>
  PROVE  TableInv'
<1>1. \A i \in Inos : EntryInv(i)'
  BY DEF TableInv, EntryInv, Recached, ViewKept, TypeInv, Entry
<1>2. \A n \in Names : p2i'[n] # 0 => inodes'[p2i'[n]].name = n
  BY InoOf DEF TableInv, Recached
<1>3. QED
  BY <1>1, <1>2 DEF TableInv, Recached

\* The sweep drops caches.
LEMMA SweepCaches ==
  ASSUME TypeInv
  PROVE  /\ Swept \in [Inos -> Entry]
         /\ \A i \in Inos :
              /\ Swept[i].name = inodes[i].name /\ Swept[i].det = inodes[i].det
              /\ Swept[i].nlookup = inodes[i].nlookup
              /\ Swept[i].cache \in {inodes[i].cache, NoFI}
              /\ sourceGen < gen => Swept[i].cache = NoFI
              /\ inodes[i] = NoEntry => Swept[i] = NoEntry
<1>1. CASE sourceGen < gen
  <2>1. Swept = [i \in Inos |-> [inodes[i] EXCEPT !.cache = NoFI]]
    BY <1>1 DEF Swept
  <2>2. \A i \in Inos : inodes[i] \in Entry
    BY DEF TypeInv
  <2>3. QED
    BY <2>1, <2>2, BlankType DEF Entry, NoEntry
<1>2. CASE ~(sourceGen < gen)
  BY <1>2 DEF Swept, TypeInv, Entry
<1>3. QED
  BY <1>1, <1>2

\* What a cached FileInfo must fit once the generation was swept for.
LEMMA SweptFits ==
  ASSUME TypeInv, StoreInv, CacheInv, NEW i \in Inos
  PROVE  /\ Swept[i].cache.tag = "none" => Swept[i].cache = NoFI
         /\ Swept[i].cache.tag # "none" =>
              /\ Swept[i].cache = inodes[i].cache /\ Swept[i].cache.tag = "archive"
              /\ inodes[i].name \in Names /\ Swept[i].cache.file = fileOf[i]
              /\ inodes[i].name \notin written
              /\ Swept[i].cache.base = baseNo \/ commit.pc = "swapped"
BY SweepCaches, BlankFields DEF CacheInv, Fits, TypeInv, StoreInv

\* The caches of a table that was swept, and of one that was left alone.
LEMMA SweepKeeps ==
  ASSUME TypeInv, StoreInv, TableInv, CacheInv, Sweep, UNCHANGED <<store,
                                                                   commit,
                                                                   fileOf>>
  PROVE  CacheInv' /\ \A i \in Inos : Recached(i)
<1>1. inodes' = Swept /\ sourceGen' = gen
  BY DEF Sweep, MaxOf, TypeInv, StoreInv
<1>2. \A i \in Inos : Recached(i)
  BY <1>1, SweepCaches DEF Recached
<1>3. CacheInv'
  BY <1>1, <1>2, SweptFits DEF CacheInv, Recached, Fits, store
<1>4. QED
  BY <1>2, <1>3

\* Handles nobody touched.
LEMMA HandlesStay ==
  ASSUME TypeInv, HandleInv, ViewKept, handles' = handles
  PROVE  HandleInv'
BY DEF HandleInv, ViewKept, TypeInv

\* A new handle.
LEMMA PutKeeps ==
  ASSUME TypeInv, HandleInv, ViewKept, NEW o \in Handle, Put(o),
         o.reads \in {o.file, Garbage},
         o.kind = "source" /\ ~o.det =>
           o.name \in Names /\ View(o.name) = o.file /\ o.file # 0
  PROVE  HandleInv' /\ handles' \in [Handles -> Handle]
<1>1. PICK fh \in Handles : handles' = [handles EXCEPT ![fh] = o]
  BY DEF Put, FreeHandles
<1>2. QED
  BY <1>1 DEF HandleInv, ViewKept, TypeInv

\* An answered request leaves nothing to keep.
LEMMA Answered ==
  ASSUME req' = NoReq
  PROVE  ReqInv' /\ req' \in Req
BY BlankType DEF ReqInv, NoReq

\* The bytes of a FileInfo: its file, or the offsets of a replaced base.
LEMMA OpensFile ==
  ASSUME NEW fi
  PROVE  Opens(fi) \in {fi.file, Garbage}
BY DEF Opens

-----------------------------------------------------------------------------
(* Requests that look a file up.                                           *)

\* All that the invariant says but of the request itself, after the step.
Untouched == TypeInv' /\ StoreInv' /\ ViewInv' /\ TableInv' /\ CacheInv' /\ HandleInv'

\* A request that sweeps the table and does no more than go on.
LEMMA SweepStep ==
  ASSUME FuseInv, Sweep, UNCHANGED <<store, commit, p2i, handles, refs,
                                     fresh>>,
         req' \in Req
  PROVE  Untouched /\ ViewKept
<1>1. TypeInv /\ StoreInv /\ ViewInv /\ TableInv /\ CacheInv /\ HandleInv
  BY DEF FuseInv
<1>2. sourceGen' = MaxOf(sourceGen, gen) /\ inodes' = Swept
  BY DEF Sweep
<1>3. StoreInv' /\ ViewKept
  BY <1>1, <1>2, StoreStays
<1>4. ViewInv' /\ HandleInv'
  BY <1>1, <1>3, ViewKeeps, HandlesStay DEF fresh
<1>5. CacheInv' /\ TableInv'
  BY <1>1, <1>3, SweepKeeps, TableStays DEF fresh
<1>6. TypeInv'
  BY <1>1, <1>2, SweepCaches DEF TypeInv, store, fresh, MaxOf
<1>7. QED
  BY <1>3, <1>4, <1>5, <1>6 DEF Untouched

\* A request that only goes on.
LEMMA IdleStep ==
  ASSUME FuseInv, UNCHANGED <<store, commit, tables, refs, fresh>>,
                              req' \in Req
  PROVE  Untouched /\ ViewKept
<1>1. TypeInv /\ StoreInv /\ ViewInv /\ TableInv /\ CacheInv /\ HandleInv
  BY DEF FuseInv
<1>2. StoreInv' /\ ViewKept
  BY <1>1, StoreStays DEF tables
<1>3. ViewInv' /\ HandleInv'
  BY <1>1, <1>2, ViewKeeps, HandlesStay DEF fresh, tables
<1>4. TableInv'
  BY <1>1, <1>2, TableStays DEF fresh, tables, Recached
<1>5. CacheInv'
  BY <1>1 DEF CacheInv, Fits, store, tables, fresh
<1>6. TypeInv'
  BY <1>1 DEF TypeInv, store, tables, fresh
<1>7. QED
  BY <1>2, <1>3, <1>4, <1>5, <1>6 DEF Untouched

\* A linked nodeid has a name, and the name shows its file.
LEMMA LinkedName ==
  ASSUME FuseInv, NEW i \in Inos, Linked(i)
  PROVE  /\ inodes[i].name \in Names /\ i \in Nat
         /\ View(inodes[i].name) = fileOf[i] /\ fileOf[i] # 0
<1>1. inodes[i].name \in Names
  BY DEF Linked, Detached, FuseInv, TypeInv, TableInv, EntryInv, Entry,
    AnyName, NoPark
<1>2. QED
  BY <1>1, Bounds DEF FuseInv, TableInv, EntryInv, Inos

\* What the sweep leaves cached of a nodeid is the member its name shows.
LEMMA CachedName ==
  ASSUME FuseInv, NEW i \in Inos
  PROVE  /\ Swept[i].cache \in FI
         /\ Swept[i].cache # NoFI =>
              /\ Swept[i].cache.tag = "archive" /\ inodes[i].name \in Names
              /\ Swept[i].cache.file = View(inodes[i].name)
              /\ View(inodes[i].name) # 0 /\ View(inodes[i].name) = fileOf[i]
              /\ inodes[i].name \notin written
              /\ Swept[i].cache.base = baseNo \/ commit.pc = "swapped"
<1>1. TypeInv /\ StoreInv /\ CacheInv /\ TableInv
  BY DEF FuseInv
<1>2. Swept[i].cache \in FI
  BY <1>1, SweepCaches DEF Entry
<1>3. ASSUME Swept[i].cache # NoFI
      PROVE  fileOf[i] = View(inodes[i].name) /\ View(inodes[i].name) # 0
  BY <1>1, <1>3, SweptFits DEF TableInv, EntryInv
<1>4. QED
  BY <1>1, <1>2, <1>3, SweptFits

\* A file that is looked up, or found cached.
LEMMA BeginLookupKeeps ==
  ASSUME FuseInv, NEW n \in Names, BeginLookup(n)
  PROVE  FuseInv'
<1> DEFINE fi == CachedAt(Swept, p2i[n])
<1>1. /\ UNCHANGED <<store, commit, p2i, handles, refs, fresh>> /\ Sweep
      /\ req' = [NoReq EXCEPT !.op = "lookup", !.name = n, !.fi = fi,
                              !.pc = IF fi = NoFI THEN "find" ELSE "store"]
  BY DEF BeginLookup
<1>2. /\ fi \in FI
      /\ fi # NoFI => /\ fi.tag = "archive" /\ fi.file = View(n) /\ View(n) # 0
                      /\ n \notin written
                      /\ fi.base = baseNo \/ commit.pc = "swapped"
  <2>1. CASE p2i[n] = 0
    BY <2>1, BlankType DEF CachedAt
  <2>2. CASE p2i[n] # 0
    <3>1. p2i[n] \in Inos /\ fi = Swept[p2i[n]].cache /\ inodes[p2i[n]].name = n
      BY <2>2, InoOf DEF CachedAt, TableInv, FuseInv
    <3>2. QED
      BY <3>1, CachedName
  <2>3. QED
    BY <2>1, <2>2
<1> HIDE DEF fi
<1>3. /\ req' \in Req /\ req'.op = "lookup" /\ req'.name = n /\ req'.fi = fi
      /\ req'.pc = IF fi = NoFI THEN "find" ELSE "store"
  BY <1>1, <1>2, BlankType DEF Req, AnyName, NoReq
<1>4. Untouched /\ ViewKept
  BY <1>1, <1>3, SweepStep
<1>5. ReqInv'
  BY <1>1, <1>2, <1>3, <1>4 DEF ReqInv, Fits, ViewKept, store
<1>6. QED
  BY <1>4, <1>5 DEF FuseInv, Untouched

\* A getattr answers from the cache or goes on to a lookup.
LEMMA BeginGetattrKeeps ==
  ASSUME FuseInv, NEW i \in Inos, BeginGetattr(i)
  PROVE  FuseInv'
<1>1. /\ UNCHANGED <<store, commit, p2i, handles, refs,
                     fresh>> /\ Sweep /\ Linked(i)
      /\ req' = IF CachedAt(Swept, i) # NoFI THEN NoReq
                ELSE [NoReq EXCEPT !.op = "getattr", !.ino = i, !.name = inodes[i].name,
                                   !.pc = "find"]
  BY DEF BeginGetattr
<1>2. req' \in Req /\ ReqInv'
  <2>1. CASE req' = NoReq
    BY <2>1, Answered
  <2>2. CASE req' # NoReq
    <3>1. /\ req' \in Req /\ req'.op = "getattr" /\ req'.name = inodes[i].name
          /\ req'.pc = "find" /\ req'.ino = i /\ inodes[i].name \in Names
      BY <1>1, <2>2, LinkedName, BlankType DEF Req, AnyName, NoReq
    <3>2. inodes'[i].name = inodes[i].name
      BY <1>1, SweepCaches DEF FuseInv, Sweep
    <3>3. QED
      BY <3>1, <3>2 DEF ReqInv, Held
  <2>3. QED
    BY <2>1, <2>2
<1>3. QED
  BY <1>1, <1>2, SweepStep DEF FuseInv, Untouched

\* An open takes the overlay's descriptor, or the cached member, or a lookup.
LEMMA BeginOpenKeeps ==
  ASSUME FuseInv, NEW i \in Inos, BeginOpen(i)
  PROVE  FuseInv'
<1> DEFINE n == inodes[i].name
           fi == CachedAt(Swept, i)
<1>1. /\ UNCHANGED <<store, commit, p2i, handles, refs, fresh>> /\ Linked(i)
      /\ \/ /\ req' = [NoReq EXCEPT !.op = "open", !.ino = i, !.name = n,
                                    !.pc = "overlay"]
            /\ UNCHANGED <<inodes, sourceGen>>
         \/ /\ Sweep
            /\ req' = [NoReq EXCEPT !.op = "open", !.ino = i, !.name = n, !.fi = fi,
                                    !.pc = IF fi = NoFI THEN "find" ELSE "sample"]
  BY DEF BeginOpen
<1>2. n \in Names /\ View(n) = fileOf[i] /\ i \in Nat
  BY <1>1, LinkedName
<1>3. fi \in FI /\ (fi # NoFI => fi.file = fileOf[i])
  BY CachedName DEF CachedAt, Inos
<1>4. CASE /\ req' = [NoReq EXCEPT !.op = "open", !.ino = i, !.name = n,
                                   !.pc = "overlay"]
           /\ UNCHANGED <<inodes, sourceGen>>
  <2>1. /\ req' \in Req /\ req'.op = "open" /\ req'.ino = i /\ req'.name = n
        /\ req'.pc = "overlay"
    BY <1>2, <1>4, BlankType DEF Req, AnyName, NoReq
  <2>2. Untouched
    BY <1>1, <1>4, <2>1, IdleStep DEF tables
  <2>3. ReqInv'
    BY <1>2, <1>4, <2>1 DEF ReqInv, Held
  <2>4. QED
    BY <2>2, <2>3 DEF FuseInv, Untouched
<1>5. CASE /\ Sweep
           /\ req' = [NoReq EXCEPT !.op = "open", !.ino = i, !.name = n, !.fi = fi,
                                   !.pc = IF fi = NoFI THEN "find" ELSE "sample"]
  <2> HIDE DEF fi
  <2>1. /\ req' \in Req /\ req'.op = "open" /\ req'.ino = i /\ req'.name = n
        /\ req'.fi = fi /\ req'.pc = IF fi = NoFI THEN "find" ELSE "sample"
    BY <1>2, <1>3, <1>5, BlankType DEF Req, AnyName, NoReq
  <2>2. Untouched
    BY <1>1, <1>5, <2>1, SweepStep
  <2>3. inodes'[i].name = n /\ fileOf' = fileOf
    BY <1>1, <1>5, SweepCaches DEF FuseInv, Sweep, fresh
  <2>4. ReqInv'
    BY <1>2, <1>3, <2>1, <2>3 DEF ReqInv, Held
  <2>5. QED
    BY <2>2, <2>4 DEF FuseInv, Untouched
<1>6. QED
  BY <1>1, <1>4, <1>5

\* The lookup of a request that had nothing cached.
LEMMA FindKeeps ==
  ASSUME FuseInv, Find
  PROVE  FuseInv'
<1>1. /\ req.pc = "find" /\ UNCHANGED <<store, commit, tables, refs, fresh>>
      /\ req' = IF Lookup(req.name) = NoFI THEN NoReq
                ELSE [req EXCEPT !.fi = Lookup(req.name), !.pc = "store"]
  BY DEF Find
<1>2. req \in Req /\ req.name \in Names /\ TypeInv
  BY <1>1 DEF FuseInv, TypeInv, ReqInv
<1>3. CASE Lookup(req.name) = NoFI
  <2>1. ReqInv' /\ req' \in Req
    BY <1>1, <1>3, Answered
  <2>2. QED
    BY <1>1, <2>1, IdleStep DEF FuseInv, Untouched
<1>4. CASE Lookup(req.name) # NoFI
  <2>1. /\ req' \in Req /\ req'.pc = "store" /\ req'.op = req.op
        /\ req'.name = req.name /\ req'.fi = Lookup(req.name) /\ req'.ino = req.ino
    BY <1>1, <1>2, <1>4, LookupFinds DEF Req
  <2>2. Untouched /\ ViewKept
    BY <1>1, <2>1, IdleStep
  <2>3. Lookup(req.name).tag = "archive" => req.name \notin written
    BY <1>2, LookupFinds DEF FuseInv, StoreInv
  <2>4. ReqInv'
    BY <1>1, <1>2, <1>4, <2>1, <2>2, <2>3, LookupFinds
       DEF ReqInv, Held, Fits, FuseInv, ViewKept, store, tables
  <2>5. QED
    BY <2>2, <2>4 DEF FuseInv, Untouched
<1>5. QED
  BY <1>3, <1>4

\* Only the cached FileInfo of a linked entry changes, and only a member that
\* the overlay does not shadow is kept.
LEMMA WrittenCache ==
  ASSUME NEW e \in Entry, e.det = NoPark, NEW fi \in FI
  PROVE  /\ WriteCache(e, fi) \in Entry
         /\ WriteCache(e, fi).name = e.name /\ WriteCache(e, fi).det = e.det
         /\ WriteCache(e, fi).nlookup = e.nlookup
         /\ WriteCache(e, fi).cache = IF fi.tag = "archive" THEN fi ELSE NoFI
BY BlankType DEF WriteCache, Detached, Cached, Entry

\* The nodeid of a request that goes on is linked.
LEMMA HeldName ==
  ASSUME FuseInv, Held
  PROVE  /\ inodes[req.ino] \in Entry /\ inodes[req.ino].det = NoPark
         /\ inodes[req.ino].name = req.name /\ inodes[req.ino] # NoEntry
         /\ View(req.name) = fileOf[req.ino] /\ fileOf[req.ino] # 0
BY NamesApart DEF FuseInv, TypeInv, TableInv, EntryInv, Held, NoEntry

\* store_fi keeps the member found, if no mutation came in between.
LEMMA StoreFiKeeps ==
  ASSUME FuseInv, StoreFi
  PROVE  FuseInv'
<1> DEFINE i == req.ino
<1>1. /\ req.pc = "store" /\ req.op \in {"getattr", "open"}
      /\ inodes' = [inodes EXCEPT ![i] = WriteCache(inodes[i], req.fi)]
      /\ req' = IF req.op = "open" THEN [req EXCEPT !.pc = "sample"] ELSE NoReq
      /\ UNCHANGED <<store, commit, p2i, sourceGen, handles, refs, fresh>>
  BY DEF StoreFi
<1>2. /\ req \in Req /\ req.fi \in FI /\ Held /\ i \in Inos
      /\ req.fi.file = View(req.name)
      /\ req.fi.tag = "archive" => req.name \notin written /\ Fits(req.fi)
  BY <1>1 DEF FuseInv, TypeInv, Req, ReqInv, Held
<1>3. /\ inodes[i] \in Entry /\ inodes[i].det = NoPark /\ inodes[i].name = req.name
      /\ inodes[i] # NoEntry /\ View(req.name) = fileOf[i]
  BY <1>2, HeldName
<1>4. TypeInv /\ StoreInv /\ ViewInv /\ TableInv /\ CacheInv /\ HandleInv
  BY DEF FuseInv
<1>5. StoreInv' /\ ViewKept
  BY <1>1, <1>4, StoreStays
<1>6. /\ inodes' \in [Inos -> Entry]
      /\ inodes'[i] = WriteCache(inodes[i], req.fi)
      /\ \A j \in Inos : j # i => inodes'[j] = inodes[j]
  BY <1>1, <1>2, <1>3, <1>4, WrittenCache DEF TypeInv
<1>7. \A j \in Inos : Recached(j)
  BY <1>2, <1>3, <1>6, WrittenCache DEF Recached
<1>8. CacheInv'
  BY <1>1, <1>2, <1>3, <1>4, <1>6, WrittenCache, BlankFields
     DEF CacheInv, Fits, Held, store, fresh
<1>9. req' \in Req /\ ReqInv'
  <2>1. CASE req.op = "open"
    <3>1. /\ req' \in Req /\ req'.pc = "sample" /\ req'.op = "open" /\ req'.ino = i
          /\ req'.name = req.name /\ req'.fi = req.fi
      BY <1>1, <1>2, <2>1 DEF Req
    <3>2. QED
      BY <1>1, <1>2, <1>3, <1>7, <3>1 DEF ReqInv, Held, Recached, fresh
  <2>2. CASE req.op # "open"
    BY <1>1, <2>2, Answered
  <2>3. QED
    BY <2>1, <2>2
<1>10. ViewInv' /\ HandleInv' /\ TableInv'
  BY <1>1, <1>4, <1>5, <1>7, ViewKeeps, HandlesStay, TableStays DEF fresh
<1>11. TypeInv'
  BY <1>1, <1>4, <1>6, <1>9 DEF TypeInv, store, fresh
<1>12. QED
  BY <1>5, <1>8, <1>9, <1>10, <1>11 DEF FuseInv

\* The generation is read.
LEMMA SampleKeeps ==
  ASSUME FuseInv, Sample
  PROVE  FuseInv'
<1>1. /\ req.pc = "sample" /\ UNCHANGED <<store, commit, tables, refs, fresh>>
      /\ req' = [req EXCEPT !.gen = gen, !.pc = "reader"]
  BY DEF Sample
<1>2. /\ req' \in Req /\ req'.pc = "reader" /\ req'.op = req.op /\ req'.ino = req.ino
      /\ req'.name = req.name /\ req'.fi = req.fi
  BY <1>1 DEF FuseInv, TypeInv, Req
<1>3. ReqInv'
  BY <1>1, <1>2 DEF FuseInv, ReqInv, Held, tables, fresh
<1>4. QED
  BY <1>1, <1>2, <1>3, IdleStep DEF FuseInv, Untouched

\* A step that hands out a handle and answers, with the tables as they were.
LEMMA PutStep ==
  ASSUME FuseInv, NEW o \in Handle, Put(o), req' = NoReq,
         o.reads \in {o.file, Garbage},
         o.kind = "source" /\ ~o.det =>
           o.name \in Names /\ View(o.name) = o.file /\ o.file # 0,
         UNCHANGED <<store, commit, p2i, inodes, sourceGen, refs, fresh>>
  PROVE  FuseInv'
<1>1. TypeInv /\ StoreInv /\ ViewInv /\ TableInv /\ CacheInv /\ HandleInv
  BY DEF FuseInv
<1>2. StoreInv' /\ ViewKept
  BY <1>1, StoreStays
<1>3. HandleInv' /\ handles' \in [Handles -> Handle]
  BY <1>1, <1>2, PutKeeps
<1>4. ViewInv' /\ TableInv'
  BY <1>1, <1>2, ViewKeeps, TableStays DEF fresh, Recached
<1>5. CacheInv'
  BY <1>1 DEF CacheInv, Fits, store, fresh
<1>6. req' \in Req /\ ReqInv'
  BY Answered
<1>7. TypeInv'
  BY <1>1, <1>3, <1>6 DEF TypeInv, store, fresh
<1>8. QED
  BY <1>2, <1>3, <1>4, <1>5, <1>6, <1>7 DEF FuseInv

\* The reader of an open, or of a detached member opened again.
LEMMA OpenReaderKeeps ==
  ASSUME FuseInv, OpenReader
  PROVE  FuseInv'
<1> DEFINE o == [kind |-> "source", ino |-> req.ino, name |-> req.name,
                 reads |-> Opens(req.fi), gen |-> req.gen, det |-> req.op = "reopen",
                 write |-> FALSE, file |-> fileOf[req.ino]]
<1>1. /\ req.pc = "reader" /\ Put(o) /\ req' = NoReq
      /\ UNCHANGED <<store, commit, p2i, inodes, sourceGen, refs, fresh>>
  BY DEF OpenReader, Reply
<1>2. /\ req \in Req /\ req.ino \in Inos /\ req.fi.file = fileOf[req.ino]
      /\ req.op \in {"open", "reopen"} /\ (req.op = "open" => Held)
  BY <1>1 DEF FuseInv, TypeInv, ReqInv
<1>3. Opens(req.fi) \in {fileOf[req.ino], Garbage} /\ Opens(req.fi) \in Nat
  BY <1>2, OpensFile, Bounds DEF FuseInv, TypeInv, Garbage
<1>4. o \in Handle
  BY <1>2, <1>3 DEF FuseInv, TypeInv, Handle, Req
<1>5. o.kind = "source" /\ ~o.det =>
        o.name \in Names /\ View(o.name) = o.file /\ o.file # 0
  BY <1>2, HeldName DEF Held
<1>6. QED
  BY <1>1, <1>3, <1>4, <1>5, PutStep

-----------------------------------------------------------------------------
(* New nodeids.                                                            *)

\* The entry a name gets.
NewEntry(n, fi, count) ==
  [name |-> n, cache |-> Cached(fi), nlookup |-> count, det |-> NoPark]

\* A fresh nodeid changes no other entry.
LEMMA Allocated ==
  ASSUME TypeInv, TableInv, NEW n \in Names, NEW fi \in FI, NEW count \in {0, 1},
         Allocate(n, fi, count)
  PROVE  /\ nextIno \in Inos /\ nextIno' = nextIno + 1 /\ inodes[nextIno] = NoEntry
         /\ p2i' \in [Names -> 0..MaxIno] /\ p2i'[n] = nextIno
         /\ \A m \in Names : m # n => p2i'[m] = p2i[m]
         /\ inodes' \in [Inos -> Entry]
         /\ inodes'[nextIno].name = n /\ inodes'[nextIno].cache = Cached(fi)
         /\ inodes'[nextIno].nlookup = count /\ inodes'[nextIno].det = NoPark
         /\ fileOf' \in [Inos -> Nat] /\ fileOf'[nextIno] = fi.file
         /\ refs' \in [Inos -> Nat] /\ refs'[nextIno] = count
         /\ \A j \in Inos : j # nextIno => /\ inodes'[j] = inodes[j]
                                           /\ fileOf'[j] = fileOf[j] /\ refs'[j] = refs[j]
<1>1. /\ nextIno \in Inos /\ nextIno \in 0..MaxIno /\ nextIno' = nextIno + 1
      /\ p2i' = [p2i EXCEPT ![n] = nextIno]
      /\ inodes' = [inodes EXCEPT ![nextIno] = NewEntry(n, fi, count)]
      /\ fileOf' = [fileOf EXCEPT ![nextIno] = fi.file]
      /\ refs' = [refs EXCEPT ![nextIno] = count]
  BY Bounds DEF Allocate, NewEntry, TypeInv, TableInv, Inos
<1>2. NewEntry(n, fi, count) \in Entry
  BY BlankType DEF NewEntry, Cached, Entry, AnyName
<1>3. inodes[nextIno] = NoEntry
  BY <1>1 DEF TableInv, EntryInv, TypeInv
<1>4. /\ inodes' \in [Inos -> Entry] /\ inodes'[nextIno] = NewEntry(n, fi, count)
      /\ \A j \in Inos : j # nextIno => inodes'[j] = inodes[j]
  BY <1>1, <1>2 DEF TypeInv
<1>5. /\ p2i' \in [Names -> 0..MaxIno] /\ fileOf' \in [Inos -> Nat]
      /\ refs' \in [Inos -> Nat]
  BY <1>1 DEF TypeInv, FI
<1>6. QED
  BY <1>1, <1>3, <1>4, <1>5 DEF TypeInv, NewEntry

\* The new entry is the only one of its file.
LEMMA AllocateKeeps ==
  ASSUME TypeInv, ViewInv, TableInv, NEW n \in Names, NEW fi \in FI,
         NEW count \in {0, 1}, Allocate(n, fi, count), p2i[n] = 0,
         fi.file # 0, View(n)' = fi.file,
         View(n) = fi.file \/ (View(n) = 0 /\ fi.file = nextFile),
         \A m \in Names : m # n => View(m)' = View(m),
         nextFile' \in Nat, nextFile <= nextFile'
  PROVE  TableInv'
<1> DEFINE k == nextIno
<1>1. /\ k \in Inos /\ nextIno' = k + 1 /\ inodes[k] = NoEntry /\ k \in Nat
      /\ p2i'[n] = k /\ \A m \in Names : m # n => p2i'[m] = p2i[m]
      /\ inodes'[k].name = n /\ inodes'[k].det = NoPark /\ inodes'[k].nlookup = count
      /\ fileOf'[k] = fi.file /\ refs'[k] = count
      /\ \A j \in Inos : j # k => /\ inodes'[j] = inodes[j]
                                  /\ fileOf'[j] = fileOf[j] /\ refs'[j] = refs[j]
  <2>1. k \in Nat
    BY DEF TypeInv
  <2>2. QED
    BY <2>1, Allocated
<1>2. ASSUME NEW j \in Inos, j # k PROVE inodes[j].name # n
  BY <1>2 DEF TableInv, EntryInv, Inos
<1>3. ASSUME NEW j \in Inos, inodes[j].name # "none", j # k
      PROVE  fileOf[j] # fi.file
  <2>1. inodes[j].name \in Names \cup {Stale}
    BY <1>3 DEF TypeInv, Entry, AnyName
  <2>2. CASE inodes[j].name = Stale
    <3>1. fileOf[j] \in Nat /\ fileOf[j] < nextFile /\ View(n) # fileOf[j]
      BY <2>2 DEF TableInv, EntryInv, TypeInv
    <3>2. QED
      BY <3>1 DEF TypeInv
  <2>3. CASE inodes[j].name \in Names
    <3>1. /\ fileOf[j] = View(inodes[j].name) /\ inodes[j].name # n
          /\ View(inodes[j].name) # 0 /\ View(inodes[j].name) < nextFile
          /\ View(inodes[j].name) # View(n) /\ View(inodes[j].name) \in Nat
      BY <1>2, <1>3, <2>3, ViewType DEF TableInv, EntryInv, ViewInv
    <3>2. QED
      BY <3>1 DEF TypeInv
  <2>4. QED
    BY <2>1, <2>2, <2>3
<1>4. ASSUME NEW j \in Inos PROVE EntryInv(j)'
  <2> j \in Nat
    BY Bounds DEF Inos
  <2>1. CASE j = k
    BY <1>1, <2>1, NamesApart DEF EntryInv
  <2>2. CASE j # k /\ inodes[j].name = Stale
    <3>1. /\ inodes'[j] = inodes[j] /\ fileOf'[j] = fileOf[j] /\ refs'[j] = refs[j]
          /\ EntryInv(j) /\ fileOf[j] \in Nat
      BY <1>1, <2>2 DEF TableInv, TypeInv
    <3>2. \A m \in Names : View(m)' # fileOf[j]
      BY <1>3, <2>2, <3>1, NamesApart DEF EntryInv
    <3>3. QED
      BY <1>1, <2>2, <3>1, <3>2, NamesApart DEF EntryInv, TypeInv
  <2>3. CASE j # k /\ inodes[j].name # Stale
    <3>1. /\ inodes'[j] = inodes[j] /\ fileOf'[j] = fileOf[j] /\ refs'[j] = refs[j]
          /\ EntryInv(j) /\ inodes[j].name # n
      BY <1>1, <1>2, <2>3 DEF TableInv
    <3>2. QED
      BY <1>1, <2>3, <3>1 DEF EntryInv, TypeInv
  <2>4. QED
    BY <2>1, <2>2, <2>3
<1>5. \A m \in Names : p2i'[m] # 0 => inodes'[p2i'[m]].name = m
  <2>1. ASSUME NEW m \in Names, m # n, p2i[m] # 0 PROVE inodes'[p2i[m]].name = m
    <3>1. p2i[m] \in Inos /\ inodes[p2i[m]].name = m
      BY <2>1, InoOf DEF TableInv
    <3>2. p2i[m] # k
      BY <1>1, <3>1, NamesApart, BlankFields
    <3>3. QED
      BY <1>1, <3>1, <3>2
  <2>2. QED
    BY <1>1, <2>1
<1>6. ASSUME NEW i \in Inos, NEW j \in Inos, i # j, inodes'[i].name # "none",
             inodes'[j].name # "none"
      PROVE  fileOf'[i] # fileOf'[j]
  BY <1>1, <1>3, <1>6 DEF TableInv
<1>7. QED
  BY <1>1, <1>4, <1>5, <1>6 DEF TableInv

\* Its cache, if any, is a member of the base that is served.
LEMMA AllocateCaches ==
  ASSUME TypeInv, TableInv, CacheInv, NEW n \in Names, NEW fi \in FI,
         NEW count \in {0, 1}, Allocate(n, fi, count), p2i[n] = 0,
         UNCHANGED <<baseNo, gen, commit, sourceGen>>,
         written' \in {written, written \cup {n}},
         fi.tag = "archive" => written' = written /\ n \notin written /\ Fits(fi)
  PROVE  CacheInv'
<1> DEFINE k == nextIno
<1>1. /\ k \in Inos /\ inodes'[k].name = n /\ inodes'[k].cache = Cached(fi)
      /\ fileOf'[k] = fi.file
      /\ \A j \in Inos : j # k => inodes'[j] = inodes[j] /\ fileOf'[j] = fileOf[j]
  BY Allocated
<1>2. ASSUME NEW j \in Inos, j # k PROVE inodes[j].name # n
  BY <1>2 DEF TableInv, EntryInv, Inos
<1>3. QED
  BY <1>1, <1>2, BlankFields DEF CacheInv, Cached, Fits

\* A lookup's reply: a new nodeid, or one more lookup of the old one.
LEMMA StoreLookupKeeps ==
  ASSUME FuseInv, StoreLookup
  PROVE  FuseInv'
<1>0. PICK n \in Names : n = req.name
  BY DEF FuseInv, ReqInv, StoreLookup
<1>1. /\ req.pc = "store" /\ req.op = "lookup" /\ req' = NoReq
      /\ UNCHANGED <<store, commit, sourceGen, handles, nextFile>>
  BY DEF StoreLookup, Reply
<1>2. TypeInv /\ StoreInv /\ ViewInv /\ TableInv /\ CacheInv /\ HandleInv
  BY DEF FuseInv
<1>3. /\ req.fi \in FI /\ req.fi.file = View(n) /\ View(n) # 0
      /\ req.fi.tag = "archive" => n \notin written /\ Fits(req.fi)
  BY <1>0, <1>1 DEF FuseInv, TypeInv, Req, ReqInv
<1>4. StoreInv' /\ ViewKept
  BY <1>1, <1>2, StoreStays
<1>5. ViewInv' /\ HandleInv' /\ req' \in Req /\ ReqInv'
  BY <1>1, <1>2, <1>4, ViewKeeps, HandlesStay, Answered
<1>6. CASE p2i[n] = 0
  <2>1. Allocate(n, req.fi, 1)
    BY <1>0, <1>6 DEF StoreLookup
  <2>2. TableInv'
    BY <1>1, <1>2, <1>3, <1>4, <1>6, <2>1, AllocateKeeps DEF ViewKept, TypeInv
  <2>3. CacheInv'
    BY <1>1, <1>2, <1>3, <1>6, <2>1, AllocateCaches DEF store
  <2>4. TypeInv'
    BY <1>1, <1>2, <1>3, <1>5, <2>1, Allocated DEF TypeInv, store
  <2>5. QED
    BY <1>4, <1>5, <2>2, <2>3, <2>4 DEF FuseInv
<1>7. CASE p2i[n] # 0
  <2>0. PICK i \in Inos : i = p2i[n]
    BY <1>2, <1>7, InoOf
  <2> DEFINE e == WriteCache(inodes[i], req.fi)
  <2>1. inodes[i].name = n
    BY <1>2, <1>7, <2>0 DEF TableInv
  <2>2. /\ inodes[i] \in Entry /\ inodes[i].det = NoPark /\ fileOf[i] = View(n)
        /\ inodes[i].nlookup = refs[i] /\ refs[i] \in Nat
    BY <1>2, <1>3, <2>1 DEF TypeInv, TableInv, EntryInv
  <2>3. /\ inodes' = [inodes EXCEPT ![i] = BumpNlookup(e)]
        /\ refs' = [refs EXCEPT ![i] = @ + 1] /\ UNCHANGED <<p2i, nextIno,
                                                             fileOf>>
    BY <1>0, <1>7, <2>0 DEF StoreLookup
  <2>4. /\ e \in Entry /\ e.name = n /\ e.det = NoPark /\ e.nlookup = refs[i]
        /\ e.cache = IF req.fi.tag = "archive" THEN req.fi ELSE NoFI
    BY <1>3, <2>1, <2>2, WrittenCache
  <2> HIDE DEF e
  <2>5. /\ inodes' \in [Inos -> Entry] /\ refs' \in [Inos -> Nat]
        /\ inodes'[i].name = n /\ inodes'[i].det = NoPark /\ inodes'[i].cache = e.cache
        /\ inodes'[i].nlookup = refs[i] + 1 /\ refs'[i] = refs[i] + 1
        /\ \A j \in Inos : j # i => inodes'[j] = inodes[j] /\ refs'[j] = refs[j]
    <3>1. /\ BumpNlookup(e) \in Entry /\ BumpNlookup(e).name = n
          /\ BumpNlookup(e).det = NoPark /\ BumpNlookup(e).cache = e.cache
          /\ BumpNlookup(e).nlookup = refs[i] + 1
      BY <2>2, <2>4 DEF Entry, BumpNlookup
    <3>2. QED
      BY <1>2, <2>2, <2>3, <3>1 DEF TypeInv
  <2>6. \A j \in Inos : EntryInv(j)'
    <3>1. EntryInv(i)'
      BY <1>2, <1>3, <1>4, <2>0, <2>1, <2>2, <2>3, <2>5, NamesApart,
        BlankFields DEF TableInv, EntryInv, ViewKept
    <3>2. ASSUME NEW j \in Inos, j # i PROVE EntryInv(j)'
      BY <1>1, <1>2, <1>4, <2>3, <2>5, <3>2 DEF TableInv, EntryInv, ViewKept
    <3>3. QED
      BY <3>1, <3>2
  <2>7. \A m \in Names : p2i'[m] # 0 => inodes'[p2i'[m]].name = m
    BY <1>2, <2>1, <2>3, <2>5, InoOf DEF TableInv
  <2>8. TableInv'
    <3>1. \A j \in Inos : inodes'[j].name = inodes[j].name /\ fileOf'[j] = fileOf[j]
      BY <2>1, <2>3, <2>5
    <3>2. QED
      BY <1>2, <2>3, <2>6, <2>7, <3>1 DEF TableInv
  <2>9. CacheInv'
    BY <1>1, <1>2, <1>3, <2>1, <2>2, <2>3, <2>4, <2>5, BlankFields
       DEF CacheInv, Fits, store
  <2>10. TypeInv'
    BY <1>1, <1>2, <1>5, <2>3, <2>5 DEF TypeInv, store
  <2>11. QED
    BY <1>4, <1>5, <2>8, <2>9, <2>10 DEF FuseInv
<1>8. QED
  BY <1>6, <1>7

\* A number handed out by readdir.
LEMMA ReadDirKeeps ==
  ASSUME FuseInv, NEW n \in Names, ReadDir(n)
  PROVE  FuseInv'
<1> DEFINE fi == [NoFI EXCEPT !.file = View(n)]
<1>1. /\ req = NoReq /\ View(n) # 0 /\ p2i[n] = 0 /\ Allocate(n, fi, 0)
      /\ UNCHANGED <<store, commit, sourceGen, handles, req, nextFile>>
  BY DEF ReadDir, Begins
<1>2. TypeInv /\ StoreInv /\ ViewInv /\ TableInv /\ CacheInv /\ HandleInv
  BY DEF FuseInv
<1>3. fi \in FI /\ fi.file = View(n) /\ fi.tag = "none"
  BY <1>2, ViewType DEF FI, NoFI
<1> HIDE DEF fi
<1>4. StoreInv' /\ ViewKept
  BY <1>1, <1>2, StoreStays
<1>5. ViewInv' /\ HandleInv' /\ req' \in Req /\ ReqInv'
  BY <1>1, <1>2, <1>4, ViewKeeps, HandlesStay, Answered
<1>6. TableInv'
  BY <1>1, <1>2, <1>3, <1>4, AllocateKeeps DEF ViewKept, TypeInv
<1>7. CacheInv'
  BY <1>1, <1>2, <1>3, AllocateCaches DEF store
<1>8. TypeInv'
  BY <1>1, <1>2, <1>3, <1>5, Allocated DEF TypeInv, store
<1>9. QED
  BY <1>4, <1>5, <1>6, <1>7, <1>8 DEF FuseInv

\* A create: a file nobody had, under a name that showed none.
LEMMA CreateKeeps ==
  ASSUME FuseInv, NEW n \in Names, Create(n)
  PROVE  FuseInv'
<1> DEFINE fi == [tag |-> "overlay", file |-> nextFile, base |-> 0]
           o == [NoHandle EXCEPT !.kind = "fd", !.ino = nextIno, !.reads = nextFile,
                                 !.write = TRUE, !.file = nextFile]
<1>1. /\ req = NoReq /\ req' = NoReq /\ GateFree /\ View(n) = 0 /\ p2i[n] = 0
      /\ overlay' = [overlay EXCEPT ![n] = nextFile] /\ tombs' = tombs \ {n}
      /\ written' = written \cup {n} /\ nextFile' = nextFile + 1
      /\ Allocate(n, fi, 1) /\ Put(o)
      /\ UNCHANGED <<base, baseNo, moved, gen, commit, sourceGen>>
  BY DEF Create, Begins
<1>2. TypeInv /\ StoreInv /\ ViewInv /\ TableInv /\ CacheInv /\ HandleInv
  BY DEF FuseInv
<1>3. fi \in FI /\ fi.file = nextFile /\ fi.tag = "overlay" /\ nextFile \in Nat
      /\ nextFile # 0 /\ nextFile' \in Nat /\ nextFile <= nextFile'
  BY <1>1, <1>2 DEF TypeInv, ViewInv, FI
<1>4. o \in Handle /\ o.kind = "fd" /\ o.reads = nextFile /\ o.file = nextFile
  BY <1>2, BlankType DEF TypeInv, Handle, NoHandle
<1> HIDE DEF fi, o
<1>5. View(n)' = nextFile /\ \A m \in Names : m # n => View(m)' = View(m)
  BY <1>1, <1>2, <1>3 DEF TypeInv, View
<1>6. StoreInv'
  BY <1>1, <1>2, <1>3 DEF TypeInv, StoreInv, GateFree
<1>7. ViewInv'
  <2>1. \A m \in Names : View(m) \in Nat
    BY <1>2, ViewType
  <2>2. QED
    BY <1>1, <1>2, <1>3, <1>5, <2>1 DEF ViewInv
<1>8. TableInv'
  BY <1>1, <1>2, <1>3, <1>5, AllocateKeeps
<1>9. CacheInv'
  BY <1>1, <1>2, <1>3, AllocateCaches
<1>10. PICK fh \in Handles :
         handles[fh] = NoHandle /\ handles' = [handles EXCEPT ![fh] = o]
  BY <1>1 DEF Put, FreeHandles
<1>11. HandleInv' /\ handles' \in [Handles -> Handle]
  <2>1. handles' \in [Handles -> Handle]
    BY <1>2, <1>4, <1>10 DEF TypeInv
  <2>2. ASSUME NEW h \in Handles, handles[h].kind = "source", ~handles[h].det
        PROVE  handles[h].name # n
    BY <1>1, <1>2, <2>2 DEF HandleInv
  <2>3. QED
    BY <1>2, <1>4, <1>5, <1>10, <2>1, <2>2 DEF HandleInv, TypeInv
<1>12. req' \in Req /\ ReqInv'
  BY <1>1, Answered
<1>13. TypeInv'
  BY <1>1, <1>2, <1>3, <1>11, <1>12, Allocated DEF TypeInv
<1>14. QED
  BY <1>6, <1>7, <1>8, <1>9, <1>11, <1>12, <1>13 DEF FuseInv

-----------------------------------------------------------------------------
(* Copy-ups.                                                               *)

\* The cached member of one entry is dropped.
LEMMA DropCache ==
  ASSUME TypeInv, NEW i \in Inos, inodes[i].name \in Names,
         NEW tab \in {inodes, Swept}, inodes' = [tab EXCEPT ![i].cache = NoFI]
  PROVE  /\ inodes' \in [Inos -> Entry] /\ \A j \in Inos : Recached(j)
         /\ inodes'[i].cache = NoFI
         /\ \A j \in Inos : j # i => inodes'[j].cache = tab[j].cache
<1>1. /\ tab \in [Inos -> Entry]
      /\ \A j \in Inos : /\ tab[j].name = inodes[j].name /\ tab[j].det = inodes[j].det
                         /\ tab[j].nlookup = inodes[j].nlookup
                         /\ inodes[j] = NoEntry => tab[j] = NoEntry
  BY SweepCaches DEF TypeInv
<1>2. inodes[i] # NoEntry
  BY NamesApart, BlankFields
<1>3. /\ inodes' \in [Inos -> Entry] /\ inodes'[i] = [tab[i] EXCEPT !.cache = NoFI]
      /\ \A j \in Inos : j # i => inodes'[j] = tab[j]
  BY <1>1, BlankType DEF Entry
<1>4. /\ inodes'[i].cache = NoFI /\ inodes'[i].name = tab[i].name
      /\ inodes'[i].det = tab[i].det /\ inodes'[i].nlookup = tab[i].nlookup
  BY <1>1, <1>3 DEF Entry
<1>5. QED
  BY <1>1, <1>2, <1>3, <1>4 DEF Recached

\* A handle on an overlay file, or none.
FdPut ==
  \/ handles' = handles
  \/ \E o \in Handle : Put(o) /\ o.kind = "fd" /\ o.reads = o.file

\* A copy-up of a linked file that drops its cached member and answers.
LEMMA CopyUpStep ==
  ASSUME FuseInv, NEW i \in Inos, NEW n \in Names, inodes[i].name = n,
         CopyUp(n), GateFree, written' \in {written, written \cup {n}},
         \/ inodes' = [inodes EXCEPT ![i].cache = NoFI] /\ sourceGen' = sourceGen
         \/ inodes' = [Swept EXCEPT ![i].cache = NoFI]
              /\ sourceGen' = MaxOf(sourceGen, gen),
         FdPut, req' = NoReq,
         UNCHANGED <<base, baseNo, moved, tombs, gen, commit, p2i, refs,
                     fresh>>
  PROVE  FuseInv'
<1>1. TypeInv /\ StoreInv /\ ViewInv /\ TableInv /\ CacheInv /\ HandleInv
  BY DEF FuseInv
<1>2. View(n) # 0
  BY <1>1 DEF TableInv, EntryInv
<1>3. StoreInv' /\ ViewKept
  BY <1>1, <1>2, CopyUpKeeps
<1>4. PICK tab \in {inodes, Swept} :
        /\ inodes' = [tab EXCEPT ![i].cache = NoFI]
        /\ \/ tab = inodes /\ sourceGen' = sourceGen
           \/ tab = Swept /\ sourceGen' = MaxOf(sourceGen, gen)
  OBVIOUS
<1>5. /\ inodes' \in [Inos -> Entry] /\ \A j \in Inos : Recached(j)
      /\ inodes'[i].cache = NoFI
      /\ \A j \in Inos : j # i => inodes'[j].cache = tab[j].cache
  BY <1>1, <1>4, DropCache
<1>6. TableInv' /\ ViewInv'
  BY <1>1, <1>3, <1>5, TableStays, ViewKeeps DEF fresh
<1>7. HandleInv' /\ handles' \in [Handles -> Handle]
  <2>1. CASE handles' = handles
    BY <1>1, <1>3, <2>1, HandlesStay DEF TypeInv
  <2>2. CASE handles' # handles
    <3>1. PICK o \in Handle : Put(o) /\ o.kind = "fd" /\ o.reads = o.file
      BY <2>2 DEF FdPut
    <3>2. QED
      BY <1>1, <1>3, <3>1, PutKeeps
  <2>3. QED
    BY <2>1, <2>2
<1>8. CacheInv'
  <2>1. \A j \in Inos : j # i => inodes[j].name # n
    BY <1>1 DEF TableInv, EntryInv
  <2>2. \A j \in Inos : inodes'[j].name = inodes[j].name /\ fileOf'[j] = fileOf[j]
    BY <1>5 DEF Recached, fresh
  <2>3. CASE tab = inodes /\ sourceGen' = sourceGen
    BY <1>1, <1>5, <2>1, <2>2, <2>3, BlankFields DEF CacheInv, Fits
  <2>4. CASE tab = Swept /\ sourceGen' = MaxOf(sourceGen, gen)
    BY <1>1, <1>5, <2>1, <2>2, <2>4, BlankFields, SweptFits DEF CacheInv, Fits
  <2>5. QED
    BY <1>4, <2>3, <2>4
<1>9. req' \in Req /\ ReqInv'
  BY Answered
<1>10. TypeInv'
  <2>1. overlay' \in [Names -> Nat] /\ sourceGen' \in Nat
    BY <1>1, <1>4, ViewType DEF TypeInv, CopyUp, MaxOf
  <2>2. QED
    BY <1>1, <1>5, <1>7, <1>9, <2>1 DEF TypeInv, fresh
<1>11. QED
  BY <1>3, <1>6, <1>7, <1>8, <1>9, <1>10 DEF FuseInv

\* An overlay file opened by its descriptor.
LEMMA OpenOverlayKeeps ==
  ASSUME FuseInv, OpenOverlay
  PROVE  FuseInv'
<1>1. req.pc = "overlay" /\ Held
  BY DEF OpenOverlay, FuseInv, ReqInv
<1>2. PICK i \in Inos, n \in Names : i = req.ino /\ n = req.name
  BY <1>1 DEF Held
<1> DEFINE o == [NoHandle EXCEPT !.kind = "fd", !.ino = i, !.reads = View(n),
                                 !.file = fileOf[i]]
<1>3. inodes[i].name = n /\ View(n) = fileOf[i]
  BY <1>1, <1>2, HeldName
<1>4. o \in Handle /\ o.kind = "fd" /\ o.reads = o.file
  <2>1. i \in Nat
    BY Bounds DEF Inos
  <2>2. QED
    BY <1>3, <2>1, BlankType DEF FuseInv, TypeInv, Handle, NoHandle
<1>5. /\ GateFree /\ CopyUp(n) /\ Put(o) /\ req' = NoReq
      /\ inodes' = [inodes EXCEPT ![i].cache = NoFI]
      /\ UNCHANGED <<base, baseNo, moved, tombs, written, gen, commit, p2i,
                     sourceGen,
                     refs, fresh>>
  BY <1>2 DEF OpenOverlay, Reply
<1> HIDE DEF o
<1>6. QED
  BY <1>3, <1>4, <1>5, CopyUpStep DEF FdPut

\* A file opened for writing.
LEMMA OpenWriteKeeps ==
  ASSUME FuseInv, NEW i \in Inos, OpenWrite(i)
  PROVE  FuseInv'
<1>1. PICK n \in Names : n = inodes[i].name /\ View(n) = fileOf[i]
  BY LinkedName DEF OpenWrite
<1> DEFINE o == [NoHandle EXCEPT !.kind = "fd", !.ino = i, !.reads = View(n),
                                 !.write = TRUE, !.file = fileOf[i]]
<1>2. o \in Handle /\ o.kind = "fd" /\ o.reads = o.file
  <2>1. i \in Nat
    BY Bounds DEF Inos
  <2>2. QED
    BY <1>1, <2>1, BlankType DEF FuseInv, TypeInv, Handle, NoHandle
<1>3. /\ GateFree /\ CopyUp(n) /\ Put(o) /\ req' = NoReq /\ written' = written \cup {n}
      /\ inodes' = [inodes EXCEPT ![i].cache = NoFI]
      /\ UNCHANGED <<base, baseNo, moved, tombs, gen, commit, p2i,
                     sourceGen, refs, fresh>>
  BY <1>1 DEF OpenWrite, Begins
<1> HIDE DEF o
<1>4. QED
  BY <1>1, <1>2, <1>3, CopyUpStep DEF FdPut

\* A truncation by setattr.
LEMMA TruncateKeeps ==
  ASSUME FuseInv, NEW i \in Inos, Truncate(i)
  PROVE  FuseInv'
<1>1. PICK n \in Names : n = inodes[i].name
  BY LinkedName DEF Truncate
<1>2. /\ GateFree /\ CopyUp(n) /\ handles' = handles /\ req' = NoReq
      /\ written' = written \cup {n}
      /\ inodes' = [Swept EXCEPT ![i].cache = NoFI] /\ sourceGen' = MaxOf(sourceGen, gen)
      /\ UNCHANGED <<base, baseNo, moved, tombs, gen, commit, p2i, refs,
                     fresh>>
  BY <1>1 DEF Truncate, Begins
<1>3. QED
  BY <1>1, <1>2, CopyUpStep DEF FdPut

\* A refused unlink or rename: at most the copy-up of the source is left.
LEMMA ParkRefusedKeeps ==
  ASSUME FuseInv, ParkRefused
  PROVE  FuseInv'
<1>1. /\ req.pc = "core" /\ GateFree /\ req' = NoReq
      /\ overlay' = IF req.op = "rename"
                    THEN [overlay EXCEPT ![req.name] = View(req.name)] ELSE overlay
      /\ UNCHANGED <<base, baseNo, moved, tombs, written, gen, commit,
                     tables, refs, fresh>>
  BY DEF ParkRefused, Reply
<1>2. PICK n \in Names : n = req.name /\ View(n) # 0
  BY <1>1 DEF FuseInv, ReqInv
<1>3. TypeInv /\ StoreInv /\ ViewInv /\ TableInv /\ CacheInv /\ HandleInv
  BY DEF FuseInv
<1>4. StoreInv' /\ ViewKept
  <2>1. CASE req.op = "rename"
    <3>1. CopyUp(n)
      BY <1>1, <1>2, <2>1 DEF CopyUp
    <3>2. QED
      BY <1>1, <1>2, <1>3, <3>1, CopyUpKeeps DEF tables
  <2>2. CASE req.op # "rename"
    <3>1. UNCHANGED <<store, commit>> /\ sourceGen' = sourceGen
      BY <1>1, <2>2 DEF store, tables
    <3>2. QED
      BY <1>3, <3>1, StoreStays
  <2>3. QED
    BY <2>1, <2>2
<1>5. ViewInv' /\ HandleInv' /\ req' \in Req /\ ReqInv'
  BY <1>1, <1>3, <1>4, ViewKeeps, HandlesStay, Answered DEF tables, fresh
<1>6. TableInv'
  BY <1>1, <1>3, <1>4, TableStays DEF Recached, tables, fresh
<1>7. CacheInv'
  BY <1>1, <1>3 DEF CacheInv, Fits, tables, fresh
<1>8. TypeInv'
  <2>1. overlay' \in [Names -> Nat]
    BY <1>1, <1>2, <1>3, ViewType DEF TypeInv
  <2>2. QED
    BY <1>1, <1>3, <1>5, <2>1 DEF TypeInv, tables, fresh
<1>9. QED
  BY <1>4, <1>5, <1>6, <1>7, <1>8 DEF FuseInv

-----------------------------------------------------------------------------
(* Detached nodeids and handles.                                           *)

\* A detached entry the kernel holds is parked on its file.
LEMMA DetachedFile ==
  ASSUME FuseInv, NEW i \in Inos, Detached(inodes[i])
  PROVE  /\ inodes[i].name = Stale /\ inodes[i].det \in Park
         /\ inodes[i].det.fi.file = fileOf[i]
<1>1. inodes[i] \in Entry /\ EntryInv(i)
  BY DEF FuseInv, TypeInv, TableInv
<1>2. inodes[i].name = Stale
  BY <1>1, BlankFields DEF EntryInv, Detached, Entry, AnyName
<1>3. QED
  BY <1>1, <1>2 DEF EntryInv, Entry

\* The parked descriptor is reopened, or the member by its snapshot.
LEMMA OpenDetachedKeeps ==
  ASSUME FuseInv, NEW i \in Inos, OpenDetached(i)
  PROVE  FuseInv'
<1> DEFINE fi == inodes[i].det.fi
           o == [NoHandle EXCEPT !.kind = "fd", !.ino = i, !.reads = fi.file,
                                 !.file = fileOf[i]]
<1>1. /\ req = NoReq /\ UNCHANGED <<store, commit, p2i, inodes, sourceGen,
                                    refs, fresh>>
      /\ \/ Put(o) /\ UNCHANGED req
         \/ /\ req' = [NoReq EXCEPT !.op = "reopen", !.ino = i, !.name = Stale,
                                    !.fi = fi, !.pc = "sample"]
            /\ UNCHANGED handles
  BY DEF OpenDetached, Begins
<1>2. fi \in FI /\ fi.file = fileOf[i] /\ i \in Nat
  BY DetachedFile, Bounds DEF OpenDetached, Park, Inos
<1>3. CASE Put(o) /\ UNCHANGED req
  <2>1. o \in Handle /\ o.kind = "fd" /\ o.reads = o.file
    BY <1>2, BlankType DEF FuseInv, TypeInv, Handle, NoHandle
  <2> HIDE DEF o
  <2>2. QED
    BY <1>1, <1>3, <2>1, PutStep
<1>4. CASE /\ req' = [NoReq EXCEPT !.op = "reopen", !.ino = i, !.name = Stale,
                                   !.fi = fi, !.pc = "sample"]
           /\ UNCHANGED handles
  <2>1. /\ req' \in Req /\ req'.op = "reopen" /\ req'.ino = i /\ req'.fi = fi
        /\ req'.pc = "sample"
    BY <1>2, <1>4, BlankType DEF Req, AnyName, NoReq
  <2>2. Untouched
    BY <1>1, <1>4, <2>1, IdleStep DEF tables
  <2>3. ReqInv'
    BY <1>1, <1>2, <2>1 DEF ReqInv, fresh
  <2>4. QED
    BY <2>2, <2>3 DEF FuseInv, Untouched
<1>5. QED
  BY <1>1, <1>3, <1>4

\* A read of a stale handle goes on to look its path up again.
LEMMA BeginReadKeeps ==
  ASSUME FuseInv, NEW h \in Handles, BeginRead(h)
  PROVE  FuseInv'
<1>1. /\ Sweep /\ UNCHANGED <<store, commit, p2i, handles, refs, fresh>>
      /\ \/ req' = NoReq
         \/ /\ handles[h].kind = "source" /\ ~handles[h].det
            /\ req' = [NoReq EXCEPT !.op = "read", !.fh = h, !.name = handles[h].name,
                                    !.gen = gen, !.pc = "relook"]
  BY DEF BeginRead
<1>2. CASE req' = NoReq
  BY <1>1, <1>2, Answered, SweepStep DEF FuseInv, Untouched
<1>3. CASE req' # NoReq
  <2>1. handles[h].name \in Names /\ View(handles[h].name) = handles[h].file
    BY <1>1, <1>3 DEF FuseInv, HandleInv
  <2>2. h \in Nat /\ gen \in Nat
    BY Bounds DEF Handles, FuseInv, TypeInv
  <2>3. /\ req' \in Req /\ req'.pc = "relook" /\ req'.fh = h /\ req'.gen = gen
        /\ req'.name = handles[h].name
    BY <1>1, <1>3, <2>1, <2>2, BlankType DEF Req, AnyName, NoReq
  <2>4. Untouched /\ ViewKept
    BY <1>1, <2>3, SweepStep
  <2>5. ReqInv'
    BY <1>1, <2>1, <2>2, <2>3, <2>4 DEF ReqInv, ViewKept, store
  <2>6. QED
    BY <2>4, <2>5 DEF FuseInv, Untouched
<1>4. QED
  BY <1>2, <1>3

\* The path still shows the file of the handle.
LEMMA RelookKeeps ==
  ASSUME FuseInv, Relook
  PROVE  FuseInv'
<1>1. /\ req.pc = "relook" /\ UNCHANGED <<store, commit, tables, refs, fresh>>
      /\ req' = IF Lookup(req.name) = NoFI THEN NoReq
                ELSE [req EXCEPT !.fi = Lookup(req.name), !.pc = "refresh"]
  BY DEF Relook
<1>2. req \in Req /\ req.name \in Names /\ TypeInv
  BY <1>1 DEF FuseInv, TypeInv, ReqInv
<1>3. CASE Lookup(req.name) = NoFI
  BY <1>1, <1>3, Answered, IdleStep DEF FuseInv, Untouched
<1>4. CASE Lookup(req.name) # NoFI
  <2>1. /\ req' \in Req /\ req'.pc = "refresh" /\ req'.name = req.name
        /\ req'.fi = Lookup(req.name) /\ req'.fh = req.fh /\ req'.gen = req.gen
    BY <1>1, <1>2, <1>4, LookupFinds DEF Req
  <2>2. Untouched /\ ViewKept
    BY <1>1, <2>1, IdleStep
  <2>3. Lookup(req.name).tag = "overlay" \/ Lookup(req.name).base = baseNo
    BY <1>2, <1>4, LookupFinds DEF FI
  <2>4. ReqInv'
    BY <1>1, <1>2, <2>1, <2>2, <2>3, LookupFinds
       DEF ReqInv, FuseInv, ViewKept, store, tables
  <2>5. QED
    BY <2>2, <2>4 DEF FuseInv, Untouched
<1>5. QED
  BY <1>3, <1>4

\* The handle reads its own file again, or old offsets of it.
LEMMA RefreshKeeps ==
  ASSUME FuseInv, Refresh
  PROVE  FuseInv'
<1>1. PICK h \in Handles : h = req.fh
  BY DEF Refresh, FuseInv, ReqInv
<1>2. /\ req.pc = "refresh" /\ req' = NoReq
      /\ handles' = [handles EXCEPT ![h].reads = Opens(req.fi), ![h].gen = req.gen]
      /\ UNCHANGED <<store, commit, p2i, inodes, sourceGen, refs, fresh>>
  BY <1>1 DEF Refresh, Reply
<1>3. /\ req \in Req /\ req.fi.file = handles[h].file /\ handles[h] \in Handle
      /\ TypeInv /\ StoreInv /\ ViewInv /\ TableInv /\ CacheInv /\ HandleInv
  BY <1>1, <1>2 DEF FuseInv, TypeInv, ReqInv
<1>4. Opens(req.fi) \in {handles[h].file, Garbage} /\ Opens(req.fi) \in Nat
  <2>1. handles[h].file \in Nat /\ Garbage \in Nat
    BY <1>3, Bounds DEF Handle, Garbage
  <2>2. QED
    BY <1>3, <2>1, OpensFile
<1>5. /\ handles' \in [Handles -> Handle]
      /\ handles'[h].reads = Opens(req.fi) /\ handles'[h].file = handles[h].file
      /\ handles'[h].kind = handles[h].kind /\ handles'[h].det = handles[h].det
      /\ handles'[h].name = handles[h].name
      /\ \A g \in Handles : g # h => handles'[g] = handles[g]
  BY <1>2, <1>3, <1>4 DEF TypeInv, Handle, Req
<1>6. StoreInv' /\ ViewKept
  BY <1>2, <1>3, StoreStays
<1>7. ViewInv' /\ TableInv' /\ req' \in Req /\ ReqInv'
  BY <1>2, <1>3, <1>6, ViewKeeps, TableStays, Answered DEF Recached, fresh
<1>8. CacheInv'
  BY <1>2, <1>3 DEF CacheInv, Fits, store, fresh
<1>9. HandleInv'
  BY <1>3, <1>4, <1>5, <1>6 DEF HandleInv, ViewKept
<1>10. TypeInv'
  BY <1>2, <1>3, <1>5, <1>7 DEF TypeInv, store, fresh
<1>11. QED
  BY <1>6, <1>7, <1>8, <1>9, <1>10 DEF FuseInv

\* A released handle.
LEMMA ReleaseKeeps ==
  ASSUME FuseInv, NEW h \in Handles, Release(h)
  PROVE  FuseInv'
<1>1. /\ req' = NoReq /\ handles' = [handles EXCEPT ![h] = NoHandle]
      /\ UNCHANGED <<store, commit, p2i, inodes, sourceGen, refs, fresh>>
  BY DEF Release, Begins
<1>2. TypeInv /\ StoreInv /\ ViewInv /\ TableInv /\ CacheInv /\ HandleInv
  BY DEF FuseInv
<1>3. handles' \in [Handles -> Handle]
  BY <1>1, <1>2, BlankType DEF TypeInv
<1>4. StoreInv' /\ ViewKept
  BY <1>1, <1>2, StoreStays
<1>5. ViewInv' /\ TableInv' /\ req' \in Req /\ ReqInv'
  BY <1>1, <1>2, <1>4, ViewKeeps, TableStays, Answered DEF Recached, fresh
<1>6. CacheInv'
  BY <1>1, <1>2 DEF CacheInv, Fits, store, fresh
<1>7. HandleInv'
  BY <1>1, <1>2, <1>3, <1>4 DEF HandleInv, ViewKept, TypeInv, NoHandle
<1>8. TypeInv'
  BY <1>1, <1>2, <1>3, <1>5 DEF TypeInv, store, fresh
<1>9. QED
  BY <1>4, <1>5, <1>6, <1>7, <1>8 DEF FuseInv

\* FORGET: a linked entry stays, a detached one goes with its last lookup.
LEMMA ForgetKeeps ==
  ASSUME FuseInv, NEW i \in Inos, NEW k \in 1..MaxRefs, Forget(i, k)
  PROVE  FuseInv'
<1> DEFINE e == IF Detached(inodes[i]) /\ inodes[i].nlookup = k THEN NoEntry
                ELSE [inodes[i] EXCEPT !.nlookup = @ - k]
<1>1. /\ req' = NoReq /\ k <= refs[i] /\ refs' = [refs EXCEPT ![i] = @ - k]
      /\ inodes' = [inodes EXCEPT ![i] = e]
      /\ UNCHANGED <<store, commit, p2i, sourceGen, handles, fresh>>
  BY DEF Forget, Begins
<1>2. TypeInv /\ StoreInv /\ ViewInv /\ TableInv /\ CacheInv /\ HandleInv
  BY DEF FuseInv
<1>3. /\ inodes[i] \in Entry /\ refs[i] \in Nat /\ inodes[i].nlookup = refs[i]
      /\ EntryInv(i) /\ k \in Nat /\ k > 0
  BY <1>2, Bounds DEF TypeInv, TableInv, EntryInv
<1>4. /\ inodes[i].name # "none"
      /\ inodes[i].name \in Names <=> ~Detached(inodes[i])
      /\ inodes[i].name = Stale <=> Detached(inodes[i])
  BY <1>1, <1>3, BlankFields, NamesApart DEF EntryInv, Detached, Entry,
    AnyName
<1>5. /\ e \in Entry /\ e.nlookup = refs[i] - k /\ refs[i] - k \in Nat
      /\ \/ e = NoEntry /\ refs[i] = k
         \/ /\ e.name = inodes[i].name /\ e.det = inodes[i].det
            /\ e.cache = inodes[i].cache
            /\ inodes[i].name = Stale => refs[i] - k > 0
  <2>1. CASE Detached(inodes[i]) /\ inodes[i].nlookup = k
    BY <1>3, <2>1, BlankType, BlankFields
  <2>2. CASE ~(Detached(inodes[i]) /\ inodes[i].nlookup = k)
    BY <1>1, <1>3, <1>4, <2>2 DEF Entry
  <2>3. QED
    BY <2>1, <2>2
<1> HIDE DEF e
<1>6. /\ inodes' \in [Inos -> Entry] /\ refs' \in [Inos -> Nat]
      /\ inodes'[i] = e /\ refs'[i] = refs[i] - k
      /\ \A j \in Inos : j # i => inodes'[j] = inodes[j] /\ refs'[j] = refs[j]
  BY <1>1, <1>2, <1>5 DEF TypeInv
<1>7. StoreInv' /\ ViewKept
  BY <1>1, <1>2, StoreStays
<1>8. ViewInv' /\ HandleInv' /\ req' \in Req /\ ReqInv'
  BY <1>1, <1>2, <1>7, ViewKeeps, HandlesStay, Answered DEF fresh
<1>9. ASSUME NEW j \in Inos PROVE EntryInv(j)'
  <2>1. CASE j # i
    BY <1>1, <1>2, <1>6, <1>7, <2>1 DEF TableInv, EntryInv, ViewKept, fresh
  <2>2. CASE j = i /\ e = NoEntry
    BY <1>5, <1>6, <2>2, BlankFields, NamesApart DEF EntryInv
  <2>3. CASE j = i /\ e # NoEntry
    BY <1>1, <1>3, <1>4, <1>5, <1>6, <1>7, <2>3 DEF EntryInv, ViewKept, fresh
  <2>4. QED
    BY <2>1, <2>2, <2>3
<1>10. \A n \in Names : p2i'[n] # 0 => inodes'[p2i'[n]].name = n
  <2>1. ASSUME NEW n \in Names, p2i[n] # 0 PROVE inodes'[p2i[n]].name = n
    <3>1. p2i[n] \in Inos /\ inodes[p2i[n]].name = n
      BY <1>2, <2>1, InoOf DEF TableInv
    <3>2. CASE p2i[n] = i
      <4>1. ~Detached(inodes[i])
        BY <1>4, <3>1, <3>2
      <4>2. inodes[i].det = NoPark /\ e # NoEntry
        BY <1>3, <3>1, <3>2, <4>1 DEF Detached, e, EntryInv, Entry, NoEntry
      <4>3. QED
        BY <1>5, <1>6, <3>1, <3>2, <4>2
    <3>3. CASE p2i[n] # i
      BY <1>6, <3>1, <3>3
    <3>4. QED
      BY <3>2, <3>3
  <2>2. QED
    BY <1>1, <2>1
<1>11. TableInv'
  <2>1. \A j \in Inos : inodes'[j].name # "none" => inodes[j].name # "none"
    BY <1>4, <1>6
  <2>2. QED
    BY <1>1, <1>2, <1>9, <1>10, <2>1 DEF TableInv, fresh
<1>12. CacheInv'
  BY <1>1, <1>2, <1>5, <1>6, BlankFields DEF CacheInv, Fits, store, fresh
<1>13. TypeInv'
  BY <1>1, <1>2, <1>6, <1>8 DEF TypeInv, store, fresh
<1>14. QED
  BY <1>7, <1>8, <1>11, <1>12, <1>13 DEF FuseInv

-----------------------------------------------------------------------------
(* Unlink and rename.                                                      *)

\* The snapshot of a name that has a nodeid is of the file it shows.
LEMMA SnapshotFile ==
  ASSUME FuseInv, NEW n \in Names
  PROVE  /\ Snapshot(n) \in FI
         /\ p2i[n] # 0 => Snapshot(n).file = View(n) /\ Snapshot(n).tag # "none"
<1>1. CASE p2i[n] = 0
  BY <1>1, BlankType DEF Snapshot
<1>2. CASE p2i[n] # 0
  <2>1. PICK i \in Inos : i = p2i[n]
    BY <1>2, InoOf DEF FuseInv
  <2>2. /\ inodes[i] \in Entry /\ inodes[i].name = n /\ fileOf[i] = View(n)
        /\ View(n) # 0
    BY <1>2, <2>1 DEF FuseInv, TypeInv, TableInv, EntryInv
  <2>3. inodes[i].cache # NoFI =>
          inodes[i].cache.tag # "none" /\ inodes[i].cache.file = fileOf[i]
    BY <2>1 DEF FuseInv, CacheInv
  <2>4. QED
    BY <1>2, <2>1, <2>2, <2>3, LookupFinds DEF FuseInv, Snapshot, Entry
<1>3. QED
  BY <1>1, <1>2

\* The snapshot is taken before the gate.
LEMMA BeginUnlinkKeeps ==
  ASSUME FuseInv, NEW n \in Names, BeginUnlink(n)
  PROVE  FuseInv'
<1>1. /\ View(n) # 0 /\ UNCHANGED <<store, commit, tables, refs, fresh>>
      /\ req' = [NoReq EXCEPT !.op = "unlink", !.name = n, !.fi = Snapshot(n),
                              !.pc = "core"]
  BY DEF BeginUnlink
<1>2. /\ req' \in Req /\ req'.op = "unlink" /\ req'.name = n /\ req'.fi = Snapshot(n)
      /\ req'.pc = "core"
  BY <1>1, SnapshotFile, BlankType DEF Req, AnyName, NoReq
<1>3. Untouched /\ ViewKept
  BY <1>1, <1>2, IdleStep
<1>4. ReqInv'
  BY <1>1, <1>2, <1>3, SnapshotFile DEF ReqInv, ViewKept, tables
<1>5. QED
  BY <1>3, <1>4 DEF FuseInv, Untouched

\* The snapshot of the file that a rename replaces, likewise.
LEMMA BeginRenameKeeps ==
  ASSUME FuseInv, NEW from \in Names, NEW to \in Names, BeginRename(from, to)
  PROVE  FuseInv'
<1>1. /\ View(from) # 0 /\ from # to /\ UNCHANGED <<store, commit, tables,
                                                    refs, fresh>>
      /\ req' = [NoReq EXCEPT !.op = "rename", !.name = from, !.to = to, !.pc = "core",
                              !.fi = Snapshot(to)]
  BY DEF BeginRename
<1>2. /\ req' \in Req /\ req'.op = "rename" /\ req'.name = from /\ req'.to = to
      /\ req'.fi = Snapshot(to) /\ req'.pc = "core"
  BY <1>1, SnapshotFile, BlankType DEF Req, AnyName, NoReq
<1>3. Untouched /\ ViewKept
  BY <1>1, <1>2, IdleStep
<1>4. ReqInv'
  BY <1>1, <1>2, <1>3, SnapshotFile DEF ReqInv, ViewKept, tables
<1>5. QED
  BY <1>3, <1>4 DEF FuseInv, Untouched

\* What a removed file is parked on is the file.
LEMMA DetachedOn ==
  ASSUME FuseInv, NEW t \in Names, NEW parked \in Parks(t), NEW fi \in FI, p2i[t] # 0,
         fi.file = View(t), fi.tag # "none"
  PROVE  /\ BuildDetached(parked, fi) \in Park
         /\ BuildDetached(parked, fi).kind # "linked"
         /\ BuildDetached(parked, fi).fi.file = View(t)
<1>1. overlay[t] \in Nat
  BY DEF FuseInv, TypeInv
<1>2. CASE overlay[t] = 0
  BY <1>2 DEF Parks, BuildDetached, Park, FI
<1>3. CASE overlay[t] # 0
  BY <1>1, <1>3 DEF Parks, BuildDetached, Park, FI, View
<1>4. QED
  BY <1>2, <1>3

\* The entry of a removed file goes, or lives on detached.
LEMMA DetachEntry ==
  ASSUME NEW e \in Entry, NEW det \in Park, det.kind # "linked"
  PROVE  /\ Detach(e, det) \in Entry
         /\ e.nlookup = 0 => Detach(e, det) = NoEntry
         /\ e.nlookup # 0 => /\ Detach(e, det).name = Stale
                             /\ Detach(e, det).cache = NoFI
                             /\ Detach(e, det).nlookup = e.nlookup
                             /\ Detach(e, det).det = det
BY BlankType DEF Detach, Entry, AnyName, Stale

\* The handles of the names that changed are marked; the others show what
\* they showed.
LEMMA MarkKeeps ==
  ASSUME TypeInv, HandleInv, NEW S, handles' = MarkDetached(handles, S),
         \A n \in Names : n \notin S => View(n)' = View(n)
  PROVE  HandleInv' /\ handles' \in [Handles -> Handle]
<1>1. ASSUME NEW h \in Handles
      PROVE  /\ handles'[h] \in Handle
             /\ handles'[h].reads = handles[h].reads /\ handles'[h].file = handles[h].file
             /\ handles'[h].kind = handles[h].kind /\ handles'[h].name = handles[h].name
             /\ handles'[h].kind = "source" /\ ~handles'[h].det =>
                  ~handles[h].det /\ handles[h].name \notin S
  <2>1. handles[h] \in Handle
    BY DEF TypeInv
  <2>2. handles'[h] = IF handles[h].kind = "source" /\ handles[h].name \in S
                      THEN [handles[h] EXCEPT !.det = TRUE] ELSE handles[h]
    BY DEF MarkDetached
  <2>3. CASE handles[h].kind = "source" /\ handles[h].name \in S
    BY <2>1, <2>2, <2>3 DEF Handle
  <2>4. CASE ~(handles[h].kind = "source" /\ handles[h].name \in S)
    BY <2>1, <2>2, <2>4
  <2>5. QED
    BY <2>3, <2>4
<1>2. handles' \in [Handles -> Handle]
  BY <1>1 DEF MarkDetached
<1>3. HandleInv'
  BY <1>1 DEF HandleInv
<1>4. QED
  BY <1>2, <1>3

\* The detached entry of a name that shows its file no more.
LEMMA ParkedEntry ==
  ASSUME FuseInv, NEW t \in Names, NEW parked \in Parks(t), NEW fi \in FI,
         fi.file = View(t), fi.tag # "none", NEW j \in Inos, inodes[j].name = t,
         inodes'[j] = Detach(inodes[j], BuildDetached(parked, fi)),
         \A n \in Names : View(n)' # View(t), UNCHANGED <<refs, fresh>>
  PROVE  /\ EntryInv(j)' /\ inodes'[j].cache = NoFI /\ inodes'[j] \in Entry
         /\ inodes'[j].name \notin Names
<1> DEFINE det == BuildDetached(parked, fi)
           e == Detach(inodes[j], det)
<1>1. TypeInv /\ ViewInv /\ TableInv
  BY DEF FuseInv
<1>2. /\ EntryInv(j) /\ inodes[j] \in Entry /\ j = p2i[t] /\ j # 0 /\ fileOf[j] = View(t)
      /\ refs[j] \in Nat /\ inodes[j].nlookup = refs[j] /\ View(t) # 0
  <2>1. j # 0
    BY Bounds DEF Inos
  <2>2. QED
    BY <1>1, <2>1 DEF TypeInv, TableInv, EntryInv
<1>3. det \in Park /\ det.kind # "linked" /\ det.fi.file = fileOf[j]
  BY <1>2, DetachedOn
<1>4. /\ e \in Entry
      /\ refs[j] = 0 => e = NoEntry
      /\ refs[j] # 0 => /\ e.name = Stale /\ e.cache = NoFI /\ e.nlookup = refs[j]
                        /\ e.det = det
  BY <1>2, <1>3, DetachEntry
<1>5. inodes'[j] = e
  OBVIOUS
<1> HIDE DEF e, det
<1>6. CASE refs[j] = 0
  BY <1>2, <1>4, <1>5, <1>6, BlankFields, NamesApart DEF EntryInv, fresh
<1>7. CASE refs[j] # 0
  <2>1. /\ inodes'[j].name = Stale /\ inodes'[j].cache = NoFI /\ inodes'[j] \in Entry
        /\ inodes'[j].nlookup = refs[j] /\ inodes'[j].det = det /\ refs'[j] > 0
        /\ refs' = refs /\ fileOf' = fileOf /\ nextIno' = nextIno /\ nextFile' = nextFile
    BY <1>2, <1>4, <1>5, <1>7 DEF fresh
  <2>2. ~(j >= nextIno) /\ fileOf[j] < nextFile
    BY <1>1, <1>2, NamesApart DEF EntryInv, ViewInv
  <2>3. QED
    BY <1>2, <1>3, <2>1, <2>2, NamesApart DEF EntryInv
<1>8. QED
  BY <1>6, <1>7

\* An unlink: the name shows nothing, and its nodeid is detached on the file.
LEMMA UnlinkKeeps ==
  ASSUME FuseInv, Unlink
  PROVE  FuseInv'
<1>1. PICK t \in Names : t = req.name
  BY DEF Unlink, FuseInv, ReqInv
<1>2. PICK parked \in Parks(t) :
        inodes' = IF p2i[t] = 0 THEN inodes
                  ELSE [inodes EXCEPT ![p2i[t]] =
                          Detach(inodes[p2i[t]], BuildDetached(parked, req.fi))]
  BY <1>1 DEF Unlink
<1>3. /\ req.pc = "core" /\ req.op = "unlink" /\ GateFree /\ req' = NoReq
      /\ overlay' = [overlay EXCEPT ![t] = 0] /\ tombs' = tombs \cup Hides(t)
      /\ written' = written \ {t} /\ p2i' = [p2i EXCEPT ![t] = 0]
      /\ handles' = MarkDetached(handles, {t})
      /\ UNCHANGED <<base, baseNo, moved, gen, commit, sourceGen, refs,
                     fresh>>
  BY <1>1 DEF Unlink, Reply
<1>4. TypeInv /\ StoreInv /\ ViewInv /\ TableInv /\ CacheInv /\ HandleInv
  BY DEF FuseInv
<1>5. /\ req.fi \in FI /\ View(t) # 0
      /\ p2i[t] # 0 => req.fi.file = View(t) /\ req.fi.tag # "none"
  BY <1>1, <1>3 DEF FuseInv, TypeInv, Req, ReqInv
<1>6. View(t)' = 0 /\ \A n \in Names : n # t => View(n)' = View(n)
  BY <1>3, <1>4 DEF TypeInv, View, Hides
<1>7. StoreInv'
  BY <1>3, <1>4 DEF TypeInv, StoreInv, GateFree, Hides
<1>8. ViewInv'
  BY <1>3, <1>4, <1>6, ViewType DEF ViewInv, fresh
<1>9. HandleInv' /\ handles' \in [Handles -> Handle]
  <2>1. \A n \in Names : n \notin {t} => View(n)' = View(n)
    BY <1>6
  <2>2. QED
    BY <1>3, <1>4, <2>1, MarkKeeps
<1>10. req' \in Req /\ ReqInv'
  BY <1>3, Answered
<1>11. \A n \in Names : p2i'[n] = IF n = t THEN 0 ELSE p2i[n]
  BY <1>3, <1>4 DEF TypeInv
<1>12. ASSUME NEW j \in Inos, inodes[j].name # t
       PROVE  inodes'[j] = inodes[j] /\ EntryInv(j)'
  <2>1. EntryInv(j)
    BY <1>4 DEF TableInv
  <2>2. inodes'[j] = inodes[j]
    <3>1. CASE p2i[t] = 0
      BY <1>2, <3>1
    <3>2. CASE p2i[t] # 0
      <4>1. p2i[t] \in Inos /\ p2i[t] # j
        BY <1>4, <1>12, <3>2, InoOf DEF TableInv
      <4>2. QED
        BY <1>2, <1>4, <3>2, <4>1 DEF TypeInv
    <3>3. QED
      BY <3>1, <3>2
  <2>3. QED
    BY <1>3, <1>6, <1>11, <1>12, <2>1, <2>2 DEF EntryInv, fresh
<1>13. ASSUME NEW j \in Inos, inodes[j].name = t
       PROVE  /\ EntryInv(j)' /\ inodes'[j].cache = NoFI /\ inodes'[j] \in Entry
              /\ inodes'[j].name \notin Names
  <2>1. j = p2i[t] /\ j # 0
    BY <1>4, <1>13 DEF TableInv, EntryInv, Inos
  <2>2. inodes'[j] = Detach(inodes[j], BuildDetached(parked, req.fi))
    BY <1>2, <1>4, <2>1 DEF TypeInv
  <2>3. \A n \in Names : View(n)' # View(t)
    BY <1>4, <1>5, <1>6 DEF ViewInv
  <2>4. QED
    BY <1>3, <1>5, <1>13, <2>1, <2>2, <2>3, ParkedEntry
<1>14. inodes' \in [Inos -> Entry]
  <2>1. \A j \in Inos : inodes'[j] \in Entry
    BY <1>4, <1>12, <1>13 DEF TypeInv
  <2>2. DOMAIN inodes' = Inos /\ inodes' = [j \in Inos |-> inodes'[j]]
    BY <1>2, <1>4 DEF TypeInv
  <2>3. QED
    BY <2>1, <2>2
<1>15. TableInv'
  <2>1. \A n \in Names : p2i'[n] # 0 => inodes'[p2i'[n]].name = n
    <3>1. ASSUME NEW n \in Names, n # t, p2i[n] # 0 PROVE inodes'[p2i[n]].name = n
      <4>1. p2i[n] \in Inos /\ inodes[p2i[n]].name = n
        BY <1>4, <3>1, InoOf DEF TableInv
      <4>2. QED
        BY <1>12, <3>1, <4>1
    <3>2. QED
      BY <1>11, <3>1
  <2>2. \A j \in Inos : inodes'[j].name # "none" => inodes[j].name # "none"
    BY <1>12, NamesApart
  <2>3. QED
    BY <1>3, <1>4, <1>12, <1>13, <2>1, <2>2 DEF TableInv, fresh
<1>16. CacheInv'
  BY <1>3, <1>4, <1>12, <1>13, BlankFields DEF CacheInv, Fits, fresh
<1>17. TypeInv'
  <2>1. /\ overlay' \in [Names -> Nat] /\ p2i' \in [Names -> 0..MaxIno]
        /\ tombs' \in SUBSET Names /\ written' \in SUBSET Names
    BY <1>3, <1>4, Bounds DEF TypeInv, Hides
  <2>2. QED
    BY <1>3, <1>4, <1>9, <1>10, <1>14, <2>1 DEF TypeInv, fresh
<1>18. QED
  BY <1>7, <1>8, <1>9, <1>10, <1>15, <1>16, <1>17 DEF FuseInv

\* A rename: the new name shows the file of the old one and takes its nodeid
\* along; a nodeid it replaces is detached.
LEMMA RenameKeeps ==
  ASSUME FuseInv, Rename
  PROVE  FuseInv'
<1>1. PICK from \in Names, to \in Names :
        from = req.name /\ to = req.to /\ from # to /\ View(from) # 0
  BY DEF Rename, FuseInv, ReqInv
<1>2. PICK parked \in Parks(to) :
        inodes' = [i \in Inos |->
          IF i = p2i[to] THEN Detach(inodes[i], BuildDetached(parked, req.fi))
          ELSE IF i = p2i[from] THEN [inodes[i] EXCEPT !.name = to, !.cache = NoFI]
          ELSE inodes[i]]
  <2>1. PICK parked \in Parks(req.to) : Rebind(parked)
    BY DEF Rename
  <2>2. inodes' = [i \in Inos |->
          IF i = p2i[req.to] THEN Detach(inodes[i], BuildDetached(parked, req.fi))
          ELSE IF i = p2i[req.name] THEN [inodes[i] EXCEPT !.name = req.to, !.cache = NoFI]
          ELSE inodes[i]]
    BY <2>1 DEF Rebind
  <2>3. QED
    BY <1>1, <2>1, <2>2
<1>3. /\ req.pc = "core" /\ req.op = "rename" /\ GateFree /\ req' = NoReq
      /\ p2i' = [p2i EXCEPT ![from] = 0, ![to] = p2i[from]]
      /\ overlay' = [overlay EXCEPT ![to] = View(from), ![from] = 0]
      /\ tombs' = (tombs \ {to}) \cup Hides(from)
      /\ written' = (written \ {from}) \cup {to}
      /\ handles' = MarkDetached(handles, {from, to})
      /\ UNCHANGED <<base, baseNo, moved, gen, commit, sourceGen, refs,
                     fresh>>
  BY <1>1 DEF Rename, Rebind, Reply
<1>4. TypeInv /\ StoreInv /\ ViewInv /\ TableInv /\ CacheInv /\ HandleInv
  BY DEF FuseInv
<1>5. /\ req.fi \in FI
      /\ p2i[to] # 0 => req.fi.file = View(to) /\ req.fi.tag # "none"
  BY <1>1, <1>3 DEF FuseInv, TypeInv, Req, ReqInv
<1>6. /\ View(from)' = 0 /\ View(to)' = View(from)
      /\ \A n \in Names : n \notin {from, to} => View(n)' = View(n)
  BY <1>1, <1>3, <1>4, ViewType DEF TypeInv, View, Hides
<1>7. StoreInv'
  BY <1>1, <1>3, <1>4, ViewType DEF TypeInv, StoreInv, GateFree, Hides
<1>8. ViewInv'
  <2>1. nextFile' = nextFile /\ \A n \in Names : View(n) \in Nat
    BY <1>3, <1>4, ViewType DEF fresh
  <2>2. \A n \in Names : View(n)' < nextFile
    BY <1>4, <1>6 DEF ViewInv, TypeInv
  <2>3. \A m, n \in Names : m # n /\ View(m)' # 0 => View(m)' # View(n)'
    BY <1>1, <1>4, <1>6 DEF ViewInv
  <2>4. QED
    BY <1>4, <2>1, <2>2, <2>3 DEF ViewInv
<1>9. HandleInv' /\ handles' \in [Handles -> Handle]
  BY <1>3, <1>4, <1>6, MarkKeeps
<1>10. req' \in Req /\ ReqInv'
  BY <1>3, Answered
<1>11. \A n \in Names : p2i'[n] = IF n = from THEN 0 ELSE IF n = to THEN p2i[from]
                                  ELSE p2i[n]
  BY <1>1, <1>3, <1>4 DEF TypeInv
<1>12. ASSUME NEW j \in Inos, inodes[j].name \notin {from, to}
       PROVE  inodes'[j] = inodes[j] /\ EntryInv(j)'
  <2>1. EntryInv(j) /\ j # 0
    BY <1>4 DEF TableInv, Inos
  <2>2. j # p2i[from] /\ j # p2i[to]
    BY <1>4, <1>12, <2>1 DEF TableInv
  <2>3. inodes'[j] = inodes[j]
    BY <1>2, <2>2
  <2>4. CASE inodes[j].name = Stale
    <3>1. \A n \in Names : View(n)' # fileOf[j]
      BY <1>1, <1>6, <2>1, <2>4 DEF EntryInv
    <3>2. QED
      BY <1>3, <2>1, <2>3, <2>4, <3>1, NamesApart DEF EntryInv, fresh
  <2>5. CASE inodes[j].name # Stale
    BY <1>3, <1>6, <1>11, <1>12, <2>1, <2>3, <2>5 DEF EntryInv, fresh
  <2>6. QED
    BY <2>3, <2>4, <2>5
<1>13. ASSUME NEW j \in Inos, inodes[j].name = to
       PROVE  /\ EntryInv(j)' /\ inodes'[j].cache = NoFI /\ inodes'[j] \in Entry
              /\ inodes'[j].name \notin Names
  <2>1. j = p2i[to] /\ j # 0 /\ View(to) # 0
    BY <1>4, <1>13 DEF TableInv, EntryInv, Inos
  <2>2. inodes'[j] = Detach(inodes[j], BuildDetached(parked, req.fi))
    BY <1>2, <2>1
  <2>3. \A n \in Names : View(n)' # View(to)
    BY <1>1, <1>4, <1>6, <2>1 DEF ViewInv
  <2>4. QED
    BY <1>3, <1>5, <1>13, <2>1, <2>2, <2>3, ParkedEntry
<1>14. ASSUME NEW j \in Inos, inodes[j].name = from
       PROVE  /\ EntryInv(j)' /\ inodes'[j].cache = NoFI /\ inodes'[j] \in Entry
              /\ inodes'[j].name = to /\ j = p2i[from]
  <2>1. /\ EntryInv(j) /\ inodes[j] \in Entry /\ j = p2i[from] /\ j # 0
        /\ inodes[j].det = NoPark /\ fileOf[j] = View(from)
    BY <1>4, <1>14 DEF TypeInv, TableInv, EntryInv, Inos
  <2>2. j # p2i[to]
    BY <1>1, <1>4, <1>14, <2>1 DEF TableInv
  <2>3. inodes'[j] = [inodes[j] EXCEPT !.name = to, !.cache = NoFI]
    BY <1>2, <2>1, <2>2
  <2>4. /\ inodes'[j] \in Entry /\ inodes'[j].name = to /\ inodes'[j].cache = NoFI
        /\ inodes'[j].det = NoPark /\ inodes'[j].nlookup = inodes[j].nlookup
    BY <2>1, <2>3, BlankType DEF Entry, AnyName
  <2>5. p2i'[to] = j /\ refs' = refs /\ fileOf' = fileOf /\ nextIno' = nextIno
    BY <1>1, <1>3, <1>11, <2>1 DEF fresh
  <2>6. QED
    BY <1>1, <1>6, <1>14, <2>1, <2>4, <2>5, NamesApart DEF EntryInv
<1>15. inodes' \in [Inos -> Entry]
  <2>1. \A j \in Inos : inodes'[j] \in Entry
    BY <1>4, <1>12, <1>13, <1>14 DEF TypeInv
  <2>2. QED
    BY <1>2, <2>1
<1>16. TableInv'
  <2>1. \A n \in Names : p2i'[n] # 0 => inodes'[p2i'[n]].name = n
    <3>1. ASSUME NEW n \in Names, p2i[n] # 0
          PROVE  p2i[n] \in Inos /\ inodes[p2i[n]].name = n
      BY <1>4, <3>1, InoOf DEF TableInv
    <3>2. QED
      BY <1>11, <1>12, <1>14, <3>1
  <2>2. \A j \in Inos : inodes'[j].name # "none" => inodes[j].name # "none"
    BY <1>12, NamesApart
  <2>3. \A j \in Inos : EntryInv(j)'
    BY <1>12, <1>13, <1>14
  <2>4. QED
    BY <1>3, <1>4, <2>1, <2>2, <2>3 DEF TableInv, fresh
<1>17. CacheInv'
  BY <1>3, <1>4, <1>12, <1>13, <1>14, BlankFields DEF CacheInv, Fits, fresh
<1>18. TypeInv'
  <2>1. /\ overlay' \in [Names -> Nat] /\ p2i' \in [Names -> 0..MaxIno]
        /\ tombs' \in SUBSET Names /\ written' \in SUBSET Names
    BY <1>1, <1>3, <1>4, Bounds, ViewType DEF TypeInv, Hides
  <2>2. QED
    BY <1>3, <1>4, <1>9, <1>10, <1>15, <2>1 DEF TypeInv, fresh
<1>19. QED
  BY <1>7, <1>8, <1>9, <1>10, <1>16, <1>17, <1>18 DEF FuseInv

-----------------------------------------------------------------------------
(* The committing thread.                                                  *)

\* It comes in between any two steps of a request: what the request holds
\* still names its file, and offsets it holds are old only until the sweep.
LEMMA CommitStepKeeps ==
  ASSUME FuseInv,
         \/ \E plan \in SUBSET (Changed \ Busy) : BeginCommit(plan)
         \/ Swap \/ Bump \/ ForgetCommitted
  PROVE  FuseInv'
<1>1. UNCHANGED <<tables, req, refs, fresh>>
  BY DEF BeginCommit, Swap, Bump, ForgetCommitted
<1>2. TypeInv /\ StoreInv /\ ViewInv /\ TableInv /\ CacheInv /\ HandleInv /\ ReqInv
  BY DEF FuseInv
<1>3. StoreInv' /\ ViewKept
  BY <1>1, <1>2, CommitKeeps DEF tables
<1>4. ViewInv' /\ HandleInv' /\ TableInv'
  BY <1>1, <1>2, <1>3, ViewKeeps, HandlesStay, TableStays DEF Recached,
    tables, fresh
<1>5. TypeInv'
  <2>1. CASE \E plan \in SUBSET (Changed \ Busy) : BeginCommit(plan)
    BY <1>1, <1>2, <2>1 DEF TypeInv, BeginCommit, Changed, store, tables,
      fresh
  <2>2. CASE Swap
    BY <1>1, <1>2, <2>2 DEF TypeInv, Swap, SwapBase, tables, fresh
  <2>3. CASE Bump
    BY <1>1, <1>2, <2>3 DEF TypeInv, Bump, tables, fresh
  <2>4. CASE ForgetCommitted
    BY <1>1, <1>2, <2>4 DEF TypeInv, ForgetCommitted, tables, fresh
  <2>5. QED
    BY <2>1, <2>2, <2>3, <2>4
<1>6. /\ written' \subseteq written /\ gen <= gen' /\ gen \in Nat /\ gen' \in Nat
      /\ \A fi : Fits(fi) => Fits(fi)'
      /\ \A g \in Nat, b \in Nat :
           /\ g <= gen
           /\ b = baseNo \/ g < gen \/ commit.pc = "swapped"
           => b = baseNo' \/ g < gen' \/ commit'.pc = "swapped"
  <2>1. CASE \E plan \in SUBSET (Changed \ Busy) : BeginCommit(plan)
    BY <1>1, <1>2, <2>1 DEF TypeInv, BeginCommit, store, tables, Fits
  <2>2. CASE Swap
    BY <1>1, <1>2, <2>2 DEF TypeInv, Swap, SwapBase, tables, Fits
  <2>3. CASE Bump
    BY <1>1, <1>2, <2>3 DEF TypeInv, StoreInv, Bump, tables, Fits
  <2>4. CASE ForgetCommitted
    BY <1>1, <1>2, <2>4 DEF TypeInv, ForgetCommitted, tables, Fits
  <2>5. QED
    BY <2>1, <2>2, <2>3, <2>4
<1>7. CacheInv'
  BY <1>1, <1>2, <1>6 DEF CacheInv, tables, fresh
<1>8. ReqInv'
  <2>1. Held => Held'
    BY <1>1 DEF Held, tables
  <2>2. /\ req' = req /\ req \in Req /\ fileOf' = fileOf /\ p2i' = p2i
        /\ handles' = handles
    BY <1>1, <1>2 DEF TypeInv, tables, fresh
  <2>3. req.gen \in Nat /\ req.fi \in FI /\ req.fi.base \in Nat
    BY <2>2 DEF Req, FI
  <2>4. req.pc \in {"find", "store", "overlay", "sample", "reader", "idle"} => ReqInv'
    BY <1>2, <1>3, <1>6, <2>1, <2>2 DEF ReqInv, ViewKept
  <2>5. req.pc \in {"relook", "refresh"} => ReqInv'
    BY <1>2, <1>3, <1>6, <2>1, <2>2, <2>3 DEF ReqInv, ViewKept
  <2>6. req.pc = "core" => ReqInv'
    BY <1>2, <1>3, <2>2 DEF ReqInv, ViewKept
  <2>7. QED
    BY <2>2, <2>4, <2>5, <2>6 DEF Req
<1>9. QED
  BY <1>3, <1>4, <1>5, <1>7, <1>8 DEF FuseInv

-----------------------------------------------------------------------------
(* The specification.                                                      *)

\* At mount no name has a nodeid and every file is a member.
LEMMA FuseInitially ==
  ASSUME Init
  PROVE  FuseInv
<1> DEFINE members == {n \in Names : Archived[n] # 0}
<1>1. Cardinality(members) \in Nat
  <2>1. IsFiniteSet(members)
    BY FS_Subset
  <2>2. QED
    BY <2>1, FS_CardinalityType
<1>2. /\ nextFile = 1 + Cardinality(members)
      /\ \A n \in Names : Archived[n] <= Cardinality(members)
  BY DEF Init
<1> HIDE DEF members
<1>3. Archived \in [Names -> Nat]
  BY Bounds
<1>4. TypeInv
  <2>1. commit \in [pc : {"idle", "persisted", "swapped", "bumped"}, plan : SUBSET Names]
    BY DEF Init
  <2>2. p2i \in [Names -> 0..MaxIno] /\ refs \in [Inos -> Nat] /\ fileOf \in [Inos -> Nat]
    BY Bounds DEF Init
  <2>3. inodes \in [Inos -> Entry] /\ handles \in [Handles -> Handle] /\ req \in Req
    BY BlankType DEF Init
  <2>4. QED
    BY <1>1, <1>2, <1>3, <2>1, <2>2, <2>3 DEF Init, TypeInv
<1>5. StoreInv
  BY DEF Init, StoreInv
<1>6. \A n \in Names : View(n) = Archived[n]
  BY DEF Init, View
<1>7. ViewInv
  BY <1>1, <1>2, <1>3, <1>6 DEF ViewInv
<1>8. TableInv
  BY BlankFields, NamesApart DEF Init, TableInv, EntryInv
<1>9. CacheInv /\ HandleInv
  BY BlankFields DEF Init, CacheInv, HandleInv, NoHandle
<1>10. ReqInv
  BY BlankFields DEF Init, ReqInv
<1>11. QED
  BY <1>4, <1>5, <1>7, <1>8, <1>9, <1>10 DEF FuseInv

\* Every step of every request and of a commit keeps the invariant.
LEMMA FuseNext ==
  ASSUME FuseInv, [Next]_fuseVars
  PROVE  FuseInv'
<1>1. ASSUME NEW n \in Names,
             \/ BeginLookup(n) \/ Create(n) \/ ReadDir(n) \/ BeginUnlink(n)
             \/ \E to \in Names : BeginRename(n, to)
      PROVE  FuseInv'
  BY <1>1, BeginLookupKeeps, CreateKeeps, ReadDirKeeps, BeginUnlinkKeeps,
    BeginRenameKeeps
<1>2. ASSUME NEW i \in Inos,
             \/ BeginGetattr(i) \/ BeginOpen(i) \/ OpenWrite(i) \/ Truncate(i)
             \/ OpenDetached(i) \/ \E k \in 1..MaxRefs : Forget(i, k)
      PROVE  FuseInv'
  BY <1>2, BeginGetattrKeeps, BeginOpenKeeps, OpenWriteKeeps, TruncateKeeps,
     OpenDetachedKeeps, ForgetKeeps
<1>3. ASSUME NEW h \in Handles, BeginRead(h) \/ Release(h)
      PROVE  FuseInv'
  BY <1>3, BeginReadKeeps, ReleaseKeeps
<1>4. ASSUME \/ Find \/ StoreLookup \/ StoreFi \/ Sample \/ OpenReader \/ OpenOverlay
             \/ Relook \/ Refresh \/ Unlink \/ Rename \/ ParkRefused
      PROVE  FuseInv'
  BY <1>4, FindKeeps, StoreLookupKeeps, StoreFiKeeps, SampleKeeps,
    OpenReaderKeeps, OpenOverlayKeeps, RelookKeeps, RefreshKeeps,
    UnlinkKeeps, RenameKeeps, ParkRefusedKeeps
<1>5. ASSUME UNCHANGED fuseVars PROVE FuseInv'
  <2>1. UNCHANGED <<store, commit, tables, refs, fresh>> /\ req' = req
    BY <1>5 DEF fuseVars
  <2>2. Untouched /\ ViewKept
    BY <2>1, IdleStep DEF FuseInv, TypeInv
  <2>3. ReqInv'
    BY <2>1, <2>2 DEF FuseInv, ReqInv, Held, Fits, ViewKept, store, tables,
      fresh
  <2>4. QED
    BY <2>2, <2>3 DEF FuseInv, Untouched
<1>6. QED
  BY <1>1, <1>2, <1>3, <1>4, <1>5, CommitStepKeeps DEF Next

\* FuseInv holds in every state: every request handler of ratarmount-fuse and
\* every phase of a live commit keeps it.
THEOREM FuseInvariance == FuseSpec => []FuseInv
<1>1. Init => FuseInv
  BY FuseInitially
<1>2. FuseInv /\ [Next]_fuseVars => FuseInv'
  BY FuseNext
<1>3. QED
  BY <1>1, <1>2, PTL DEF FuseSpec

\* A nodeid the kernel holds answers for one file for as long as it is held,
\* and no two nodeids answer for the same file: unlink, rename over, commits
\* and the sweep of the caches never hand a nodeid to another file.
THEOREM NodeidKeepsFileHolds == FuseSpec => []NodeidKeepsFile
<1>1. ASSUME FuseInv PROVE NodeidKeepsFile
  <2>1. ASSUME NEW i \in Inos, inodes[i] # NoEntry PROVE Answer(i) = fileOf[i]
    <3>1. inodes[i] \in Entry /\ EntryInv(i) /\ inodes[i].name # "none"
      BY <1>1, <2>1 DEF FuseInv, TypeInv, TableInv, EntryInv
    <3>2. CASE inodes[i].name = Stale
      BY <3>1, <3>2, BlankFields DEF EntryInv, Answer, Detached
    <3>3. CASE inodes[i].name \in Names
      <4>1. ~Detached(inodes[i]) /\ fileOf[i] = View(inodes[i].name)
        BY <3>1, <3>3 DEF EntryInv, Detached
      <4>2. inodes[i].cache # NoFI => inodes[i].cache.file = fileOf[i]
        BY <1>1 DEF FuseInv, CacheInv
      <4>3. QED
        BY <4>1, <4>2 DEF Answer
    <3>4. QED
      BY <3>1, <3>2, <3>3 DEF Entry, AnyName
  <2>2. ASSUME NEW i \in Inos, inodes[i] # NoEntry PROVE inodes[i].name # "none"
    BY <1>1, <2>2 DEF FuseInv, TableInv, EntryInv
  <2>3. QED
    BY <1>1, <2>1, <2>2 DEF NodeidKeepsFile, FuseInv, TableInv
<1>2. QED
  BY <1>1, FuseInvariance, PTL

\* nlookup is the number of references the kernel holds, and a detached entry
\* stays in the table only while there is one.
THEOREM CountsAgreeHolds == FuseSpec => []CountsAgree
<1>1. ASSUME FuseInv PROVE CountsAgree
  <2>1. ASSUME NEW i \in Inos
        PROVE  inodes[i].nlookup = refs[i] /\ (Detached(inodes[i]) => refs[i] > 0)
    BY <1>1, DetachedFile DEF FuseInv, TableInv, EntryInv
  <2>2. QED
    BY <2>1 DEF CountsAgree
<1>2. QED
  BY <1>1, FuseInvariance, PTL

\* A cached member has the offsets of the base served, unless
\* sweep_if_generation_advanced has yet to drop it or the commit has yet to bump
\* the generation.
THEOREM CachedMembersFitHolds == FuseSpec => []CachedMembersFit
<1>1. ASSUME FuseInv PROVE CachedMembersFit
  BY <1>1 DEF FuseInv, CacheInv, Fits, CachedMembersFit
<1>2. QED
  BY <1>1, FuseInvariance, PTL

-----------------------------------------------------------------------------
(* What a step may do to an open handle.                                   *)

\* The handle reads what it read, and is of the file it was of.
SameFile(h) == handles'[h].reads = handles[h].reads /\ handles'[h].file = handles[h].file

\* A new handle takes no number that is in use.
LEMMA PutElsewhere ==
  ASSUME TypeInv, NEW o, Put(o), NEW h \in Handles, handles[h] # NoHandle
  PROVE  SameFile(h)
<1>1. PICK fh \in Handles :
        handles[fh] = NoHandle /\ handles' = [handles EXCEPT ![fh] = o]
  BY DEF Put, FreeHandles
<1>2. QED
  BY <1>1 DEF TypeInv, SameFile

\* Marking a handle keeps its file.
LEMMA MarkSame ==
  ASSUME TypeInv, NEW S, handles' = MarkDetached(handles, S), NEW h \in Handles
  PROVE  SameFile(h)
<1>1. handles[h] \in Handle
  BY DEF TypeInv
<1>2. handles'[h] \in {handles[h], [handles[h] EXCEPT !.det = TRUE]}
  BY DEF MarkDetached
<1>3. QED
  BY <1>1, <1>2 DEF Handle, SameFile

\* Only a refresh gives an open handle another reader.
LEMMA OnlyRefresh ==
  ASSUME TypeInv, [Next]_fuseVars, ~Refresh, NEW h \in Handles, handles[h] # NoHandle,
         handles'[h] # NoHandle
  PROVE  SameFile(h)
<1>1. ASSUME handles' = handles PROVE SameFile(h)
  BY <1>1 DEF SameFile
<1>2. ASSUME NEW n \in Names,
             \/ BeginLookup(n) \/ Create(n) \/ ReadDir(n) \/ BeginUnlink(n)
             \/ \E to \in Names : BeginRename(n, to)
      PROVE  SameFile(h)
  BY <1>1, <1>2, PutElsewhere
     DEF BeginLookup, Create, ReadDir, BeginUnlink, BeginRename, tables
<1>3. ASSUME NEW i \in Inos,
             \/ BeginGetattr(i) \/ BeginOpen(i) \/ OpenWrite(i) \/ Truncate(i)
             \/ OpenDetached(i) \/ \E k \in 1..MaxRefs : Forget(i, k)
      PROVE  SameFile(h)
  BY <1>1, <1>3, PutElsewhere
     DEF BeginGetattr, BeginOpen, OpenWrite, Truncate, OpenDetached, Forget
<1>4. ASSUME NEW g \in Handles, BeginRead(g) \/ Release(g)
      PROVE  SameFile(h)
  <2>1. CASE BeginRead(g)
    BY <1>1, <2>1 DEF BeginRead
  <2>2. CASE Release(g)
    BY <2>2 DEF Release, TypeInv, SameFile
  <2>3. QED
    BY <1>4, <2>1, <2>2
<1>5. ASSUME \/ Find \/ StoreLookup \/ StoreFi \/ Sample \/ OpenReader \/ OpenOverlay
             \/ Relook \/ ParkRefused
      PROVE  SameFile(h)
  BY <1>1, <1>5, PutElsewhere DEF Find, StoreLookup, StoreFi, Sample,
    OpenReader, OpenOverlay, Relook, ParkRefused, tables
<1>6. ASSUME Unlink \/ Rename PROVE SameFile(h)
  BY <1>6, MarkSame DEF Unlink, Rename
<1>7. ASSUME \/ \E plan \in SUBSET (Changed \ Busy) : BeginCommit(plan)
             \/ Swap \/ Bump \/ ForgetCommitted \/ UNCHANGED fuseVars
      PROVE  SameFile(h)
  BY <1>1, <1>7 DEF BeginCommit, Swap, Bump, ForgetCommitted, tables, fuseVars
<1>8. QED
  BY <1>2, <1>3, <1>4, <1>5, <1>6, <1>7 DEF Next

\* A refresh gives the handle its own file, unless a commit moved the members
\* since the generation it keeps.
LEMMA RefreshReads ==
  ASSUME FuseInv, Refresh, NEW h \in Handles
  PROVE  \/ SameFile(h)
         \/ handles'[h].reads = handles'[h].file
         \/ handles'[h].gen < gen \/ commit.pc = "swapped"
<1>1. /\ req.pc = "refresh"
      /\ handles' = [handles EXCEPT ![req.fh].reads = Opens(req.fi),
                                    ![req.fh].gen = req.gen]
  BY DEF Refresh
<1>2. /\ req.fi.file = handles[req.fh].file /\ req.fh \in Handles /\ TypeInv /\ StoreInv
      /\ \/ req.fi.tag = "overlay" \/ req.fi.base = baseNo \/ req.gen < gen
         \/ commit.pc = "swapped"
  BY <1>1 DEF FuseInv, ReqInv
<1>3. CASE h # req.fh
  BY <1>1, <1>2, <1>3 DEF TypeInv, SameFile
<1>4. CASE h = req.fh
  <2>1. handles[h] \in Handle
    BY <1>2 DEF TypeInv
  <2>2. /\ handles'[h].reads = Opens(req.fi) /\ handles'[h].gen = req.gen
        /\ handles'[h].file = handles[h].file
    BY <1>1, <1>2, <1>4, <2>1 DEF TypeInv, Handle
  <2>3. req.fi.tag = "overlay" \/ req.fi.base = baseNo => Opens(req.fi) = req.fi.file
    BY <1>2 DEF Opens, TypeInv, StoreInv
  <2>4. QED
    BY <1>2, <1>4, <2>2, <2>3
<1>5. QED
  BY <1>3, <1>4

\* An open handle never comes to read another file, and it loses its own only
\* to a commit that the handle's generation already shows, so that the next
\* read refreshes it.
THEOREM HandlesKeepFileHolds == FuseSpec => HandlesKeepFile
<1>1. ASSUME FuseInv, FuseInv', [Next]_fuseVars, NEW h \in Handles
      PROVE  /\ handles'[h].reads \in {handles'[h].file, Garbage}
             /\ /\ handles[h] # NoHandle /\ handles'[h] # NoHandle
                /\ handles[h].reads = handles[h].file
                => \/ handles'[h].reads = handles'[h].file
                   \/ handles'[h].gen < gen \/ commit.pc = "swapped"
  <2>1. handles'[h].reads \in {handles'[h].file, Garbage}
    BY <1>1 DEF FuseInv, HandleInv
  <2>2. CASE Refresh
    BY <1>1, <2>1, <2>2, RefreshReads DEF SameFile
  <2>3. CASE ~Refresh
    BY <1>1, <2>1, <2>3, OnlyRefresh DEF SameFile, FuseInv
  <2>4. QED
    BY <2>2, <2>3
<1>2. FuseInv /\ FuseInv' /\ [Next]_fuseVars =>
        [\A h \in Handles :
           /\ handles'[h].reads \in {handles'[h].file, Garbage}
           /\ /\ handles[h] # NoHandle /\ handles'[h] # NoHandle
              /\ handles[h].reads = handles[h].file
              => \/ handles'[h].reads = handles'[h].file
                 \/ handles'[h].gen < gen \/ commit.pc = "swapped"]_fuseVars
  BY <1>1
<1>3. QED
  BY <1>2, FuseInvariance, PTL DEF FuseSpec, HandlesKeepFile
=============================================================================
