--------------------------- MODULE PrefetchProofs ---------------------------
(***************************************************************************)
(* Proofs about Prefetch, for every set of readers and threads, every      *)
(* limit, chunk size, file length and buffer.                              *)
(*                                                                         *)
(* The permits are counted over the threads, and each step adds or removes *)
(* the threads its own lines name.  That a read starts inside the front    *)
(* chunk needs the shape of a readahead (ReaderInv): the chunks of a queue *)
(* follow each other in the file and belong to its reader, and where one   *)
(* does not begin at the end of the last, or at the reader, it begins at   *)
(* a chunk boundary, which a read of the range cache does not cross.       *)
(***************************************************************************)
EXTENDS Prefetch, Integers, FiniteSetTheorems, TLAPS

Work == [at : {"free", "begin", "get", "got", "done", "failed", "taken"},
         owner : Readers \cup {None}, start : 0..Size, len : 0..Chunk]
Place == [pos : 0..Size, adjacent : BOOLEAN]
Ahead == [on : BOOLEAN, next : 0..Size, window : 1..Parallel,
          cancelled : BOOLEAN, pending : Seq(Threads)]
Reading == [at : {"rest", "fill", "join", "closed", "panicked"},
            buf : {0} \cup Bufs, got : 0..Size]

StateTypes ==
  /\ used \in Nat /\ worker \in [Threads -> Work]
  /\ file \in [Readers -> Place] /\ pf \in [Readers -> Ahead] /\ call \in [Readers -> Reading]

\* The end of a worker's chunk, and the reader's position with the bytes the
\* read in progress already has.
End(t) == worker[t].start + worker[t].len
Reached(r) == file[r].pos + call[r].got

\* The queue holds the reader's own chunks, in the order of the file, up to
\* the position the readahead has come to.
QueueInv(r) ==
  LET q == pf[r].pending IN
  /\ \A i \in 1..Len(q) : /\ worker[q[i]].at # "free" /\ worker[q[i]].owner = r
                          /\ worker[q[i]].len > 0 /\ End(q[i]) <= pf[r].next
  /\ \A i, j \in 1..Len(q) : i < j => End(q[i]) <= worker[q[j]].start
  /\ ~pf[r].on => q = <<>>

\* What a read in progress knows.
CallInv(r) ==
  /\ Reached(r) <= Size
  /\ pf[r].on => Reached(r) <= pf[r].next
  /\ call[r].at # "fill" => call[r].got = 0
  /\ call[r].at \in {"fill", "join"} => /\ pf[r].on /\ call[r].buf \in Bufs
                                        /\ file[r].pos < Size
  /\ call[r].at = "join" => pf[r].pending # <<>> /\ Front(r).start <= file[r].pos

\* A chunk begins where the one before it ends, or at a chunk boundary.
After(n, e) == n = e \/ n % Chunk = 0 \/ n = Size

AlignInv(r) ==
  LET q == pf[r].pending IN
  ~local /\ pf[r].on =>
    /\ q = <<>> => After(pf[r].next, Reached(r))
    /\ q # <<>> =>
         /\ Reached(r) < End(q[1])
         /\ Reached(r) < worker[q[1]].start => worker[q[1]].start % Chunk = 0
         /\ \A i \in 1..(Len(q) - 1) :
              worker[q[i + 1]].start = End(q[i]) \/ worker[q[i + 1]].start % Chunk = 0
         /\ After(pf[r].next, End(q[Len(q)]))

ReaderInv(r) == QueueInv(r) /\ CallInv(r) /\ AlignInv(r)

PrefetchInv == StateTypes /\ PermitsHeld /\ \A r \in Readers : ReaderInv(r)

-----------------------------------------------------------------------------
(* Chunk boundaries. *)

\* Division by the chunk size.
LEMMA DivMod ==
  ASSUME NEW p \in Nat
  PROVE  /\ p = Chunk * (p \div Chunk) + (p % Chunk) /\ p \div Chunk \in Nat
         /\ p % Chunk \in Nat /\ p % Chunk < Chunk
BY PrefetchAssumption

\* The end of a chunk is a boundary.
LEMMA BoundaryAt ==
  ASSUME NEW p \in Nat
  PROVE  (p + (Chunk - (p % Chunk))) % Chunk = 0
<1>1. ASSUME NEW k \in Nat PROVE (Chunk * k) % Chunk = 0
  BY PrefetchAssumption
<1>2. p + (Chunk - (p % Chunk)) = Chunk * ((p \div Chunk) + 1)
  BY PrefetchAssumption, DivMod
<1>3. QED
  BY <1>1, <1>2, DivMod, PrefetchAssumption

\* There is no boundary inside a chunk.
LEMMA BoundaryAfter ==
  ASSUME NEW p \in Nat, NEW s \in Nat, p < s, s % Chunk = 0
  PROVE  p + (Chunk - (p % Chunk)) <= s
<1> DEFINE a == p \div Chunk
           b == s \div Chunk
<1>1. /\ a \in Nat /\ b \in Nat /\ p % Chunk \in Nat
      /\ p = Chunk * a + (p % Chunk) /\ s = Chunk * b
  BY DivMod, PrefetchAssumption
<1> HIDE DEF a, b
<1>2. Chunk * a < Chunk * b
  BY <1>1, PrefetchAssumption
<1>3. a < b
  BY <1>1, <1>2, PrefetchAssumption
<1>4. Chunk * (a + 1) <= Chunk * b
  BY <1>1, <1>3, PrefetchAssumption
<1>5. QED
  BY <1>1, <1>4, PrefetchAssumption

\* A window ends inside the file, and under a known identity at a boundary.
LEMMA WindowIs ==
  ASSUME NEW p \in Nat, p < Size
  PROVE  /\ WindowLen(p) \in 1..Chunk /\ p + WindowLen(p) <= Size
         /\ token = "known" => (p + WindowLen(p)) % Chunk = 0 \/ p + WindowLen(p) = Size
<1>1. p % Chunk \in Nat /\ p % Chunk < Chunk /\ (p + (Chunk - (p % Chunk))) % Chunk = 0
  BY DivMod, BoundaryAt
<1> DEFINE m == p % Chunk
           len == Min(Chunk, Size - p)
<1>2. len \in 1..Chunk /\ p + len <= Size /\ (len = Chunk \/ p + len = Size)
  BY PrefetchAssumption DEF Min
<1>3. WindowLen(p) = IF token = "known" THEN Min(len, Chunk - m) ELSE len
  BY DEF WindowLen
<1>4. m \in Nat /\ m < Chunk /\ (p + (Chunk - m)) % Chunk = 0
  BY <1>1
<1> HIDE DEF m, len
<1>5. QED
  BY <1>2, <1>3, <1>4, PrefetchAssumption DEF Min

\* A cached read is no longer than asked, and one of the range cache stays in
\* its chunk.
LEMMA HitIs ==
  ASSUME NEW p \in Nat, p < Size, NEW n \in Nat \ {0}
  PROVE  /\ ReadCachedInto(p, n) \in 0..n /\ p + ReadCachedInto(p, n) <= Size
         /\ ~local => \A s \in Nat : p < s /\ s % Chunk = 0 => p + ReadCachedInto(p, n) <= s
<1> DEFINE m == p % Chunk
<1>1. m \in Nat /\ m < Chunk
  BY DivMod
<1>2. \A s \in Nat : p < s /\ s % Chunk = 0 => p + (Chunk - m) <= s
  BY BoundaryAfter
<1>3. ReadCachedInto(p, n) = IF local THEN Min(n, Size - p)
        ELSE IF token = "known" /\ ChunkOf(p) \in cached
             THEN Min(Min(n, Chunk - m), Size - p) ELSE 0
  BY DEF ReadCachedInto
<1> HIDE DEF m
<1>4. ReadCachedInto(p, n) \in 0..n /\ p + ReadCachedInto(p, n) <= Size
  BY <1>1, <1>3, PrefetchAssumption DEF Min
<1>5. ~local => ReadCachedInto(p, n) <= Chunk - m
  BY <1>1, <1>3, PrefetchAssumption DEF Min
<1>6. ASSUME ~local, NEW s \in Nat, p < s, s % Chunk = 0
      PROVE  p + ReadCachedInto(p, n) <= s
  <2>1. p + (Chunk - m) <= s
    BY <1>2, <1>6
  <2>2. QED
    BY <1>1, <1>4, <1>5, <1>6, <2>1, PrefetchAssumption
<1>7. QED
  BY <1>4, <1>6

-----------------------------------------------------------------------------
(* Permits. *)

Held == {t \in Threads : Holding(t)}

\* Threads that stop holding a permit give back as many as they are.
LEMMA PermitsBack ==
  ASSUME StateTypes, PermitsHeld, NEW S, S \subseteq Held, Held' = Held \ S,
         used' = used - Cardinality(S)
  PROVE  used' \in Nat /\ PermitsHeld'
<1>1. IsFiniteSet(Held)
  BY PrefetchAssumption, FS_Subset DEF Held
<1>2. IsFiniteSet(S) /\ Held \cap S = S
  BY <1>1, FS_Subset
<1>3. Cardinality(Held \ S) = Cardinality(Held) - Cardinality(S)
  BY <1>1, <1>2, FS_Difference
<1>4. Cardinality(Held) \in Nat /\ Cardinality(S) \in Nat /\ Cardinality(Held \ S) \in Nat
  BY <1>1, <1>2, FS_Difference, FS_CardinalityType
<1>5. used = Cardinality(Held) /\ used <= Limit
  BY DEF PermitsHeld, Held
<1>6. used' = Cardinality(Held') /\ used' \in Nat /\ used' <= Limit
  BY <1>3, <1>4, <1>5, PrefetchAssumption
<1>7. QED
  BY <1>6 DEF PermitsHeld, Held

\* One worker ends, or its payload is consumed.
LEMMA OneBack ==
  ASSUME StateTypes, PermitsHeld, NEW t \in Held, Held' = Held \ {t}, used' = used - 1
  PROVE  used' \in Nat /\ PermitsHeld'
<1>1. Cardinality({t}) = 1
  BY FS_Singleton
<1>2. QED
  BY <1>1, PermitsBack

\* A permit is taken below the limit.
LEMMA PermitTaken ==
  ASSUME StateTypes, PermitsHeld, NEW t \in Threads, t \notin Held, Held' = Held \cup {t},
         used < Limit, used' = used + 1
  PROVE  used' \in Nat /\ PermitsHeld'
<1>1. IsFiniteSet(Held)
  BY PrefetchAssumption, FS_Subset DEF Held
<1>2. Cardinality(Held \cup {t}) = Cardinality(Held) + 1
  BY <1>1, FS_AddElement
<1>3. used = Cardinality(Held) /\ used \in Nat
  BY DEF PermitsHeld, Held, StateTypes
<1>4. used' = Cardinality(Held') /\ used' \in Nat /\ used' <= Limit
  BY <1>2, <1>3, PrefetchAssumption
<1>5. QED
  BY <1>4 DEF PermitsHeld, Held

\* A step within the life of a permit.
LEMMA PermitsKept ==
  ASSUME StateTypes, PermitsHeld, Held' = Held, used' = used
  PROVE  used' \in Nat /\ PermitsHeld'
BY DEF PermitsHeld, Held, StateTypes

\* Dropping a queue changes its threads only.
LEMMA DetachIs ==
  ASSUME StateTypes, PermitsHeld, NEW r \in Readers, Detach(r, pf[r])
  PROVE  /\ worker' \in [Threads -> Work] /\ used' \in Nat /\ PermitsHeld'
         /\ \A t \in Threads \ Workers(pf[r]) : worker'[t] = worker[t]
<1> DEFINE W == Workers(pf[r])
           ended == {t \in W : worker[t].at \in {"done", "taken", "failed"}}
<1>1. W \subseteq Threads
  <2>1. pf[r].pending \in Seq(Threads)
    BY DEF StateTypes, Ahead
  <2>2. QED
    BY <2>1 DEF Workers
<1>2. /\ \A t \in Threads : worker'[t] = IF t \in ended THEN Free
            ELSE IF t \in W THEN [worker[t] EXCEPT !.owner = None] ELSE worker[t]
      /\ used' = used - Cardinality({t \in ended : Holding(t)})
      /\ DOMAIN worker' = Threads /\ worker' = [t \in Threads |-> worker'[t]]
  BY DEF Detach
<1> HIDE DEF W
<1>3. Free \in Work /\ Free.at = "free"
  BY PrefetchAssumption DEF Free, Work
<1>4. \A t \in Threads : worker'[t] \in Work /\ (t \notin ended => worker'[t].at = worker[t].at)
  BY <1>2, <1>3 DEF StateTypes, Work
<1>5. \A t \in Threads : Holding(t)' <=> Holding(t) /\ t \notin ended
  BY <1>2, <1>3, <1>4 DEF Holding
<1>6. Held' = Held \ {t \in ended : Holding(t)} /\ {t \in ended : Holding(t)} \subseteq Held
  BY <1>1, <1>5 DEF Held
<1>7. used' \in Nat /\ PermitsHeld'
  BY <1>2, <1>6, PermitsBack
<1>8. worker' \in [Threads -> Work]
  BY <1>2, <1>4
<1>9. QED
  BY <1>2, <1>7, <1>8 DEF W

\* The end of a worker.
LEMMA ExitIs ==
  ASSUME StateTypes, PermitsHeld, NEW t \in Threads, NEW at \in {"done", "failed"},
         worker[t].at \in {"begin", "get", "got"}, Exit(t, at)
  PROVE  /\ worker' \in [Threads -> Work] /\ used' \in Nat /\ PermitsHeld'
         /\ \A u \in Threads : worker[u].owner # None =>
              /\ worker'[u].start = worker[u].start /\ worker'[u].len = worker[u].len
              /\ worker'[u].owner = worker[u].owner
              /\ worker[u].at # "free" => worker'[u].at # "free"
<1>1. t \in Held
  BY DEF Held, Holding
<1>2. Free \in Work /\ Free.at = "free"
  BY PrefetchAssumption DEF Free, Work
<1>3. CASE worker[t].owner = None
  <2>1. worker' = [worker EXCEPT ![t] = Free] /\ used' = used - 1
    BY <1>3 DEF Exit
  <2>2. \A u \in Threads : worker'[u] = IF u = t THEN Free ELSE worker[u]
    BY <2>1 DEF StateTypes
  <2>3. Held' = Held \ {t}
    BY <1>2, <2>2 DEF Held, Holding
  <2>4. used' \in Nat /\ PermitsHeld'
    BY <1>1, <2>1, <2>3, OneBack
  <2>5. worker' \in [Threads -> Work]
    BY <1>2, <2>1 DEF StateTypes
  <2>6. QED
    BY <1>3, <2>2, <2>4, <2>5
<1>4. CASE worker[t].owner # None
  <2>1. worker' = [worker EXCEPT ![t].at = at]
        /\ used' = IF at = "failed" THEN used - 1 ELSE used
    BY <1>4 DEF Exit
  <2>2. /\ \A u \in Threads \ {t} : worker'[u] = worker[u]
        /\ worker'[t].at = at /\ worker'[t].owner = worker[t].owner
        /\ worker'[t].start = worker[t].start /\ worker'[t].len = worker[t].len
    BY <2>1 DEF StateTypes, Work
  <2>3. Held' = IF at = "failed" THEN Held \ {t} ELSE Held
    BY <1>1, <2>2 DEF Held, Holding
  <2>4. used' \in Nat /\ PermitsHeld'
    BY <1>1, <2>1, <2>3, OneBack, PermitsKept
  <2>5. worker' \in [Threads -> Work]
    BY <2>1 DEF StateTypes, Work
  <2>6. QED
    BY <2>2, <2>4, <2>5
<1>5. QED
  BY <1>3, <1>4

-----------------------------------------------------------------------------
(* Readers. *)

\* A reader whose own state and whose workers' chunks stay as they are.
LEMMA ReaderKept ==
  ASSUME StateTypes, NEW s \in Readers, ReaderInv(s), local => local',
         pf'[s].on = pf[s].on, pf'[s].next = pf[s].next, pf'[s].pending = pf[s].pending,
         file'[s] = file[s], call'[s] = call[s],
         \A t \in Threads : worker[t].at # "free" /\ worker[t].owner = s =>
              /\ worker'[t].start = worker[t].start /\ worker'[t].len = worker[t].len
              /\ worker'[t].owner = s /\ worker'[t].at # "free"
  PROVE  ReaderInv(s)'
<1> DEFINE q == pf[s].pending
<1>1. q \in Seq(Threads) /\ (q # <<>> => 1 \in 1..Len(q) /\ Len(q) \in 1..Len(q) /\ Head(q) = q[1])
  BY DEF StateTypes, Ahead
<1>2. \A i \in 1..Len(q) : q[i] \in Threads
  BY <1>1
<1>3. \A i \in 1..Len(q) : /\ worker'[q[i]].start = worker[q[i]].start
                           /\ worker'[q[i]].len = worker[q[i]].len
                           /\ worker'[q[i]].owner = s /\ worker'[q[i]].at # "free"
  BY <1>2 DEF ReaderInv, QueueInv
<1>4. \A i \in 1..Len(q) : worker'[q[i]].start + worker'[q[i]].len = End(q[i])
  BY <1>3 DEF End
<1>5. Reached(s)' = Reached(s)
  BY DEF Reached
<1>6. QueueInv(s)'
  <2>1. \A i \in 1..Len(q) : /\ worker'[q[i]].at # "free" /\ worker'[q[i]].owner = s
                             /\ worker'[q[i]].len > 0
                             /\ worker'[q[i]].start + worker'[q[i]].len <= pf'[s].next
    BY <1>3, <1>4 DEF ReaderInv, QueueInv
  <2>2. \A i, j \in 1..Len(q) : i < j =>
          worker'[q[i]].start + worker'[q[i]].len <= worker'[q[j]].start
    BY <1>3, <1>4 DEF ReaderInv, QueueInv
  <2>3. ~pf'[s].on => q = <<>>
    BY DEF ReaderInv, QueueInv
  <2>4. QED
    BY <2>1, <2>2, <2>3 DEF QueueInv, End
<1>7. CallInv(s)'
  BY <1>1, <1>3, <1>5 DEF ReaderInv, CallInv, Front
<1>8. AlignInv(s)'
  <2>1. SUFFICES ASSUME ~local', pf[s].on PROVE AlignInv(s)'
    BY DEF AlignInv
  <2>2. CASE q = <<>>
    BY <1>5, <2>1, <2>2 DEF ReaderInv, AlignInv, After
  <2>3. CASE q # <<>>
    <3>1. /\ Reached(s) < worker'[q[1]].start + worker'[q[1]].len
          /\ Reached(s) < worker'[q[1]].start => worker'[q[1]].start % Chunk = 0
      BY <1>1, <1>3, <1>4, <2>1, <2>3 DEF ReaderInv, AlignInv
    <3>2. \A i \in 1..(Len(q) - 1) : i \in 1..Len(q) /\ i + 1 \in 1..Len(q)
      BY <1>1
    <3>3. \A i \in 1..(Len(q) - 1) :
              \/ worker'[q[i + 1]].start = worker'[q[i]].start + worker'[q[i]].len
              \/ worker'[q[i + 1]].start % Chunk = 0
      BY <1>3, <1>4, <2>1, <2>3, <3>2 DEF ReaderInv, AlignInv
    <3>4. After(pf[s].next, worker'[q[Len(q)]].start + worker'[q[Len(q)]].len)
      BY <1>1, <1>4, <2>1, <2>3 DEF ReaderInv, AlignInv
    <3>5. QED
      BY <1>5, <2>3, <3>1, <3>3, <3>4 DEF AlignInv, End, After
  <2>4. QED
    BY <2>2, <2>3
<1>9. QED
  BY <1>6, <1>7, <1>8 DEF ReaderInv

\* A worker in use goes on with its chunk, for the same reader.
SameChunk(t) ==
  /\ worker'[t].start = worker[t].start /\ worker'[t].len = worker[t].len
  /\ worker'[t].owner = worker[t].owner /\ worker'[t].at # "free"

\* The other readers, when a step is about one of them.
LEMMA OthersKept ==
  ASSUME PrefetchInv, NEW r \in Readers, local => local',
         \A s \in Readers \ {r} : pf'[s] = pf[s] /\ file'[s] = file[s] /\ call'[s] = call[s],
         \A t \in Threads : worker[t].at # "free" /\ worker[t].owner \in Readers \ {r} =>
           SameChunk(t),
         ReaderInv(r)'
  PROVE  \A s \in Readers : ReaderInv(s)'
<1>1. ASSUME NEW s \in Readers \ {r} PROVE ReaderInv(s)'
  <2>1. \A t \in Threads : worker[t].at # "free" /\ worker[t].owner = s =>
              /\ worker'[t].start = worker[t].start /\ worker'[t].len = worker[t].len
              /\ worker'[t].owner = s /\ worker'[t].at # "free"
    BY <1>1 DEF SameChunk
  <2>2. QED
    BY <1>1, <2>1, ReaderKept DEF PrefetchInv
<1>2. QED
  BY <1>1

\* A reader without a readahead, between two reads.
LEMMA ReaderOff ==
  ASSUME NEW r \in Readers, pf'[r] = Off, call'[r].at \notin {"fill", "join"},
         call'[r].got = 0, file'[r].pos \in 0..Size
  PROVE  ReaderInv(r)'
<1>1. ~pf'[r].on /\ pf'[r].pending = <<>>
  BY DEF Off
<1>2. Len(<<>>) = 0 /\ 1..0 = {}
  OBVIOUS
<1>3. QueueInv(r)'
  BY <1>1, <1>2 DEF QueueInv
<1>4. CallInv(r)'
  BY <1>1, PrefetchAssumption DEF CallInv, Reached
<1>5. AlignInv(r)'
  BY <1>1 DEF AlignInv
<1>6. QED
  BY <1>3, <1>4, <1>5 DEF ReaderInv

\* The states of a reader without a readahead.
LEMMA Constants ==
  /\ Off \in Ahead
  /\ Rest \in Reading /\ Rest.at \notin {"fill", "join"} /\ Rest.got = 0
  /\ Closed \in Reading /\ Closed.at \notin {"fill", "join"} /\ Closed.got = 0
BY PrefetchAssumption DEF Off, Rest, Closed, Ahead, Reading

\* A reader's own threads are its queue's.
LEMMA OwnThreads ==
  ASSUME PrefetchInv, NEW r \in Readers, NEW s \in Readers \ {r}, NEW t \in Workers(pf[r])
  PROVE  t \in Threads /\ worker[t].owner = r
<1>1. pf[r].pending \in Seq(Threads)
  BY DEF PrefetchInv, StateTypes, Ahead
<1>2. QED
  BY <1>1 DEF Workers, PrefetchInv, ReaderInv, QueueInv

\* The steps that end in a dropped readahead.
LEMMA DroppedKeeps ==
  ASSUME PrefetchInv, NEW r \in Readers, Detach(r, pf[r]), pf' = [pf EXCEPT ![r] = Off],
         NEW c \in Reading, c.at \notin {"fill", "join"}, c.got = 0,
         call' = [call EXCEPT ![r] = c],
         NEW f \in Place, file' = [file EXCEPT ![r] = f], local' = local
  PROVE  PrefetchInv'
<1>1. StateTypes /\ PermitsHeld
  BY DEF PrefetchInv
<1>2. /\ worker' \in [Threads -> Work] /\ used' \in Nat /\ PermitsHeld'
      /\ \A t \in Threads \ Workers(pf[r]) : worker'[t] = worker[t]
  BY <1>1, DetachIs
<1>3. StateTypes'
  BY <1>1, <1>2, Constants DEF StateTypes
<1>4. pf'[r] = Off /\ call'[r] = c /\ file'[r] = f
      /\ \A s \in Readers \ {r} : pf'[s] = pf[s] /\ file'[s] = file[s] /\ call'[s] = call[s]
  BY <1>1 DEF StateTypes
<1>5. f.pos \in 0..Size
  BY DEF Place
<1>6. ReaderInv(r)'
  BY <1>4, <1>5, ReaderOff
<1>7. \A t \in Threads : worker[t].at # "free" /\ worker[t].owner \in Readers \ {r} => SameChunk(t)
  BY <1>2, OwnThreads DEF SameChunk
<1>8. \A s \in Readers : ReaderInv(s)'
  BY <1>4, <1>6, <1>7, OthersKept
<1>9. QED
  BY <1>2, <1>3, <1>8 DEF PrefetchInv

-----------------------------------------------------------------------------
(* Every step keeps the invariant. *)

\* A worker's step leaves its chunk where it is, and one without a handle is
\* in no queue.
LEMMA WorkerKeeps ==
  ASSUME PrefetchInv, NEW t \in Threads, WorkerStep(t)
  PROVE  PrefetchInv'
<1>1. StateTypes /\ PermitsHeld /\ \A s \in Readers : ReaderInv(s)
  BY DEF PrefetchInv
<1>2. UNCHANGED <<file, pf, call, local>>
  BY DEF WorkerStep, WorkerBegins, WorkerGets, WorkerEnds, Get, source
<1>3. ASSUME worker' \in [Threads -> Work], used' \in Nat, PermitsHeld',
             \A u \in Threads : worker[u].owner # None =>
               /\ worker'[u].start = worker[u].start /\ worker'[u].len = worker[u].len
               /\ worker'[u].owner = worker[u].owner
               /\ worker[u].at # "free" => worker'[u].at # "free"
      PROVE  PrefetchInv'
  <2>1. StateTypes'
    BY <1>1, <1>2, <1>3 DEF StateTypes
  <2>2. ASSUME NEW s \in Readers PROVE ReaderInv(s)'
    <3>1. s # None
      BY PrefetchAssumption
    <3>2. \A u \in Threads : worker[u].at # "free" /\ worker[u].owner = s =>
              /\ worker'[u].start = worker[u].start /\ worker'[u].len = worker[u].len
              /\ worker'[u].owner = s /\ worker'[u].at # "free"
      BY <1>3, <3>1
    <3>3. QED
      BY <1>1, <1>2, <3>2, ReaderKept
  <2>3. QED
    BY <1>3, <2>1, <2>2 DEF PrefetchInv
<1>4. ASSUME NEW at \in {"done", "failed"}, worker[t].at \in {"begin", "get", "got"}, Exit(t, at)
      PROVE  PrefetchInv'
  BY <1>1, <1>3, <1>4, ExitIs
<1>5. ASSUME NEW at \in {"get", "got"}, worker[t].at \in {"begin", "get"},
             worker' = [worker EXCEPT ![t].at = at], used' = used
      PROVE  PrefetchInv'
  <2>1. /\ \A u \in Threads \ {t} : worker'[u] = worker[u]
        /\ worker'[t].at = at /\ worker'[t].owner = worker[t].owner
        /\ worker'[t].start = worker[t].start /\ worker'[t].len = worker[t].len
    BY <1>1, <1>5 DEF StateTypes, Work
  <2>2. worker' \in [Threads -> Work]
    BY <1>1, <1>5 DEF StateTypes, Work
  <2>3. Held' = Held
    BY <1>5, <2>1 DEF Held, Holding
  <2>4. used' \in Nat /\ PermitsHeld'
    BY <1>1, <1>5, <2>3, PermitsKept
  <2>5. QED
    BY <1>3, <2>1, <2>2, <2>4
<1>6. CASE WorkerBegins(t)
  BY <1>4, <1>5, <1>6 DEF WorkerBegins
<1>7. CASE WorkerGets(t)
  BY <1>4, <1>5, <1>7 DEF WorkerGets
<1>8. CASE WorkerEnds(t)
  BY <1>4, <1>8 DEF WorkerEnds
<1>9. QED
  BY <1>6, <1>7, <1>8 DEF WorkerStep

\* A synchronous read delivers at least one byte and at most what is asked.
LEMMA SyncIs ==
  ASSUME PrefetchInv, NEW r \in Readers, file[r].pos < Size, NEW most \in Nat \ {0},
         ReadSync(r, most)
  PROVE  local' = local /\ \E n \in 1..most : file[r].pos + n <= Size /\ Deliver(r, n)
<1> DEFINE p == file[r].pos
           n == Min(most, WindowLen(p))
           hit == ReadCachedInto(p, n)
<1>1. p \in Nat /\ p < Size
  BY DEF PrefetchInv, StateTypes, Place
<1>2. WindowLen(p) \in 1..Chunk /\ p + WindowLen(p) <= Size
  BY <1>1, WindowIs
<1>3. n \in 1..most /\ p + n <= Size
  BY <1>1, <1>2, PrefetchAssumption DEF Min
<1>4. hit \in 0..n /\ p + hit <= Size
  BY <1>1, <1>3, HitIs
<1>5. \/ hit > 0 /\ Deliver(r, hit) /\ UNCHANGED source
      \/ Get(p, n) /\ Deliver(r, n)
  BY DEF ReadSync
<1>6. local' = local
  BY <1>5 DEF source, Get
<1> HIDE DEF n, hit, p
<1>7. CASE hit > 0 /\ Deliver(r, hit)
  <2>1. hit \in 1..most /\ p + hit <= Size
    BY <1>3, <1>4, <1>7
  <2>2. QED
    BY <1>6, <1>7, <2>1 DEF p
<1>8. CASE Deliver(r, n)
  BY <1>3, <1>6, <1>8 DEF p
<1>9. QED
  BY <1>5, <1>7, <1>8

\* A synchronous read drops the readahead.
LEMMA AloneKeeps ==
  ASSUME PrefetchInv, NEW r \in Readers, file[r].pos < Size, NEW buf \in Bufs,
         ReadAlone(r, buf)
  PROVE  PrefetchInv'
<1>1. buf \in Nat \ {0} /\ file \in [Readers -> Place]
  BY PrefetchAssumption DEF PrefetchInv, StateTypes
<1>2. Detach(r, pf[r]) /\ pf' = [pf EXCEPT ![r] = Off]
  BY DEF ReadAlone
<1>3. CASE ReadSync(r, buf)
  <2>1. PICK n \in 1..buf : file[r].pos + n <= Size /\ Deliver(r, n)
    BY <1>1, <1>3, SyncIs
  <2>2. local' = local
    BY <1>1, <1>3, SyncIs
  <2> DEFINE f == [pos |-> file[r].pos + n, adjacent |-> TRUE]
  <2>3. f \in Place
    BY <1>1, <2>1, PrefetchAssumption DEF Place
  <2>4. file' = [file EXCEPT ![r] = f] /\ call' = [call EXCEPT ![r] = Rest]
    BY <2>1 DEF Deliver
  <2>5. QED
    BY <1>2, <2>2, <2>3, <2>4, Constants, DroppedKeeps
<1>4. CASE call' = [call EXCEPT ![r] = Rest] /\ UNCHANGED <<source, file>>
  <2>1. file' = [file EXCEPT ![r] = file[r]] /\ file[r] \in Place /\ local' = local
    BY <1>1, <1>4 DEF source
  <2>2. QED
    BY <1>2, <1>4, <2>1, Constants, DroppedKeeps
<1>5. QED
  BY <1>3, <1>4 DEF ReadAlone

\* So does an error,
LEMMA FailKeeps ==
  ASSUME PrefetchInv, NEW r \in Readers, Fail(r)
  PROVE  PrefetchInv'
<1> DEFINE f == [file[r] EXCEPT !.adjacent = FALSE]
<1>1. f \in Place /\ file' = [file EXCEPT ![r] = f]
  BY DEF Fail, PrefetchInv, StateTypes, Place
<1>2. local' = local /\ Detach(r, pf[r]) /\ pf' = [pf EXCEPT ![r] = Off]
      /\ call' = [call EXCEPT ![r] = Rest]
  BY DEF Fail, source
<1>3. QED
  BY <1>1, <1>2, Constants, DroppedKeeps

\* a read from the forward window,
LEMMA WindowServesKeeps ==
  ASSUME PrefetchInv, NEW r \in Readers, NEW buf \in Bufs, WindowServes(r, buf)
  PROVE  PrefetchInv'
<1> DEFINE m == file[r].pos % Chunk
           n == Min(Min(buf, Chunk - m), Size - file[r].pos)
           f == [pos |-> file[r].pos + n, adjacent |-> TRUE]
<1>1. file[r].pos \in Nat /\ file[r].pos < Size /\ buf \in Nat
  BY PrefetchAssumption DEF WindowServes, PrefetchInv, StateTypes, Place
<1>2. m \in Nat /\ m < Chunk
  BY <1>1, DivMod
<1>3. f \in Place
  <2> HIDE DEF m
  <2>1. QED
    BY <1>1, <1>2, PrefetchAssumption DEF Place, Min
<1>4. file' = [file EXCEPT ![r] = f] /\ call' = [call EXCEPT ![r] = Rest]
  BY DEF WindowServes, Deliver
<1>5. local' = local /\ Detach(r, pf[r]) /\ pf' = [pf EXCEPT ![r] = Off]
  BY DEF WindowServes, source
<1> HIDE DEF f
<1>6. QED
  BY <1>3, <1>4, <1>5, Constants, DroppedKeeps

\* a seek,
LEMMA SeekKeepsInv ==
  ASSUME PrefetchInv, NEW r \in Readers, NEW p \in 0..Size, Seek(r, p)
  PROVE  PrefetchInv'
<1> DEFINE f == [pos |-> p, adjacent |-> FALSE]
<1>1. f \in Place /\ file' = [file EXCEPT ![r] = f]
  BY DEF Seek, Place
<1>2. local' = local /\ Detach(r, pf[r]) /\ pf' = [pf EXCEPT ![r] = Off] /\ call' = call
  BY DEF Seek, source
<1>3. call \in [Readers -> Reading] /\ ReaderInv(r) /\ call[r].at = "rest"
  BY DEF Seek, PrefetchInv, StateTypes
<1>4. call[r] \in Reading /\ call[r].got = 0 /\ call' = [call EXCEPT ![r] = call[r]]
  BY <1>2, <1>3 DEF ReaderInv, CallInv
<1>5. QED
  BY <1>1, <1>2, <1>3, <1>4, DroppedKeeps

\* and the end of the file handle.
LEMMA CloseKeeps ==
  ASSUME PrefetchInv, NEW r \in Readers, Close(r)
  PROVE  PrefetchInv'
<1> DEFINE f == [pos |-> 0, adjacent |-> FALSE]
<1>1. f \in Place /\ file' = [file EXCEPT ![r] = f]
  BY PrefetchAssumption DEF Close, Place
<1>2. local' = local /\ Detach(r, pf[r]) /\ pf' = [pf EXCEPT ![r] = Off]
      /\ call' = [call EXCEPT ![r] = Closed]
  BY DEF Close, source
<1>3. QED
  BY <1>1, <1>2, Constants, DroppedKeeps

\* Steps of the source, and memory pressure.
LEMMA SourceKeeps ==
  ASSUME PrefetchInv, Evict \/ Publish \/ \E r \in Readers : Pressure(r)
  PROVE  PrefetchInv'
<1>1. StateTypes /\ PermitsHeld /\ \A s \in Readers : ReaderInv(s)
  BY DEF PrefetchInv
<1>2. UNCHANGED <<used, worker, file, call>> /\ (local => local')
  BY DEF Evict, Publish, Pressure, source
<1>3. /\ pf' \in [Readers -> Ahead]
      /\ \A s \in Readers : /\ pf'[s].on = pf[s].on /\ pf'[s].next = pf[s].next
                            /\ pf'[s].pending = pf[s].pending
  <2>1. CASE Evict \/ Publish
    BY <1>1, <2>1 DEF Evict, Publish, StateTypes
  <2>2. ASSUME NEW r \in Readers, Pressure(r) PROVE pf' = [pf EXCEPT ![r].cancelled = TRUE]
    BY <2>2 DEF Pressure
  <2>3. ASSUME NEW r \in Readers, pf' = [pf EXCEPT ![r].cancelled = TRUE]
        PROVE  /\ pf' \in [Readers -> Ahead]
               /\ \A s \in Readers : /\ pf'[s].on = pf[s].on /\ pf'[s].next = pf[s].next
                                     /\ pf'[s].pending = pf[s].pending
    BY <1>1, <2>3 DEF StateTypes, Ahead
  <2>4. QED
    BY <2>1, <2>2, <2>3
<1>4. StateTypes' /\ PermitsHeld'
  BY <1>1, <1>2, <1>3 DEF StateTypes, PermitsHeld, Holding
<1>5. \A s \in Readers : ReaderInv(s)'
  BY <1>1, <1>2, <1>3, ReaderKept
<1>6. QED
  BY <1>4, <1>5 DEF PrefetchInv

\* A step that leaves the workers alone.
LEMMA WorkersKept ==
  ASSUME PrefetchInv, UNCHANGED <<used, worker>>
  PROVE  /\ worker' \in [Threads -> Work] /\ used' \in Nat /\ PermitsHeld'
         /\ \A t \in Threads : worker[t].at # "free" => SameChunk(t)
<1>1. PermitsHeld'
  BY DEF PrefetchInv, PermitsHeld, Holding
<1>2. QED
  BY <1>1 DEF PrefetchInv, StateTypes, SameChunk

\* A step of one reader that moves it or its readahead on and no chunk.
LEMMA ReaderMoves ==
  ASSUME PrefetchInv, NEW r \in Readers, local' = local,
         worker' \in [Threads -> Work], used' \in Nat, PermitsHeld',
         \A t \in Threads : worker[t].at # "free" => SameChunk(t),
         NEW p \in Ahead, pf' = [pf EXCEPT ![r] = p], p.on, p.pending = pf[r].pending,
         pf[r].pending # <<>> => pf[r].next <= p.next,
         NEW c \in Reading, call' = [call EXCEPT ![r] = c],
         NEW f \in Place, file' = [file EXCEPT ![r] = f],
         f.pos + c.got <= p.next, c.at # "fill" => c.got = 0,
         c.at \in {"fill", "join"} => c.buf \in Bufs /\ f.pos < Size,
         c.at = "join" => pf[r].pending # <<>> /\ Front(r).start <= f.pos,
         ~local /\ pf[r].pending = <<>> => After(p.next, f.pos + c.got),
         ~local /\ pf[r].pending # <<>> =>
           /\ f.pos + c.got < End(pf[r].pending[1])
           /\ f.pos + c.got < Front(r).start => Front(r).start % Chunk = 0
           /\ After(p.next, pf[r].next)
  PROVE  PrefetchInv'
<1> DEFINE q == pf[r].pending
<1>1. StateTypes /\ PermitsHeld /\ ReaderInv(r)
  BY DEF PrefetchInv
<1>2. StateTypes' /\ PermitsHeld'
  BY <1>1 DEF StateTypes
<1>3. /\ pf'[r] = p /\ call'[r] = c /\ file'[r] = f
      /\ \A s \in Readers \ {r} : pf'[s] = pf[s] /\ file'[s] = file[s] /\ call'[s] = call[s]
  BY <1>1 DEF StateTypes
<1>4. q \in Seq(Threads) /\ (q # <<>> => Head(q) = q[1]) /\ p.next \in 0..Size
  BY <1>1 DEF StateTypes, Ahead
<1>5. \A i \in 1..Len(q) :
        /\ worker'[q[i]].start = worker[q[i]].start /\ worker'[q[i]].len = worker[q[i]].len
        /\ worker'[q[i]].owner = r /\ worker'[q[i]].at # "free"
        /\ worker'[q[i]].start + worker'[q[i]].len = End(q[i])
  BY <1>1, <1>4 DEF ReaderInv, QueueInv, SameChunk, End
<1>6. Reached(r)' = f.pos + c.got
  BY <1>3 DEF Reached
<1>7. QueueInv(r)'
  <2>1. \A i \in 1..Len(q) : q # <<>> /\ q[i] \in Threads
    BY <1>4
  <2>2. \A i \in 1..Len(q) : End(q[i]) <= p.next
    <3>1. \A i \in 1..Len(q) : End(q[i]) \in Int /\ End(q[i]) <= pf[r].next
      BY <1>1, <2>1 DEF ReaderInv, QueueInv, End, StateTypes, Work
    <3>2. pf[r].next \in Int
      BY <1>1 DEF StateTypes, Ahead
    <3>3. QED
      BY <1>4, <2>1, <3>1, <3>2
  <2>3. pf'[r].pending = q /\ pf'[r].next = p.next /\ pf'[r].on
    BY <1>3
  <2>4. \A i \in 1..Len(q) : /\ worker'[q[i]].at # "free" /\ worker'[q[i]].owner = r
                             /\ worker'[q[i]].len > 0
                             /\ worker'[q[i]].start + worker'[q[i]].len <= p.next
    BY <1>1, <1>5, <2>2 DEF ReaderInv, QueueInv
  <2>5. \A i, j \in 1..Len(q) : i < j =>
          worker'[q[i]].start + worker'[q[i]].len <= worker'[q[j]].start
    BY <1>1, <1>5 DEF ReaderInv, QueueInv
  <2>6. QED
    BY <2>3, <2>4, <2>5 DEF QueueInv, End
<1>8. CallInv(r)'
  <2>1. q # <<>> => Front(r)'.start = Front(r).start
    BY <1>3, <1>4, <1>5 DEF Front
  <2>2. f.pos + c.got <= Size
    BY <1>4, PrefetchAssumption DEF Place, Reading
  <2>3. QED
    BY <1>3, <1>6, <2>1, <2>2 DEF CallInv
<1>9. AlignInv(r)'
  <2>1. SUFFICES ASSUME ~local PROVE AlignInv(r)'
    BY DEF AlignInv
  <2>2. CASE q = <<>>
    BY <1>3, <1>6, <2>1, <2>2 DEF AlignInv
  <2>3. CASE q # <<>>
    <3>1. pf[r].on
      BY <1>1, <2>3 DEF ReaderInv, QueueInv, StateTypes, Ahead
    <3>2. /\ \A i \in 1..(Len(q) - 1) :
               worker[q[i + 1]].start = End(q[i]) \/ worker[q[i + 1]].start % Chunk = 0
          /\ After(pf[r].next, End(q[Len(q)]))
      BY <1>1, <2>1, <2>3, <3>1 DEF ReaderInv, AlignInv
    <3>3. /\ f.pos + c.got < End(q[1])
          /\ f.pos + c.got < worker[q[1]].start => worker[q[1]].start % Chunk = 0
          /\ After(p.next, End(q[Len(q)]))
      BY <1>4, <2>1, <2>3, <3>2 DEF Front, After
    <3>4. /\ pf'[r].pending = q /\ pf'[r].next = p.next
          /\ 1 \in 1..Len(q) /\ Len(q) \in 1..Len(q)
          /\ \A i \in 1..(Len(q) - 1) : i \in 1..Len(q) /\ i + 1 \in 1..Len(q)
      BY <1>3, <1>4, <2>3
    <3>5. \A i \in 1..(Len(q) - 1) :
            \/ worker'[q[i + 1]].start = worker'[q[i]].start + worker'[q[i]].len
            \/ worker'[q[i + 1]].start % Chunk = 0
      BY <1>5, <3>2, <3>4
    <3>6. /\ f.pos + c.got < worker'[q[1]].start + worker'[q[1]].len
          /\ f.pos + c.got < worker'[q[1]].start => worker'[q[1]].start % Chunk = 0
          /\ After(p.next, worker'[q[Len(q)]].start + worker'[q[Len(q)]].len)
      BY <1>5, <3>3, <3>4
    <3>7. QED
      BY <1>6, <2>3, <3>4, <3>5, <3>6 DEF AlignInv, End, After
  <2>4. QED
    BY <2>2, <2>3
<1>10. ReaderInv(r)'
  BY <1>7, <1>8, <1>9 DEF ReaderInv
<1>11. \A s \in Readers : ReaderInv(s)'
  <2>1. \A t \in Threads : worker[t].at # "free" /\ worker[t].owner \in Readers \ {r} =>
          SameChunk(t)
    OBVIOUS
  <2>2. QED
    BY <1>3, <1>10, <2>1, OthersKept
<1>12. QED
  BY <1>2, <1>11 DEF PrefetchInv

\* A read that a readahead serves begins: what the cache holds before the
\* front chunk ends at that chunk at the latest.
LEMMA BeginFills ==
  ASSUME PrefetchInv, NEW r \in Readers, NEW buf \in Bufs, call[r].at = "rest",
         file[r].pos < Size, UNCHANGED <<used, worker, local, file>>,
         NEW p \in Ahead, p.on, p.pending = pf[r].pending,
         p = pf[r] \/ (p.pending = <<>> /\ p.next = file[r].pos),
         NEW g \in 0..Size, call' = [call EXCEPT ![r] = [at |-> "fill", buf |-> buf, got |-> g]],
         \/ g = 0 /\ pf' = [pf EXCEPT ![r] = p]
         \/ /\ g > 0 /\ g = ReadCachedInto(file[r].pos, buf)
            /\ p.pending = <<>> \/ file[r].pos < Front(r).start
            /\ pf' = [pf EXCEPT ![r] = [p EXCEPT !.next = Max(p.next, file[r].pos + g)]]
  PROVE  PrefetchInv'
<1> DEFINE q == pf[r].pending
           c == [at |-> "fill", buf |-> buf, got |-> g]
           m == IF g = 0 THEN p.next ELSE Max(p.next, file[r].pos + g)
           p1 == [p EXCEPT !.next = m]
<1>1. StateTypes /\ ReaderInv(r)
  BY DEF PrefetchInv
<1>2. /\ file[r] \in Place /\ file[r].pos \in Nat /\ file' = [file EXCEPT ![r] = file[r]]
      /\ buf \in Nat \ {0} /\ p.next \in 0..Size /\ q \in Seq(Threads)
  BY <1>1, PrefetchAssumption DEF StateTypes, Place, Ahead
<1>3. call[r].got = 0 /\ Reached(r) = file[r].pos
  BY <1>1, <1>2 DEF ReaderInv, CallInv, Reached
<1>4. c \in Reading /\ c.at = "fill" /\ c.got = g /\ c.buf = buf
  BY DEF Reading
<1>5. file[r].pos + g <= Size /\ file[r].pos <= p.next
  BY <1>1, <1>2, <1>3, PrefetchAssumption, HitIs DEF ReaderInv, CallInv
<1>6. m \in 0..Size /\ p.next <= m /\ file[r].pos + g <= m /\ (m = p.next \/ m = file[r].pos + g)
  BY <1>2, <1>5, PrefetchAssumption DEF Max
<1>7. p1 \in Ahead /\ p1.on /\ p1.pending = q /\ p1.next = m /\ pf' = [pf EXCEPT ![r] = p1]
  BY <1>6 DEF Ahead
<1>8. ~local /\ q = <<>> => After(m, file[r].pos + g)
  BY <1>1, <1>2, <1>3, <1>6 DEF ReaderInv, AlignInv, After
<1>9. ASSUME ~local, q # <<>>
      PROVE  /\ file[r].pos + g < End(q[1])
             /\ file[r].pos + g < Front(r).start => Front(r).start % Chunk = 0
             /\ After(m, pf[r].next)
  <2>1. p = pf[r] /\ q[1] \in Threads /\ Front(r) = worker[q[1]]
        /\ 1 \in 1..Len(q)
    BY <1>2, <1>9 DEF Front
  <2>2. /\ file[r].pos < End(q[1])
        /\ file[r].pos < Front(r).start => Front(r).start % Chunk = 0
    BY <1>1, <1>3, <1>9, <2>1 DEF ReaderInv, AlignInv
  <2>3. /\ Front(r).start \in Nat /\ Front(r).len \in Nat /\ Front(r).len > 0
        /\ End(q[1]) = Front(r).start + Front(r).len /\ End(q[1]) <= pf[r].next
    <3>1. Front(r) \in Work
      BY <1>1, <2>1 DEF StateTypes
    <3>2. worker[q[1]].len > 0 /\ End(q[1]) <= pf[r].next
      BY <1>1, <2>1 DEF ReaderInv, QueueInv
    <3>3. QED
      BY <2>1, <3>1, <3>2 DEF Work, End
  <2>4. CASE g = 0
    BY <1>2, <1>9, <2>1, <2>2, <2>4 DEF After
  <2>5. CASE g > 0
    <3>1. file[r].pos < Front(r).start /\ Front(r).start % Chunk = 0
      BY <1>9, <2>2, <2>5
    <3>2. file[r].pos + g <= Front(r).start
      BY <1>2, <1>9, <2>3, <2>5, <3>1, HitIs
    <3>3. m = pf[r].next
      BY <1>2, <1>6, <2>1, <2>3, <3>2
    <3>4. QED
      BY <1>2, <2>3, <3>1, <3>2, <3>3 DEF After
  <2>6. QED
    BY <2>4, <2>5
<1>10. q # <<>> => pf[r].next <= m
  BY <1>2, <1>6
<1> HIDE DEF c, p1, m
<1>11. call' = [call EXCEPT ![r] = c]
  BY DEF c
<1>12. /\ p1.pending = pf[r].pending /\ (pf[r].pending # <<>> => pf[r].next <= p1.next)
       /\ file[r].pos + c.got <= p1.next /\ (c.at # "fill" => c.got = 0)
       /\ (c.at \in {"fill", "join"} => c.buf \in Bufs /\ file[r].pos < Size)
       /\ c.at # "join"
  BY <1>4, <1>6, <1>7, <1>10
<1>13. ~local /\ pf[r].pending = <<>> => After(p1.next, file[r].pos + c.got)
  BY <1>4, <1>7, <1>8
<1>14. ~local /\ pf[r].pending # <<>> =>
           /\ file[r].pos + c.got < End(pf[r].pending[1])
           /\ file[r].pos + c.got < Front(r).start => Front(r).start % Chunk = 0
           /\ After(p1.next, pf[r].next)
  BY <1>4, <1>7, <1>9
<1>15. /\ local' = local /\ worker' \in [Threads -> Work] /\ used' \in Nat /\ PermitsHeld'
       /\ \A t \in Threads : worker[t].at # "free" => SameChunk(t)
  BY WorkersKept
<1> HIDE DEF q
<1>16. QED
  BY <1>2, <1>4, <1>7, <1>11, <1>12, <1>13, <1>14, <1>15, ReaderMoves

\* A read begins with or without a readahead.
LEMMA BeginKeeps ==
  ASSUME PrefetchInv, NEW r \in Readers, NEW buf \in Bufs, Begin(r, buf)
  PROVE  PrefetchInv'
<1>1. StateTypes /\ ReaderInv(r) /\ call[r].at = "rest" /\ file[r].pos < Size
  BY DEF PrefetchInv, Begin
<1>2. pf[r] \in Ahead /\ file[r].pos \in 0..Size
  BY <1>1 DEF StateTypes, Place
<1> DEFINE begun == [Off EXCEPT !.on = TRUE, !.next = file[r].pos]
           n == ReadCachedInto(file[r].pos, buf)
<1>3. begun \in Ahead /\ begun.on /\ begun.pending = <<>> /\ begun.next = file[r].pos
  <2>1. Off \in Ahead /\ Off.pending = <<>>
    BY Constants DEF Off
  <2>2. QED
    BY <1>2, <2>1 DEF Ahead
<1>4. n \in 0..Size
  BY <1>1, <1>2, PrefetchAssumption, HitIs
<1>5. PICK start \in IF pf[r].on THEN {FALSE} ELSE {FALSE, file[r].adjacent} :
       LET p == IF start THEN begun ELSE pf[r]
           before == p.pending = <<>> \/ file[r].pos < Front(r).start
       IN  CASE ~p.on \/ p.cancelled -> ReadAlone(r, buf)
             [] p.on /\ ~p.cancelled ->
                  /\ IF before /\ n > 0
                     THEN /\ call' = [call EXCEPT ![r] = [at |-> "fill", buf |-> buf, got |-> n]]
                          /\ pf' = [pf EXCEPT ![r] =
                                      [p EXCEPT !.next = Max(p.next, file[r].pos + n)]]
                     ELSE /\ call' = [call EXCEPT ![r] = [at |-> "fill", buf |-> buf, got |-> 0]]
                          /\ pf' = [pf EXCEPT ![r] = p]
                  /\ UNCHANGED <<source, used, worker, file, seeks>>
  BY DEF Begin
<1> DEFINE p == IF start THEN begun ELSE pf[r]
<1>6. p \in Ahead /\ p.pending = pf[r].pending
      /\ (p = pf[r] \/ (p.pending = <<>> /\ p.next = file[r].pos))
  <2>1. CASE start
    <3>1. ~pf[r].on
      BY <2>1, <1>5, <1>2 DEF Ahead
    <3>2. pf[r].pending = <<>>
      BY <1>1, <3>1 DEF ReaderInv, QueueInv
    <3>3. QED
      BY <1>3, <2>1, <3>2
  <2>2. CASE ~start
    BY <1>2, <2>2
  <2>3. QED
    BY <2>1, <2>2
<1>7. \/ ReadAlone(r, buf)
      \/ /\ p.on
         /\ p.pending = <<>> \/ file[r].pos < Front(r).start
         /\ n > 0 /\ call' = [call EXCEPT ![r] = [at |-> "fill", buf |-> buf, got |-> n]]
         /\ pf' = [pf EXCEPT ![r] = [p EXCEPT !.next = Max(p.next, file[r].pos + n)]]
         /\ UNCHANGED <<source, used, worker, file, seeks>>
      \/ /\ p.on /\ call' = [call EXCEPT ![r] = [at |-> "fill", buf |-> buf, got |-> 0]]
         /\ pf' = [pf EXCEPT ![r] = p]
         /\ UNCHANGED <<source, used, worker, file, seeks>>
  BY <1>5
<1> HIDE DEF p, n
<1>8. CASE ReadAlone(r, buf)
  BY <1>1, <1>8, AloneKeeps
<1>9. CASE /\ p.on
           /\ p.pending = <<>> \/ file[r].pos < Front(r).start
           /\ n > 0 /\ call' = [call EXCEPT ![r] = [at |-> "fill", buf |-> buf, got |-> n]]
           /\ pf' = [pf EXCEPT ![r] = [p EXCEPT !.next = Max(p.next, file[r].pos + n)]]
           /\ UNCHANGED <<source, used, worker, file, seeks>>
  <2>1. local' = local
    BY <1>9 DEF source
  <2>2. QED
    BY <1>1, <1>4, <1>6, <1>9, <2>1, BeginFills DEF n
<1>10. CASE /\ p.on /\ call' = [call EXCEPT ![r] = [at |-> "fill", buf |-> buf, got |-> 0]]
            /\ pf' = [pf EXCEPT ![r] = p]
            /\ UNCHANGED <<source, used, worker, file, seeks>>
  <2>1. local' = local /\ 0 \in 0..Size
    BY <1>10, PrefetchAssumption DEF source
  <2>2. ASSUME NEW g \in 0..Size, g = 0 PROVE PrefetchInv'
    <3>1. call' = [call EXCEPT ![r] = [at |-> "fill", buf |-> buf, got |-> g]]
          /\ pf' = [pf EXCEPT ![r] = p] /\ UNCHANGED <<used, worker, local,
                                                       file>>
      BY <1>10, <2>1, <2>2
    <3>2. QED
      BY <1>1, <1>6, <1>10, <2>2, <3>1, BeginFills
  <2>3. QED
    BY <2>1, <2>2
<1>11. QED
  BY <1>7, <1>8, <1>9, <1>10

\* What a read in progress of a readahead knows of its reader.
LEMMA ReadingIs ==
  ASSUME PrefetchInv, NEW r \in Readers, call[r].at \in {"fill", "join"}
  PROVE  /\ StateTypes /\ ReaderInv(r) /\ PermitsHeld
         /\ pf[r] \in Ahead /\ pf[r].on /\ pf[r].next \in 0..Size /\ pf[r].pending \in Seq(Threads)
         /\ call[r] \in Reading /\ call[r].buf \in Bufs /\ call[r].got \in 0..Size
         /\ call[r].buf \in Nat \ {0}
         /\ file[r] \in Place /\ file[r].pos \in 0..Size /\ file[r].pos < Size
         /\ Reached(r) <= Size /\ Reached(r) <= pf[r].next
         /\ pf[r].pending # <<>> =>
              /\ 1 \in 1..Len(pf[r].pending) /\ Head(pf[r].pending) = pf[r].pending[1]
              /\ pf[r].pending[1] \in Threads /\ Front(r) \in Work /\ Front(r).len > 0
              /\ End(pf[r].pending[1]) = Front(r).start + Front(r).len
              /\ End(pf[r].pending[1]) <= pf[r].next
<1> DEFINE q == pf[r].pending
<1>1. StateTypes /\ ReaderInv(r) /\ PermitsHeld
  BY DEF PrefetchInv
<1>2. pf[r] \in Ahead /\ call[r] \in Reading /\ file[r] \in Place
  BY <1>1 DEF StateTypes
<1>3. /\ pf[r].on /\ call[r].buf \in Bufs /\ file[r].pos < Size
      /\ Reached(r) <= Size /\ Reached(r) <= pf[r].next
  BY <1>1 DEF ReaderInv, CallInv
<1>4. pf[r].next \in 0..Size /\ q \in Seq(Threads) /\ call[r].got \in 0..Size
      /\ file[r].pos \in 0..Size
  BY <1>2 DEF Ahead, Reading, Place
<1>5. call[r].buf \in Nat \ {0}
  BY <1>3, PrefetchAssumption
<1>6. ASSUME q # <<>>
      PROVE  /\ 1 \in 1..Len(q) /\ Head(q) = q[1] /\ q[1] \in Threads
             /\ Front(r) \in Work /\ Front(r).len > 0
             /\ End(q[1]) = Front(r).start + Front(r).len /\ End(q[1]) <= pf[r].next
  <2>1. 1 \in 1..Len(q) /\ Head(q) = q[1] /\ q[1] \in Threads
    BY <1>4, <1>6
  <2>2. Front(r) = worker[q[1]] /\ worker[q[1]] \in Work
    BY <1>1, <2>1 DEF Front, StateTypes
  <2>3. worker[q[1]].len > 0 /\ End(q[1]) <= pf[r].next
    BY <1>1, <2>1 DEF ReaderInv, QueueInv
  <2>4. QED
    BY <2>1, <2>2, <2>3 DEF End
<1>7. QED
  BY <1>1, <1>2, <1>3, <1>4, <1>5, <1>6

\* A window that is cached is skipped up to a boundary.
LEMMA FillSkipKeeps ==
  ASSUME PrefetchInv, NEW r \in Readers, FillSkip(r)
  PROVE  PrefetchInv'
<1> DEFINE next == pf[r].next
           m == next + WindowLen(next)
           p == [pf[r] EXCEPT !.next = m]
<1>1. call[r].at = "fill" /\ next < Horizon(r) /\ CacheAvailable(next, WindowEnd(r))
      /\ UNCHANGED <<used, worker, local, file, call>>
      /\ pf' = [pf EXCEPT ![r].next = WindowEnd(r) + 1]
  BY DEF FillSkip, MayFill, source
<1>2. /\ StateTypes /\ ReaderInv(r) /\ pf[r] \in Ahead /\ pf[r].on /\ next \in 0..Size
      /\ call[r] \in Reading /\ call[r].buf \in Bufs /\ file[r] \in Place
      /\ file[r].pos \in 0..Size /\ file[r].pos < Size /\ call[r].got \in 0..Size
      /\ Reached(r) <= next
  BY <1>1, ReadingIs
<1>3. next < Size
  BY <1>1, <1>2, PrefetchAssumption DEF Horizon, Min
<1>4. /\ WindowLen(next) \in 1..Chunk /\ m <= Size
      /\ token = "known" => m % Chunk = 0 \/ m = Size
  BY <1>2, <1>3, WindowIs
<1>5. m \in 0..Size /\ next <= m /\ WindowEnd(r) + 1 = m
  BY <1>2, <1>4, PrefetchAssumption DEF WindowEnd
<1>6. p \in Ahead /\ p.on /\ p.pending = pf[r].pending /\ p.next = m
      /\ pf' = [pf EXCEPT ![r] = p]
  BY <1>1, <1>2, <1>5 DEF Ahead, StateTypes
<1>7. ~local => m % Chunk = 0 \/ m = Size
  BY <1>1, <1>4 DEF CacheAvailable
<1>8. call' = [call EXCEPT ![r] = call[r]] /\ file' = [file EXCEPT ![r] = file[r]]
  BY <1>1, <1>2 DEF StateTypes
<1>9. file[r].pos + call[r].got <= m
  BY <1>2, <1>5 DEF Reached
<1>10. ~local /\ pf[r].pending # <<>> =>
           /\ file[r].pos + call[r].got < End(pf[r].pending[1])
           /\ file[r].pos + call[r].got < Front(r).start => Front(r).start % Chunk = 0
  <2>1. pf[r].pending # <<>> => Front(r) = worker[pf[r].pending[1]]
    BY <1>2 DEF Front, Ahead
  <2>2. QED
    BY <1>2, <2>1 DEF ReaderInv, AlignInv, Reached
<1>11. /\ worker' \in [Threads -> Work] /\ used' \in Nat /\ PermitsHeld'
       /\ \A t \in Threads : worker[t].at # "free" => SameChunk(t)
  BY <1>1, WorkersKept
<1>12. (~local => After(p.next, file[r].pos + call[r].got) /\ After(p.next, next))
       /\ next <= p.next /\ call[r].at # "join"
  BY <1>1, <1>5, <1>6, <1>7 DEF After
<1> HIDE DEF p, m
<1>13. QED
  BY <1>1, <1>2, <1>6, <1>8, <1>9, <1>10, <1>11, <1>12, ReaderMoves

\* The position reached of a read that ends, or joins the front, is kept.
LEMMA ReadGoesOn ==
  ASSUME PrefetchInv, NEW r \in Readers, call[r].at \in {"fill", "join"},
         worker' \in [Threads -> Work], used' \in Nat, PermitsHeld',
         \A t \in Threads : worker[t].at # "free" => SameChunk(t),
         pf' = pf, local' = local,
         NEW c \in Reading, call' = [call EXCEPT ![r] = c],
         NEW f \in Place, file' = [file EXCEPT ![r] = f], c.got = 0,
         pf[r].pending = <<>> => f.pos = Reached(r),
         pf[r].pending # <<>> =>
           \/ f.pos = Reached(r)
           \/ f.pos <= Front(r).start /\ file[r].pos < Front(r).start /\ call[r].got = 0
           \/ Front(r).start <= f.pos /\ f.pos < Front(r).start + Front(r).len,
         c.at # "fill",
         c.at = "join" => /\ pf[r].pending # <<>> /\ Front(r).start <= f.pos
                          /\ f.pos < Size /\ c.buf \in Bufs
  PROVE  PrefetchInv'
<1> DEFINE q == pf[r].pending
<1>1. /\ StateTypes /\ ReaderInv(r) /\ pf[r] \in Ahead /\ pf[r].on /\ pf[r].next \in 0..Size
      /\ f.pos \in 0..Size /\ file[r].pos \in 0..Size /\ call[r].got \in 0..Size
      /\ Reached(r) <= pf[r].next /\ pf' = [pf EXCEPT ![r] = pf[r]]
      /\ q # <<>> => /\ Front(r) \in Work /\ Front(r).len > 0 /\ Front(r) = worker[q[1]]
                     /\ End(q[1]) = Front(r).start + Front(r).len
                     /\ End(q[1]) <= pf[r].next
  <2>1. f.pos \in 0..Size
    BY DEF Place
  <2>2. pf' = [pf EXCEPT ![r] = pf[r]]
    BY DEF PrefetchInv, StateTypes
  <2>3. q # <<>> => Front(r) = worker[q[1]]
    BY ReadingIs DEF Front
  <2>4. QED
    BY <2>1, <2>2, <2>3, ReadingIs
<1>2. Reached(r) \in Nat /\ Reached(r) = file[r].pos + call[r].got
  BY <1>1, PrefetchAssumption DEF Reached
<1>3. q # <<>> => Front(r).start \in Nat /\ Front(r).len \in Nat
  BY <1>1 DEF Work
<1>4. f.pos + c.got = f.pos
  BY <1>1
<1>5. f.pos <= pf[r].next
  <2>1. CASE q = <<>>
    BY <1>1, <2>1
  <2>2. CASE q # <<>>
    BY <1>1, <1>2, <1>3, <2>2
  <2>3. QED
    BY <2>1, <2>2
<1>6. ~local /\ q = <<>> => After(pf[r].next, f.pos)
  BY <1>1 DEF ReaderInv, AlignInv
<1>7. ASSUME ~local, q # <<>>
      PROVE  /\ f.pos < End(q[1]) /\ (f.pos < Front(r).start => Front(r).start % Chunk = 0)
             /\ After(pf[r].next, pf[r].next)
  <2>1. /\ Reached(r) < End(q[1])
        /\ Reached(r) < Front(r).start => Front(r).start % Chunk = 0
    BY <1>1, <1>7 DEF ReaderInv, AlignInv
  <2>2. CASE f.pos = Reached(r)
    BY <2>1, <2>2 DEF After
  <2>3. CASE f.pos <= Front(r).start /\ file[r].pos < Front(r).start /\ call[r].got = 0
    BY <1>1, <1>2, <1>3, <1>7, <2>1, <2>3 DEF After
  <2>4. CASE Front(r).start <= f.pos /\ f.pos < Front(r).start + Front(r).len
    BY <1>1, <1>3, <1>7, <2>4 DEF After
  <2>5. QED
    BY <1>7, <2>2, <2>3, <2>4
<1>8. q # <<>> => pf[r].next <= pf[r].next
  BY <1>1
<1>9. /\ f.pos + c.got <= pf[r].next /\ (c.at # "fill" => c.got = 0)
      /\ c.at \in {"fill", "join"} => c.buf \in Bufs /\ f.pos < Size
      /\ c.at = "join" => pf[r].pending # <<>> /\ Front(r).start <= f.pos
  BY <1>4, <1>5
<1>10. /\ ~local /\ pf[r].pending = <<>> => After(pf[r].next, f.pos + c.got)
       /\ ~local /\ pf[r].pending # <<>> =>
            /\ f.pos + c.got < End(pf[r].pending[1])
            /\ f.pos + c.got < Front(r).start => Front(r).start % Chunk = 0
            /\ After(pf[r].next, pf[r].next)
  BY <1>4, <1>6, <1>7
<1>11. pf[r] \in Ahead /\ pf[r].on /\ pf' = [pf EXCEPT ![r] = pf[r]]
       /\ (pf[r].pending # <<>> => pf[r].next <= pf[r].next)
  BY <1>1, <1>8
<1> HIDE DEF q
<1>12. QED
  BY <1>9, <1>10, <1>11, ReaderMoves

\* A read that is delivered what it has, reads alone, reads up to the front or
\* joins it.
LEMMA FillStopKeeps ==
  ASSUME PrefetchInv, NEW r \in Readers, FillStop(r)
  PROVE  PrefetchInv'
<1> DEFINE q == pf[r].pending
<1>1. call[r].at = "fill"
  BY DEF FillStop
<1>2. /\ StateTypes /\ pf[r] \in Ahead /\ call[r] \in Reading /\ call[r].buf \in Bufs
      /\ call[r].got \in 0..Size /\ call[r].buf \in Nat \ {0}
      /\ file[r] \in Place /\ file[r].pos \in 0..Size /\ file[r].pos < Size
      /\ Reached(r) <= Size /\ Reached(r) = file[r].pos + call[r].got
      /\ q # <<>> => Front(r) \in Work /\ Front(r).start \in Nat
  BY <1>1, ReadingIs DEF Reached, Work
<1>3. \/ /\ call[r].got > 0
         /\ Deliver(r, call[r].got) /\ UNCHANGED <<source, used, worker, pf,
                                                   seeks>>
      \/ q = <<>> /\ ReadAlone(r, call[r].buf)
      \/ /\ call[r].got = 0 /\ q # <<>> /\ file[r].pos < Front(r).start
         /\ ReadSync(r, Min(call[r].buf, Front(r).start - file[r].pos))
         /\ UNCHANGED <<used, worker, pf, seeks>>
      \/ /\ call[r].got = 0 /\ q # <<>> /\ ~(file[r].pos < Front(r).start)
         /\ call' = [call EXCEPT ![r].at = "join"]
         /\ UNCHANGED <<source, used, worker, file, pf, seeks>>
  BY <1>2 DEF FillStop
<1>4. UNCHANGED <<used, worker>> =>
        /\ worker' \in [Threads -> Work] /\ used' \in Nat /\ PermitsHeld'
        /\ \A t \in Threads : worker[t].at # "free" => SameChunk(t)
  BY WorkersKept
<1>5. CASE /\ call[r].got > 0
           /\ Deliver(r, call[r].got) /\ UNCHANGED <<source, used, worker,
                                                     pf, seeks>>
  <2> DEFINE f == [pos |-> file[r].pos + call[r].got, adjacent |-> TRUE]
  <2>1. f \in Place /\ f.pos = Reached(r)
    BY <1>2, PrefetchAssumption DEF Place
  <2>2. file' = [file EXCEPT ![r] = f] /\ call' = [call EXCEPT ![r] = Rest]
        /\ UNCHANGED <<used, worker, pf, local>>
    BY <1>5 DEF Deliver, source
  <2> HIDE DEF f
  <2>3. QED
    BY <1>1, <1>4, <2>1, <2>2, Constants, ReadGoesOn
<1>6. CASE q = <<>> /\ ReadAlone(r, call[r].buf)
  BY <1>2, <1>6, AloneKeeps
<1>7. CASE /\ call[r].got = 0 /\ q # <<>> /\ file[r].pos < Front(r).start
           /\ ReadSync(r, Min(call[r].buf, Front(r).start - file[r].pos))
           /\ UNCHANGED <<used, worker, pf, seeks>>
  <2> DEFINE most == Min(call[r].buf, Front(r).start - file[r].pos)
  <2>1. most \in Nat \ {0} /\ file[r].pos + most <= Front(r).start
    BY <1>2, <1>7 DEF Min
  <2>2. local' = local /\ \E n \in 1..most : file[r].pos + n <= Size /\ Deliver(r, n)
    <3> HIDE DEF most
    <3>1. ReadSync(r, most)
      BY <1>7 DEF most
    <3>2. QED
      BY <1>2, <2>1, <3>1, SyncIs
  <2>3. PICK n \in 1..most : file[r].pos + n <= Size /\ Deliver(r, n)
    BY <2>2
  <2> DEFINE f == [pos |-> file[r].pos + n, adjacent |-> TRUE]
  <2>4. f \in Place /\ f.pos <= Front(r).start
    <3> HIDE DEF most
    <3>1. n \in Nat /\ n <= most
      BY <2>1, <2>3
    <3>2. QED
      BY <1>2, <1>7, <2>1, <2>3, <3>1, PrefetchAssumption DEF Place
  <2>5. file' = [file EXCEPT ![r] = f] /\ call' = [call EXCEPT ![r] = Rest]
    BY <2>3 DEF Deliver
  <2> HIDE DEF f
  <2>6. QED
    BY <1>1, <1>4, <1>7, <2>2, <2>4, <2>5, Constants, ReadGoesOn
<1>8. CASE /\ call[r].got = 0 /\ q # <<>> /\ ~(file[r].pos < Front(r).start)
           /\ call' = [call EXCEPT ![r].at = "join"]
           /\ UNCHANGED <<source, used, worker, file, pf, seeks>>
  <2> DEFINE c == [call[r] EXCEPT !.at = "join"]
  <2>1. c \in Reading /\ c.at = "join" /\ c.got = 0 /\ c.buf \in Bufs
        /\ call' = [call EXCEPT ![r] = c]
    BY <1>2, <1>8 DEF Reading, StateTypes
  <2>2. file' = [file EXCEPT ![r] = file[r]] /\ UNCHANGED <<used, worker,
                                                            pf, local>>
    BY <1>2, <1>8 DEF StateTypes, source
  <2>3. Front(r).start <= file[r].pos /\ file[r].pos = Reached(r)
    BY <1>2, <1>8
  <2> HIDE DEF c
  <2>4. QED
    BY <1>1, <1>2, <1>4, <1>8, <2>1, <2>2, <2>3, ReadGoesOn
<1>9. QED
  BY <1>3, <1>5, <1>6, <1>7, <1>8

\* A spawned worker gets the chunk after the queue and a permit of its own.
LEMMA FillSpawnKeeps ==
  ASSUME PrefetchInv, NEW r \in Readers, FillSpawn(r)
  PROVE  PrefetchInv'
<1> DEFINE q == pf[r].pending
           next == pf[r].next
           len == WindowLen(next)
           n == Len(q)
<1>1. /\ call[r].at = "fill" /\ next < Horizon(r) /\ used < Limit /\ used' = used + 1
      /\ UNCHANGED <<local, file, call>>
  BY DEF FillSpawn, MayFill, TryAcquire, source
<1>2. PICK t \in Threads :
        /\ worker[t].at = "free"
        /\ worker' = [worker EXCEPT ![t] = [at |-> "begin", owner |-> r,
                        start |-> next, len |-> len]]
        /\ pf' = [pf EXCEPT ![r].next = WindowEnd(r) + 1, ![r].pending = Append(@, t)]
  BY DEF FillSpawn
<1>3. /\ StateTypes /\ PermitsHeld /\ ReaderInv(r) /\ pf[r] \in Ahead /\ pf[r].on
      /\ next \in 0..Size /\ q \in Seq(Threads) /\ file[r].pos \in 0..Size
      /\ call[r].got \in 0..Size /\ file[r].pos < Size /\ Reached(r) <= Size
      /\ Reached(r) <= next
  BY <1>1, ReadingIs
<1>4. next < Size
  BY <1>1, <1>3, PrefetchAssumption DEF Horizon, Min
<1>5. len \in 1..Chunk /\ next + len <= Size
  BY <1>3, <1>4, WindowIs
<1>6. WindowEnd(r) + 1 = next + len /\ next + len \in 0..Size /\ next \in Nat /\ len \in Nat
  BY <1>3, <1>5, PrefetchAssumption DEF WindowEnd
<1> DEFINE p == [pf[r] EXCEPT !.next = next + len, !.pending = Append(q, t)]
           w == [at |-> "begin", owner |-> r, start |-> next, len |-> len]
<1>7. /\ p \in Ahead /\ p.on /\ p.next = next + len /\ p.pending = Append(q, t)
      /\ pf' = [pf EXCEPT ![r] = p]
  <2>1. Append(q, t) \in Seq(Threads)
    BY <1>3
  <2>2. p \in Ahead /\ p.on /\ p.next = next + len /\ p.pending = Append(q, t)
    BY <1>3, <1>6, <2>1 DEF Ahead
  <2>3. QED
    BY <1>2, <1>3, <1>6, <2>2 DEF StateTypes, Ahead
<1>8. w \in Work /\ w.at = "begin" /\ w.owner = r /\ w.start = next /\ w.len = len
  BY <1>3, <1>5, PrefetchAssumption DEF Work
<1> HIDE DEF p, w, len
<1>9. /\ worker' \in [Threads -> Work] /\ worker'[t] = w
      /\ \A u \in Threads : u # t => worker'[u] = worker[u]
  BY <1>2, <1>3, <1>8 DEF StateTypes, w
<1>10. used' \in Nat /\ PermitsHeld'
  <2>1. t \notin Held /\ Held' = Held \cup {t}
    BY <1>2, <1>8, <1>9 DEF Held, Holding
  <2>2. QED
    BY <1>1, <1>3, <2>1, PermitTaken
<1>11. StateTypes'
  BY <1>1, <1>3, <1>7, <1>9, <1>10 DEF StateTypes
<1>12. /\ pf'[r] = p /\ file'[r] = file[r] /\ call'[r] = call[r]
       /\ \A s \in Readers \ {r} : pf'[s] = pf[s] /\ file'[s] = file[s] /\ call'[s] = call[s]
  BY <1>1, <1>3, <1>7 DEF StateTypes
<1> DEFINE qq == Append(q, t)
<1>13. /\ n \in Nat /\ Len(qq) = n + 1 /\ qq[n + 1] = t /\ \A i \in 1..n : qq[i] = q[i]
       /\ qq # <<>> /\ Head(qq) = qq[1] /\ (q = <<>> <=> n = 0)
  BY <1>3
<1>14. \A i \in 1..n : q[i] \in Threads /\ worker[q[i]].at # "free" /\ worker'[q[i]] = worker[q[i]]
  <2>1. \A i \in 1..n : q[i] \in Threads
    BY <1>3
  <2>2. \A i \in 1..n : worker[q[i]].at # "free"
    BY <1>3 DEF ReaderInv, QueueInv
  <2>3. QED
    BY <1>2, <1>9, <2>1, <2>2
<1> HIDE DEF qq
<1>15. \A i \in 1..n : /\ worker'[qq[i]] = worker[q[i]] /\ worker[q[i]] \in Work
                       /\ worker'[qq[i]].owner = r /\ worker'[qq[i]].at # "free"
                       /\ worker'[qq[i]].len > 0
                       /\ worker'[qq[i]].start + worker'[qq[i]].len = End(q[i])
                       /\ End(q[i]) <= next
  BY <1>3, <1>13, <1>14 DEF ReaderInv, QueueInv, End, StateTypes
<1>16. Reached(r)' = Reached(r) /\ Reached(r) \in Nat
  BY <1>3, <1>12, PrefetchAssumption DEF Reached
<1>17. QueueInv(r)'
  <2>1. ASSUME NEW i \in 1..Len(qq)
        PROVE  /\ worker'[qq[i]].at # "free" /\ worker'[qq[i]].owner = r
               /\ worker'[qq[i]].len > 0
               /\ worker'[qq[i]].start + worker'[qq[i]].len <= next + len
    <3>1. CASE i \in 1..n
      <4>1. End(q[i]) <= next /\ End(q[i]) \in Nat
        BY <1>15, <3>1 DEF End, Work
      <4>2. QED
        BY <1>6, <1>15, <3>1, <4>1
    <3>2. CASE i = n + 1
      BY <1>5, <1>6, <1>8, <1>9, <1>13, <3>2
    <3>3. QED
      BY <1>13, <3>1, <3>2
  <2>2. ASSUME NEW i \in 1..Len(qq), NEW j \in 1..Len(qq), i < j
        PROVE  worker'[qq[i]].start + worker'[qq[i]].len <= worker'[qq[j]].start
    <3>1. i \in 1..n
      BY <1>13, <2>2
    <3>2. CASE j \in 1..n
      BY <1>3, <1>15, <2>2, <3>1, <3>2 DEF ReaderInv, QueueInv
    <3>3. CASE j = n + 1
      BY <1>8, <1>9, <1>13, <1>15, <3>1, <3>3
    <3>4. QED
      BY <1>13, <3>2, <3>3
  <2>3. pf'[r].pending = qq /\ pf'[r].next = next + len /\ pf'[r].on
    BY <1>7, <1>12 DEF qq
  <2>4. QED
    BY <2>1, <2>2, <2>3 DEF QueueInv, End
<1>18. CallInv(r)'
  <2>1. Reached(r) <= next + len
    BY <1>3, <1>6, <1>16
  <2>2. QED
    BY <1>1, <1>3, <1>7, <1>12, <1>16, <2>1 DEF ReaderInv, CallInv
<1>19. AlignInv(r)'
  <2>1. pf'[r].pending = qq /\ pf'[r].next = next + len
    BY <1>7, <1>12 DEF qq
  <2>2. SUFFICES ASSUME ~local
                 PROVE  /\ Reached(r) < worker'[qq[1]].start + worker'[qq[1]].len
                        /\ Reached(r) < worker'[qq[1]].start => worker'[qq[1]].start % Chunk = 0
                        /\ \A i \in 1..n :
                             \/ worker'[qq[i + 1]].start = worker'[qq[i]].start + worker'[qq[i]].len
                             \/ worker'[qq[i + 1]].start % Chunk = 0
                        /\ next + len = worker'[qq[n + 1]].start + worker'[qq[n + 1]].len
    <3>1. Len(qq) - 1 = n
      BY <1>13
    <3>2. QED
      BY <1>1, <1>13, <1>16, <2>1, <3>1 DEF AlignInv, End, After
  <2>3. next + len = worker'[qq[n + 1]].start + worker'[qq[n + 1]].len
    BY <1>8, <1>9, <1>13
  <2>4. CASE q = <<>>
    <3>1. n = 0 /\ 1..n = {} /\ worker'[qq[1]].start = next /\ worker'[qq[1]].len = len
      BY <1>8, <1>9, <1>13, <2>4
    <3>2. After(next, Reached(r))
      BY <1>3, <2>2, <2>4 DEF ReaderInv, AlignInv
    <3>3. Reached(r) < next => next % Chunk = 0
      BY <1>4, <1>6, <1>16, <3>2, PrefetchAssumption DEF After
    <3>4. QED
      BY <1>3, <1>5, <1>6, <1>16, <2>3, <3>1, <3>3
  <2>5. CASE q # <<>>
    <3>1. 1 \in 1..n /\ n \in 1..n
      BY <1>13, <2>5
    <3>2. /\ Reached(r) < End(q[1])
          /\ Reached(r) < worker[q[1]].start => worker[q[1]].start % Chunk = 0
          /\ \A i \in 1..(n - 1) :
               worker[q[i + 1]].start = End(q[i]) \/ worker[q[i + 1]].start % Chunk = 0
          /\ After(next, End(q[n]))
      BY <1>3, <2>2, <2>5 DEF ReaderInv, AlignInv
    <3>3. /\ Reached(r) < worker'[qq[1]].start + worker'[qq[1]].len
          /\ Reached(r) < worker'[qq[1]].start => worker'[qq[1]].start % Chunk = 0
      BY <1>15, <3>1, <3>2
    <3>4. ASSUME NEW i \in 1..n
          PROVE  \/ worker'[qq[i + 1]].start = worker'[qq[i]].start + worker'[qq[i]].len
                 \/ worker'[qq[i + 1]].start % Chunk = 0
      <4>1. CASE i \in 1..(n - 1)
        <5>1. i + 1 \in 1..n
          BY <1>13, <4>1
        <5>2. QED
          BY <1>15, <3>2, <4>1, <5>1
      <4>2. CASE i = n
        <5>1. worker'[qq[i + 1]].start = next
          BY <1>8, <1>9, <1>13, <4>2
        <5>2. next = End(q[n]) \/ next % Chunk = 0
          BY <1>4, <1>6, <3>2, PrefetchAssumption DEF After
        <5>3. QED
          BY <1>15, <4>2, <5>1, <5>2
      <4>3. QED
        BY <1>13, <4>1, <4>2
    <3>5. QED
      BY <2>3, <3>3, <3>4
  <2>6. QED
    BY <2>4, <2>5
<1>20. \A u \in Threads : worker[u].at # "free" /\ worker[u].owner \in Readers \ {r} => SameChunk(u)
  BY <1>2, <1>9 DEF SameChunk
<1>21. ReaderInv(r)'
  BY <1>17, <1>18, <1>19 DEF ReaderInv
<1>22. \A s \in Readers : ReaderInv(s)'
  BY <1>1, <1>12, <1>20, <1>21, OthersKept
<1>23. QED
  BY <1>10, <1>11, <1>22 DEF PrefetchInv

\* A chunk that is read to its end leaves the queue with its permit, and the
\* reader stands where the next one follows.
LEMMA ChunkConsumed ==
  ASSUME PrefetchInv, NEW r \in Readers, call[r].at = "join", local' = local,
         NEW f \in Place, file' = [file EXCEPT ![r] = f],
         f.pos = Front(r).start + Front(r).len,
         call' = [call EXCEPT ![r] = Rest], Holding(Head(pf[r].pending)),
         worker' = [worker EXCEPT ![Head(pf[r].pending)] = Free], used' = used - 1,
         NEW p \in Ahead, pf' = [pf EXCEPT ![r] = p], p.on, p.next = pf[r].next,
         p.pending = Tail(pf[r].pending)
  PROVE  PrefetchInv'
<1> DEFINE q == pf[r].pending
           t == q[1]
           n == Len(q)
           next == pf[r].next
<1>1. /\ StateTypes /\ PermitsHeld /\ ReaderInv(r) /\ pf[r] \in Ahead /\ pf[r].on
      /\ next \in 0..Size /\ q \in Seq(Threads)
  BY ReadingIs
<1>2. q # <<>>
  BY <1>1 DEF ReaderInv, CallInv
<1>3. /\ 1 \in 1..n /\ Head(q) = t /\ t \in Threads /\ Front(r) = worker[t] /\ worker[t] \in Work
      /\ f.pos = End(t) /\ End(t) <= next /\ f.pos \in 0..Size
  BY <1>1, <1>2, ReadingIs DEF Front, Place
<1> DEFINE qq == Tail(q)
<1>4. p.on /\ p.next = next /\ p.pending = qq
  OBVIOUS
<1>5. Free \in Work /\ Free.at = "free"
  BY PrefetchAssumption DEF Free, Work
<1>6. /\ worker' \in [Threads -> Work] /\ worker'[t] = Free
      /\ \A u \in Threads : u # t => worker'[u] = worker[u]
  BY <1>1, <1>3, <1>5 DEF StateTypes
<1>7. used' \in Nat /\ PermitsHeld'
  <2>1. t \in Held /\ Held' = Held \ {t}
    BY <1>3, <1>5, <1>6 DEF Held, Holding
  <2>2. QED
    BY <1>1, <2>1, OneBack
<1>8. /\ pf'[r] = p /\ file'[r] = f /\ call'[r] = Rest
      /\ \A s \in Readers \ {r} : pf'[s] = pf[s] /\ file'[s] = file[s] /\ call'[s] = call[s]
  BY <1>1, <1>4 DEF StateTypes
<1>9. StateTypes'
  BY <1>1, <1>4, <1>6, <1>7, Constants DEF StateTypes
<1>10. /\ n \in Nat /\ Len(qq) = n - 1 /\ \A i \in 1..(n - 1) : qq[i] = q[i + 1]
       /\ (qq = <<>> <=> n = 1) /\ (qq # <<>> => Head(qq) = qq[1])
  <2>1. n \in Nat /\ n > 0 /\ qq \in Seq(Threads) /\ Len(qq) = n - 1
    BY <1>1, <1>2
  <2>2. \A i \in 1..(n - 1) : qq[i] = q[i + 1]
    BY <1>1, <1>2
  <2>3. \A x \in Seq(Threads) : x = <<>> <=> Len(x) = 0
    OBVIOUS
  <2>4. qq # <<>> => Head(qq) = qq[1]
    BY <2>1
  <2> HIDE DEF qq, n
  <2>5. qq = <<>> <=> n = 1
    BY <2>1, <2>3
  <2>6. QED
    BY <2>1, <2>2, <2>4, <2>5
<1>11. ASSUME NEW i \in 2..n
       PROVE  /\ q[i] \in Threads /\ worker'[q[i]] = worker[q[i]] /\ worker[q[i]] \in Work
              /\ worker[q[i]].at # "free" /\ worker[q[i]].owner = r /\ worker[q[i]].len > 0
              /\ End(q[i]) <= next /\ End(t) <= worker[q[i]].start
  <2>1. i \in 1..n /\ 1 < i /\ q[i] \in Threads
    BY <1>1, <1>3, <1>11
  <2>2. /\ worker[q[i]].at # "free" /\ worker[q[i]].owner = r /\ worker[q[i]].len > 0
        /\ End(q[i]) <= next /\ End(t) <= worker[q[i]].start
    BY <1>1, <1>3, <2>1 DEF ReaderInv, QueueInv
  <2>3. worker[q[i]] \in Work /\ worker[t].len > 0
    BY <1>1, <1>3, <2>1 DEF StateTypes, ReaderInv, QueueInv
  <2>4. q[i] # t
    BY <1>3, <2>2, <2>3 DEF End, Work
  <2>5. QED
    BY <1>6, <2>1, <2>2, <2>3, <2>4
<1> HIDE DEF qq
<1>12. \A i \in 1..(n - 1) :
         /\ i + 1 \in 2..n /\ i + 1 \in 1..n
         /\ worker'[qq[i]] = worker[q[i + 1]]
         /\ worker'[qq[i]].start + worker'[qq[i]].len = End(q[i + 1])
  <2>1. \A i \in 1..(n - 1) : i + 1 \in 2..n /\ i + 1 \in 1..n
    BY <1>10
  <2>2. \A i \in 1..(n - 1) : worker'[qq[i]] = worker[q[i + 1]]
    BY <1>10, <1>11, <2>1
  <2>3. QED
    BY <2>1, <2>2 DEF End
<1>13. Reached(r)' = End(t) /\ End(t) \in Nat
  <2>1. Rest.got = 0 /\ End(t) \in Nat
    BY <1>3, Constants DEF End, Work
  <2>2. QED
    BY <1>3, <1>8, <2>1 DEF Reached
<1>14. QueueInv(r)'
  <2>1. ASSUME NEW i \in 1..(n - 1)
        PROVE  /\ worker'[qq[i]].at # "free" /\ worker'[qq[i]].owner = r
               /\ worker'[qq[i]].len > 0
               /\ worker'[qq[i]].start + worker'[qq[i]].len <= next
    BY <1>11, <1>12
  <2>2. ASSUME NEW i \in 1..(n - 1), NEW j \in 1..(n - 1), i < j
        PROVE  worker'[qq[i]].start + worker'[qq[i]].len <= worker'[qq[j]].start
    <3>1. i + 1 \in 1..n /\ j + 1 \in 1..n /\ i + 1 < j + 1
      BY <1>12, <2>2
    <3>2. End(q[i + 1]) <= worker[q[j + 1]].start
      BY <1>1, <3>1 DEF ReaderInv, QueueInv
    <3>3. QED
      BY <1>12, <2>2, <3>2
  <2>3. pf'[r].pending = qq /\ pf'[r].next = next /\ pf'[r].on
    BY <1>4, <1>8
  <2>4. QED
    BY <1>10, <2>1, <2>2, <2>3 DEF QueueInv, End
<1>15. CallInv(r)'
  <2>1. End(t) <= Size
    BY <1>3
  <2>2. QED
    BY <1>3, <1>4, <1>8, <1>13, <2>1, Constants DEF CallInv
<1>16. AlignInv(r)'
  <2>1. pf'[r].pending = qq /\ pf'[r].next = next
    BY <1>4, <1>8
  <2>2. SUFFICES ASSUME ~local
                 PROVE  /\ qq = <<>> => After(next, End(t))
                        /\ qq # <<>> =>
                             /\ End(t) < worker'[qq[1]].start + worker'[qq[1]].len
                             /\ End(t) < worker'[qq[1]].start => worker'[qq[1]].start % Chunk = 0
                             /\ \A i \in 1..(n - 1 - 1) :
                                  \/ worker'[qq[i + 1]].start
                                       = worker'[qq[i]].start + worker'[qq[i]].len
                                  \/ worker'[qq[i + 1]].start % Chunk = 0
                             /\ After(next, worker'[qq[n - 1]].start + worker'[qq[n - 1]].len)
    BY <1>10, <1>13, <2>1 DEF AlignInv, End, After
  <2>3. /\ \A i \in 1..(n - 1) :
             worker[q[i + 1]].start = End(q[i]) \/ worker[q[i + 1]].start % Chunk = 0
        /\ After(next, End(q[n]))
    BY <1>1, <1>2, <2>2 DEF ReaderInv, AlignInv
  <2>4. CASE qq = <<>>
    BY <1>10, <2>3, <2>4
  <2>5. CASE qq # <<>>
    <3>1. 1 \in 1..(n - 1) /\ n - 1 \in 1..(n - 1) /\ 1 + 1 \in 2..n /\ n - 1 + 1 = n
      BY <1>3, <1>10, <2>5
    <3>2. worker'[qq[1]] = worker[q[1 + 1]] /\ End(t) <= worker[q[1 + 1]].start
          /\ worker[q[1 + 1]] \in Work /\ worker[q[1 + 1]].len > 0
      BY <1>11, <1>12, <3>1
    <3>3. End(t) < worker'[qq[1]].start + worker'[qq[1]].len
      BY <1>13, <3>2 DEF Work
    <3>4. End(t) < worker'[qq[1]].start => worker'[qq[1]].start % Chunk = 0
      <4>1. worker[q[1 + 1]].start = End(t) \/ worker[q[1 + 1]].start % Chunk = 0
        BY <2>3, <3>1
      <4>2. QED
        BY <1>13, <3>2, <4>1 DEF Work
    <3>5. ASSUME NEW i \in 1..(n - 1 - 1)
          PROVE  \/ worker'[qq[i + 1]].start = worker'[qq[i]].start + worker'[qq[i]].len
                 \/ worker'[qq[i + 1]].start % Chunk = 0
      <4>1. i \in 1..(n - 1) /\ i + 1 \in 1..(n - 1)
        BY <1>10, <3>5
      <4>2. QED
        BY <1>12, <2>3, <4>1
    <3>6. After(next, worker'[qq[n - 1]].start + worker'[qq[n - 1]].len)
      <4>1. worker'[qq[n - 1]].start + worker'[qq[n - 1]].len = End(q[n - 1 + 1])
        BY <1>12, <3>1
      <4>2. QED
        BY <2>3, <3>1, <4>1
    <3>7. QED
      BY <2>5, <3>3, <3>4, <3>5, <3>6
  <2>6. QED
    BY <2>4, <2>5
<1>17. ASSUME NEW u \in Threads, worker[u].owner \in Readers \ {r} PROVE worker'[u] = worker[u]
  <2>1. worker[t].owner = r
    BY <1>1, <1>3 DEF ReaderInv, QueueInv
  <2>2. QED
    BY <1>6, <1>17, <2>1
<1>18. \A u \in Threads : worker[u].at # "free" /\ worker[u].owner \in Readers \ {r} => SameChunk(u)
  BY <1>17 DEF SameChunk
<1>19. ReaderInv(r)'
  BY <1>14, <1>15, <1>16 DEF ReaderInv
<1>20. \A s \in Readers : ReaderInv(s)'
  BY <1>8, <1>18, <1>19, OthersKept
<1>21. QED
  BY <1>7, <1>9, <1>20 DEF PrefetchInv

\* A read of the front chunk ends inside it, or consumes it.
LEMMA CopyKeeps ==
  ASSUME PrefetchInv, NEW r \in Readers, Take(r), Offset(r) <= Front(r).len
  PROVE  PrefetchInv'
<1> DEFINE t == Head(pf[r].pending)
           w == Front(r)
           n == Min(call[r].buf, w.len - Offset(r))
           f == [pos |-> file[r].pos + n, adjacent |-> TRUE]
<1>1. call[r].at = "join" /\ w.at \in {"done", "taken"} /\ Offset(r) <= w.len /\ local' = local
  BY DEF Take, source
<1>2. /\ StateTypes /\ PermitsHeld /\ ReaderInv(r) /\ pf[r].on /\ pf[r].next \in 0..Size
      /\ call[r].buf \in Nat \ {0} /\ file[r].pos \in 0..Size
      /\ call[r].got = 0 /\ pf[r].pending # <<>> /\ w.start <= file[r].pos
  BY <1>1, ReadingIs DEF ReaderInv, CallInv
<1>3. /\ t \in Threads /\ t = pf[r].pending[1] /\ w \in Work /\ w = worker[t] /\ w.len > 0
      /\ w.start + w.len <= pf[r].next
  BY <1>1, <1>2, ReadingIs DEF Front, End
<1>4. /\ w.start \in Nat /\ w.len \in Nat /\ n \in Nat /\ f.pos = file[r].pos + n
      /\ Offset(r) = file[r].pos - w.start
      /\ f.pos <= w.start + w.len /\ w.start <= f.pos
  <2>1. w.start \in Nat /\ w.len \in Nat
    BY <1>3, PrefetchAssumption DEF Work
  <2>2. Offset(r) = file[r].pos - w.start
    BY DEF Offset
  <2>3. QED
    BY <1>1, <1>2, <2>1, <2>2 DEF Min
<1>5. f \in Place
  <2>1. ASSUME NEW pos, pos = file[r].pos + n, pos <= w.start + w.len PROVE pos \in 0..Size
    <3> HIDE DEF n, w, f
    <3>1. pos \in Nat
      BY <1>2, <1>4, <2>1
    <3>2. pf[r].next <= Size /\ pf[r].next \in Nat /\ w.start + w.len \in Nat
      BY <1>2, <1>4, PrefetchAssumption
    <3>3. w.start + w.len <= Size
      BY <1>3, <3>2, PrefetchAssumption
    <3>4. QED
      BY <2>1, <3>1, <3>2, <3>3, PrefetchAssumption
  <2>2. file[r].pos + n \in 0..Size
    <3> HIDE DEF n, w
    <3>1. QED
      BY <1>4, <2>1
  <2>3. QED
    BY <2>2 DEF Place
<1>6. file' = [file EXCEPT ![r] = f] /\ call' = [call EXCEPT ![r] = Rest]
  BY DEF Take, Copy, Deliver
<1>7. IF Offset(r) + n = w.len
      THEN /\ worker' = [worker EXCEPT ![t] = Free] /\ used' = used - 1
           /\ pf' = [pf EXCEPT ![r].pending = Tail(@), ![r].window = Min(2 * @, Parallel)]
      ELSE worker' = [worker EXCEPT ![t].at = "taken"] /\ UNCHANGED <<used,
                                                                      pf>>
  BY DEF Take, Copy
<1>8. Holding(t)
  BY <1>1, <1>3 DEF Holding
<1> HIDE DEF f, n
<1>9. CASE Offset(r) + n = w.len
  <2>1. f.pos = w.start + w.len
    BY <1>2, <1>4, <1>9
  <2> DEFINE q == pf[r].pending
             p == [pf[r] EXCEPT !.pending = Tail(q), !.window = Min(2 * pf[r].window, Parallel)]
  <2>2. pf[r] \in Ahead /\ pf[r].window \in 1..Parallel /\ Tail(q) \in Seq(Threads)
    BY <1>1, <1>2, ReadingIs DEF Ahead
  <2>3. Min(2 * pf[r].window, Parallel) \in 1..Parallel
    BY <2>2, PrefetchAssumption DEF Min
  <2>4. p \in Ahead /\ p.on /\ p.next = pf[r].next /\ p.pending = Tail(q)
    BY <1>2, <2>2, <2>3 DEF Ahead
  <2>5. pf' = [pf EXCEPT ![r] = p]
    BY <1>2, <1>7, <1>9, <2>2 DEF StateTypes, Ahead
  <2>6. worker' = [worker EXCEPT ![t] = Free] /\ used' = used - 1
    BY <1>7, <1>9
  <2> HIDE DEF p
  <2>7. QED
    BY <1>1, <1>5, <1>6, <1>8, <2>1, <2>4, <2>5, <2>6, ChunkConsumed
<1>10. CASE Offset(r) + n # w.len
  <2>1. worker' = [worker EXCEPT ![t].at = "taken"] /\ UNCHANGED <<used, pf>>
    BY <1>7, <1>10
  <2>2. /\ \A u \in Threads \ {t} : worker'[u] = worker[u]
        /\ worker'[t].at = "taken" /\ worker'[t].owner = worker[t].owner
        /\ worker'[t].start = worker[t].start /\ worker'[t].len = worker[t].len
    BY <1>2, <1>3, <2>1 DEF StateTypes, Work
  <2>3. worker' \in [Threads -> Work]
    BY <1>2, <1>3, <2>1 DEF StateTypes, Work
  <2>4. Held' = Held
    BY <1>3, <1>8, <2>2 DEF Held, Holding
  <2>5. used' \in Nat /\ PermitsHeld'
    BY <1>2, <2>1, <2>4, PermitsKept
  <2>6. \A u \in Threads : worker[u].at # "free" => SameChunk(u)
    BY <2>2 DEF SameChunk
  <2>7. w.start <= f.pos /\ f.pos < w.start + w.len
    BY <1>2, <1>4, <1>10
  <2>8. QED
    BY <1>1, <1>2, <1>5, <1>6, <2>1, <2>3, <2>5, <2>6, <2>7, Constants,
      ReadGoesOn
<1>11. QED
  BY <1>9, <1>10

\* A read past the front chunk ends in a panic and leaves the readahead alone.
LEMMA PanicKeeps ==
  ASSUME PrefetchInv, NEW r \in Readers, Take(r), ~(Offset(r) <= Front(r).len)
  PROVE  PrefetchInv'
<1> DEFINE c == [Rest EXCEPT !.at = "panicked"]
<1>1. /\ call[r].at = "join" /\ call' = [call EXCEPT ![r] = c]
      /\ UNCHANGED <<used, worker, file, pf, local>>
  BY DEF Take, Panic, source
<1>2. c \in Reading /\ c.got = 0 /\ c.at = "panicked"
  BY PrefetchAssumption DEF Rest, Reading
<1>3. /\ StateTypes /\ ReaderInv(r) /\ file[r].pos \in 0..Size /\ call[r].got = 0
  BY <1>1, ReadingIs DEF ReaderInv, CallInv
<1>4. file[r] \in Place /\ file' = [file EXCEPT ![r] = file[r]] /\ file[r].pos = Reached(r)
  BY <1>1, <1>3, PrefetchAssumption DEF StateTypes, Reached
<1>5. /\ worker' \in [Threads -> Work] /\ used' \in Nat /\ PermitsHeld'
      /\ \A t \in Threads : worker[t].at # "free" => SameChunk(t)
  BY <1>1, WorkersKept
<1> HIDE DEF c
<1>6. QED
  BY <1>1, <1>2, <1>4, <1>5, ReadGoesOn

\* A read of a readahead that fails drops it.
LEMMA FailuresKeep ==
  ASSUME PrefetchInv, NEW r \in Readers, ReadFails(r) \/ JoinFails(r)
  PROVE  PrefetchInv'
<1>1. Fail(r) \/ (call[r].at = "join" /\ ReadAlone(r, call[r].buf))
  BY DEF ReadFails, JoinFails
<1>2. CASE Fail(r)
  BY <1>2, FailKeeps
<1>3. CASE call[r].at = "join" /\ ReadAlone(r, call[r].buf)
  <2>1. call[r].buf \in Bufs /\ file[r].pos < Size
    BY <1>3, ReadingIs
  <2>2. QED
    BY <1>3, <2>1, AloneKeeps
<1>4. QED
  BY <1>1, <1>2, <1>3

-----------------------------------------------------------------------------
(* The invariant, and what it says of the budget and of reads. *)

\* A mount starts with no worker and no readahead.
LEMMA InitInv ==
  ASSUME PrefetchInit
  PROVE  PrefetchInv
<1>1. Free \in Work /\ Free.at = "free"
  BY PrefetchAssumption DEF Free, Work
<1>2. StateTypes
  BY <1>1, Constants, PrefetchAssumption DEF PrefetchInit, StateTypes, Place
<1>3. PermitsHeld
  <2>1. {t \in Threads : Holding(t)} = {}
    BY <1>1 DEF PrefetchInit, Holding
  <2>2. QED
    BY <2>1, FS_EmptySet, PrefetchAssumption DEF PrefetchInit, PermitsHeld
<1>4. ASSUME NEW r \in Readers PROVE ReaderInv(r)
  <2>1. /\ ~pf[r].on /\ pf[r].pending = <<>> /\ call[r] = Rest
        /\ file[r].pos = 0 /\ call[r].got = 0 /\ call[r].at = "rest"
    BY DEF PrefetchInit, Off, Rest
  <2>2. Len(<<>>) = 0 /\ 1..0 = {}
    OBVIOUS
  <2>3. QueueInv(r)
    BY <2>1, <2>2 DEF QueueInv
  <2>4. CallInv(r)
    BY <2>1, PrefetchAssumption DEF CallInv, Reached
  <2>5. AlignInv(r)
    BY <2>1 DEF AlignInv
  <2>6. QED
    BY <2>3, <2>4, <2>5 DEF ReaderInv
<1>5. QED
  BY <1>2, <1>3, <1>4 DEF PrefetchInv

\* Each action by its lemma.
LEMMA NextInv ==
  ASSUME PrefetchInv, [Next]_prefetchVars
  PROVE  PrefetchInv'
<1>1. ASSUME NEW t \in Threads, WorkerStep(t) PROVE PrefetchInv'
  BY <1>1, WorkerKeeps
<1>2. ASSUME NEW r \in Readers, ReadStep(r) PROVE PrefetchInv'
  BY <1>2, FillSkipKeeps, FillSpawnKeeps, FillStopKeeps, FailuresKeep, CopyKeeps,
    PanicKeeps DEF ReadStep
<1>3. ASSUME NEW r \in Readers, Close(r) PROVE PrefetchInv'
  BY <1>3, CloseKeeps
<1>4. ASSUME NEW r \in Readers, NEW buf \in Bufs, Begin(r, buf) \/ WindowServes(r, buf)
      PROVE  PrefetchInv'
  BY <1>4, BeginKeeps, WindowServesKeeps
<1>5. ASSUME NEW r \in Readers, NEW p \in 0..Size, Seek(r, p) PROVE PrefetchInv'
  BY <1>5, SeekKeepsInv
<1>6. CASE Evict \/ Publish \/ \E r \in Readers : Pressure(r)
  BY <1>6, SourceKeeps
<1>7. CASE UNCHANGED prefetchVars
  <2>1. UNCHANGED <<used, worker, file, pf, call, local>>
    BY <1>7 DEF prefetchVars, source
  <2>2. /\ worker' \in [Threads -> Work] /\ used' \in Nat /\ PermitsHeld'
        /\ \A t \in Threads : worker[t].at # "free" => SameChunk(t)
    BY <2>1, WorkersKept
  <2>3. StateTypes /\ \A s \in Readers : ReaderInv(s)
    BY DEF PrefetchInv
  <2>4. StateTypes'
    BY <2>1, <2>3 DEF StateTypes
  <2>5. ASSUME NEW s \in Readers PROVE ReaderInv(s)'
    BY <2>1, <2>3, ReaderKept
  <2>6. QED
    BY <2>2, <2>4, <2>5 DEF PrefetchInv
<1>8. QED
  BY <1>1, <1>2, <1>3, <1>4, <1>5, <1>6, <1>7 DEF Next

\* PrefetchInv is an invariant of the specification.
THEOREM PrefetchInvariance == PrefetchSpec => []PrefetchInv
<1>1. PrefetchInit => PrefetchInv
  BY InitInv
<1>2. PrefetchInv /\ [Next]_prefetchVars => PrefetchInv'
  BY NextInv
<1>3. QED
  BY <1>1, <1>2, PTL DEF PrefetchSpec

\* PrefetchBudget: used is the number of running workers and unconsumed
\* payloads, detached ones included, and never above the limit.
THEOREM PermitsHeldHolds == PrefetchSpec => []PermitsHeld
<1>1. PrefetchInv => PermitsHeld
  BY DEF PrefetchInv
<1>2. QED
  BY <1>1, PrefetchInvariance, PTL

\* Prefetch::read copies from inside the front chunk.
THEOREM ReadsInsideHolds == PrefetchSpec => []ReadsInside
<1>1. ASSUME PrefetchInv, ~local, NEW r \in Readers, call[r].at = "join"
      PROVE  Front(r).start <= file[r].pos /\ file[r].pos < Front(r).start + Front(r).len
  <2>1. /\ ReaderInv(r) /\ pf[r].on /\ file[r].pos \in 0..Size
        /\ pf[r].pending # <<>> =>
             End(pf[r].pending[1]) = Front(r).start + Front(r).len
    BY <1>1, ReadingIs
  <2>2. pf[r].pending # <<>> /\ Front(r).start <= file[r].pos /\ call[r].got = 0
    BY <1>1, <2>1 DEF ReaderInv, CallInv
  <2>3. Reached(r) < End(pf[r].pending[1])
    BY <1>1, <2>1, <2>2 DEF ReaderInv, AlignInv
  <2>4. Reached(r) = file[r].pos
    BY <2>1, <2>2 DEF Reached
  <2>5. QED
    BY <2>1, <2>2, <2>3, <2>4
<1>2. PrefetchInv => ReadsInside
  BY <1>1 DEF ReadsInside
<1>3. QED
  BY <1>2, PrefetchInvariance, PTL
=============================================================================
