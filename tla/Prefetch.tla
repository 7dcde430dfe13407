------------------------------ MODULE Prefetch ------------------------------
(***************************************************************************)
(* Sequential readahead of an HTTP range file (http_pool.rs Prefetch,      *)
(* PrefetchBudget; lib.rs HttpRangeFile::read and seek).                   *)
(*                                                                         *)
(* A reader schedules the chunks after its position on worker threads and  *)
(* takes their bytes in order.  A permit of the process-wide budget covers *)
(* a worker and then its payload until the payload is consumed; a seek     *)
(* detaches the workers, which keep their permits until they exit.         *)
(*                                                                         *)
(* Bytes are their offsets.  The thresholds that start a readahead, the    *)
(* forward window and memory pressure are choices.  The readers share one  *)
(* source: its identity (token), its range cache and its hub blob.         *)
(***************************************************************************)
EXTENDS Naturals, Sequences, FiniteSets

CONSTANTS
  Readers,      \* open range files of one source
  Threads,      \* bound: names for the worker threads alive at once
  None,
  Limit,        \* RATARMOUNT_HTTP_PREFETCH_LIMIT
  Parallel,     \* RATARMOUNT_HTTP_PARALLEL, at least 2
  Chunk,        \* HTTP_RANGE_CHUNK and the cache's chunk size, in bytes
  Size,         \* the length of the file
  Bufs,         \* the lengths of the callers' buffers
  Hub,          \* whether the source publishes into a Hub cache
  MaxSeeks      \* bound: seeks and evictions

ASSUME PrefetchAssumption ==
  /\ None \notin Readers
  /\ IsFiniteSet(Threads) /\ Threads \subseteq Nat
  /\ Limit \in Nat \ {0} /\ Parallel \in Nat \ {0, 1}
  /\ Chunk \in Nat \ {0} /\ Size \in Nat \ {0}
  /\ Bufs \subseteq Nat \ {0} /\ Hub \in BOOLEAN /\ MaxSeeks \in Nat

VARIABLES
  token,        \* the verified identity: "none", "known" or "off"
  cached,       \* chunks in the range cache
  local,        \* the Hub cache has the whole file
  used,         \* PrefetchBudget.used
  worker,       \* the threads
  file,         \* HttpRangeFile: position, and whether the last read was adjacent
  pf,           \* its Prefetch
  call,         \* the read in progress
  seeks

source == <<token, cached, local>>
prefetchVars == <<source, used, worker, file, pf, call, seeks>>

Min(a, b) == IF a < b THEN a ELSE b
Max(a, b) == IF a < b THEN b ELSE a
ChunkOf(p) == p \div Chunk
AllChunks == 0..ChunkOf(Size - 1)

Free == [at |-> "free", owner |-> None, start |-> 0, len |-> 0]
Off == [on |-> FALSE, next |-> 0, window |-> 1, cancelled |-> FALSE, pending |-> <<>>]
Rest == [at |-> "rest", buf |-> 0, got |-> 0]
Closed == [at |-> "closed", buf |-> 0, got |-> 0]

-----------------------------------------------------------------------------
\* HttpRangeSource

\* window_len: with a verified identity a window ends at its cache chunk.
WindowLen(start) ==
  LET len == Min(Chunk, Size - start)
  IN  IF token = "known" THEN Min(len, Chunk - (start % Chunk)) ELSE len

\* cache_available
CacheAvailable(start, end) ==
  local \/ (token = "known" /\ ChunkOf(start)..ChunkOf(end) \subseteq cached)

\* read_cached_into: the bytes served, 0 for a miss.  A read of the range cache
\* stays in its chunk; one of the Hub's blob is as long as the buffer.
ReadCachedInto(p, n) ==
  IF local THEN Min(n, Size - p)
  ELSE IF token = "known" /\ ChunkOf(p) \in cached
       THEN Min(Min(n, Chunk - (p % Chunk)), Size - p) ELSE 0

\* observe_identity and the validator check of range_reader: a 206 may bring the
\* identity; one that cannot verify it turns the cache off for good.
Identify ==
  token' \in CASE token = "none" -> {"none", "known"}
               [] token = "known" -> {"known", "off"}
               [] token = "off" -> {"off"}

\* store_chunk, or nothing when the cache refuses the chunk.
Store(chunks) == cached' \in {cached, cached \cup chunks}

\* A GET of the bytes from p: a new identity, and the whole chunks among them
\* stored under a known one (fetch reads aligned chunks).  What a cache that was
\* turned off still holds is never read again.
Get(p, n) ==
  /\ Identify
  /\ IF token' = "off" THEN cached' = {}
     ELSE IF token' = "known" /\ (token = "known" \/ (p % Chunk = 0 /\ n = Min(Chunk, Size - p)))
     THEN Store(ChunkOf(p)..ChunkOf(p + n - 1))
     ELSE UNCHANGED cached
  /\ UNCHANGED local

\* The range cache evicts a chunk.
Evict ==
  /\ seeks < MaxSeeks
  /\ seeks' = seeks + 1
  /\ \E c \in cached : cached' = cached \ {c}
  /\ UNCHANGED <<token, local, used, worker, file, pf, call>>

\* The Hub's publisher assembles the file some time after every chunk was stored
\* and observed, and the range cache gives up its copy.
Publish ==
  /\ Hub /\ ~local /\ token = "known"
  /\ cached = AllChunks
  /\ local' = TRUE /\ cached' = {}
  /\ UNCHANGED <<token, used, worker, file, pf, call, seeks>>

-----------------------------------------------------------------------------
\* Workers

Workers(p) == {p.pending[i] : i \in 1..Len(p.pending)}
Holding(t) == worker[t].at \in {"begin", "get", "got", "done", "taken"}

\* MUTANT: dropping the handles gives back the permits of running workers too.
DetachReleases(r, p) ==
  LET ended == {t \in Workers(p) : worker[t].at \in {"done", "taken", "failed"}}
  IN  /\ worker' = [t \in Threads |->
                      IF t \in ended THEN Free
                      ELSE IF t \in Workers(p) THEN [worker[t] EXCEPT !.owner = None]
                      ELSE worker[t]]
      /\ used' = used - Cardinality({t \in Workers(p) : Holding(t)})

\* Dropping a Prefetch or clearing its queue: the payloads go with their permits,
\* running workers are detached and keep theirs.
Detach(r, p) ==
  LET ended == {t \in Workers(p) : worker[t].at \in {"done", "taken", "failed"}}
  IN  /\ worker' = [t \in Threads |->
                      IF t \in ended THEN Free
                      ELSE IF t \in Workers(p) THEN [worker[t] EXCEPT !.owner = None]
                      ELSE worker[t]]
      /\ used' = used - Cardinality({t \in ended : Holding(t)})

\* check_cancelled: drop cancels the flag, and so does memory pressure.
Cancelled(t) == worker[t].owner \in {r \in Readers : pf[r].cancelled} \cup {None}

\* A worker ends: an error drops the permit, a payload keeps it, and without a
\* handle the payload is dropped.
Exit(t, at) ==
  IF worker[t].owner = None
  THEN /\ worker' = [worker EXCEPT ![t] = Free]
       /\ used' = used - 1
  ELSE /\ worker' = [worker EXCEPT ![t].at = at]
       /\ used' = IF at = "failed" THEN used - 1 ELSE used

\* fetch begins: a cache hit needs no request.
WorkerBegins(t) ==
  /\ worker[t].at = "begin"
  /\ \/ /\ Cancelled(t)
        /\ Exit(t, "failed")
     \/ /\ ~Cancelled(t)
        /\ CacheAvailable(worker[t].start, worker[t].start + worker[t].len - 1)
        /\ Exit(t, "done")
     \/ /\ ~Cancelled(t)
        /\ worker' = [worker EXCEPT ![t].at = "get"]
        /\ UNCHANGED used
  /\ UNCHANGED <<source, file, pf, call, seeks>>

\* fetch_network: the request fails or meets its deadline, or a cancellation is
\* noticed; otherwise the last check passed.
WorkerGets(t) ==
  /\ worker[t].at = "get"
  /\ \/ Exit(t, "failed")
     \/ /\ ~Cancelled(t)
        /\ worker' = [worker EXCEPT ![t].at = "got"]
        /\ UNCHANGED used
  /\ UNCHANGED <<source, file, pf, call, seeks>>

\* The chunk is stored and returned, even when it was cancelled meanwhile.
WorkerEnds(t) ==
  /\ worker[t].at = "got"
  /\ Get(worker[t].start, worker[t].len)
  /\ Exit(t, "done")
  /\ UNCHANGED <<file, pf, call, seeks>>

\* Memory pressure reaches the hook of a live worker or payload.
Pressure(r) ==
  /\ pf[r].on /\ ~pf[r].cancelled
  /\ \E t \in Workers(pf[r]) : Holding(t)
  /\ pf' = [pf EXCEPT ![r].cancelled = TRUE]
  /\ UNCHANGED <<source, used, worker, file, call, seeks>>

-----------------------------------------------------------------------------
\* HttpRangeFile::read

Front(r) == worker[Head(pf[r].pending)]

\* The read returns n bytes.
Deliver(r, n) ==
  /\ file' = [file EXCEPT ![r] = [pos |-> file[r].pos + n, adjacent |-> TRUE]]
  /\ call' = [call EXCEPT ![r] = Rest]

\* Without a prefetch the caller reads by itself (read_into_with_pattern), at most
\* "most" bytes, or fails.  It never waits for a permit.
ReadSync(r, most) ==
  LET n == Min(most, WindowLen(file[r].pos))
      hit == ReadCachedInto(file[r].pos, n)
  IN  \/ /\ hit > 0
         /\ Deliver(r, hit)
         /\ UNCHANGED source
      \/ /\ hit = 0
         /\ Get(file[r].pos, n)
         /\ Deliver(r, n)

\* Err: the caller drops its prefetch and starts over.
Fail(r) ==
  /\ Detach(r, pf[r])
  /\ pf' = [pf EXCEPT ![r] = Off]
  /\ file' = [file EXCEPT ![r].adjacent = FALSE]
  /\ call' = [call EXCEPT ![r] = Rest]
  /\ UNCHANGED <<source, seeks>>

\* None: the caller drops its prefetch and reads synchronously, which may fail.
ReadAlone(r, buf) ==
  /\ Detach(r, pf[r])
  /\ pf' = [pf EXCEPT ![r] = Off]
  /\ \/ ReadSync(r, buf)
     \/ call' = [call EXCEPT ![r] = Rest] /\ UNCHANGED <<source, file>>
  /\ UNCHANGED seeks

\* A read before the end of the file.  An adjacent read may start a readahead.
Begin(r, buf) ==
  /\ call[r].at = "rest" /\ file[r].pos < Size
  /\ \E start \in IF pf[r].on THEN {FALSE} ELSE {FALSE, file[r].adjacent} :
       LET p == IF start THEN [Off EXCEPT !.on = TRUE, !.next = file[r].pos] ELSE pf[r]
           before == p.pending = <<>> \/ file[r].pos < Front(r).start
           n == ReadCachedInto(file[r].pos, buf)
       IN  CASE ~p.on \/ p.cancelled -> ReadAlone(r, buf)
             [] p.on /\ ~p.cancelled ->
                  /\ IF before /\ n > 0
                     THEN /\ call' = [call EXCEPT ![r] = [at |-> "fill", buf |-> buf, got |-> n]]
                          /\ pf' = [pf EXCEPT ![r] =
                                      [p EXCEPT !.next = Max(p.next, file[r].pos + n)]]
                     ELSE /\ call' = [call EXCEPT ![r] = [at |-> "fill", buf |-> buf, got |-> 0]]
                          /\ pf' = [pf EXCEPT ![r] = p]
                  /\ UNCHANGED <<source, used, worker, file, seeks>>

\* The forward window serves the read, and the prefetch goes.
WindowServes(r, buf) ==
  /\ call[r].at = "rest" /\ file[r].pos < Size
  /\ pf[r].on
  /\ Detach(r, pf[r])
  /\ pf' = [pf EXCEPT ![r] = Off]
  /\ Deliver(r, Min(Min(buf, Chunk - (file[r].pos % Chunk)), Size - file[r].pos))
  /\ UNCHANGED <<source, seeks>>

Horizon(r) == Min(file[r].pos + call[r].got + Chunk * Parallel, Size)
MayFill(r) ==
  /\ call[r].at = "fill"
  /\ Len(pf[r].pending) < pf[r].window /\ pf[r].next < Horizon(r)
WindowEnd(r) == pf[r].next + WindowLen(pf[r].next) - 1

\* fill: a window that is cached is skipped.
FillSkip(r) ==
  /\ MayFill(r)
  /\ CacheAvailable(pf[r].next, WindowEnd(r))
  /\ pf' = [pf EXCEPT ![r].next = WindowEnd(r) + 1]
  /\ UNCHANGED <<source, used, worker, file, call, seeks>>

\* MUTANT: the count is not compared with the limit.
TryAcquireAlways == used' = used + 1

\* PrefetchBudget::try_acquire
TryAcquire == used < Limit /\ used' = used + 1

\* fill: reserve, acquire a permit, spawn the worker and queue it.
FillSpawn(r) ==
  /\ MayFill(r)
  /\ ~CacheAvailable(pf[r].next, WindowEnd(r))
  /\ TryAcquire
  /\ \E t \in Threads :
       /\ worker[t].at = "free"
       /\ \A u \in Threads : worker[u].at = "free" => u >= t
       /\ worker' = [worker EXCEPT ![t] = [at |-> "begin", owner |-> r,
                       start |-> pf[r].next, len |-> WindowLen(pf[r].next)]]
       /\ pf' = [pf EXCEPT ![r].next = WindowEnd(r) + 1,
                           ![r].pending = Append(@, t)]
  /\ UNCHANGED <<source, file, call, seeks>>

\* MUTANT: at the cap the read waits for a permit of its own.
FillStopWaits(r) ==
  /\ call[r].at = "fill"
  /\ used < Limit \/ pf[r].pending # <<>> \/ call[r].got > 0
  /\ CASE call[r].got > 0 ->
            Deliver(r, call[r].got) /\ UNCHANGED <<source, used, worker, pf, seeks>>
       [] call[r].got = 0 /\ pf[r].pending = <<>> -> ReadAlone(r, call[r].buf)
       [] call[r].got = 0 /\ pf[r].pending # <<>> /\ file[r].pos < Front(r).start ->
            ReadSync(r, Min(call[r].buf, Front(r).start - file[r].pos))
              /\ UNCHANGED <<used, worker, pf, seeks>>
       [] OTHER ->
            /\ call' = [call EXCEPT ![r].at = "join"]
            /\ UNCHANGED <<source, used, worker, file, pf, seeks>>

\* fill ends: the queue is full, the horizon reached, or memory or a permit was
\* refused.  A cached read returns; an empty queue is None; a gap before the queue
\* is read synchronously; otherwise the front worker is joined.
FillStop(r) ==
  /\ call[r].at = "fill"
  /\ ~(MayFill(r) /\ CacheAvailable(pf[r].next, WindowEnd(r)))
  /\ CASE call[r].got > 0 ->
            Deliver(r, call[r].got) /\ UNCHANGED <<source, used, worker, pf, seeks>>
       [] call[r].got = 0 /\ pf[r].pending = <<>> -> ReadAlone(r, call[r].buf)
       [] call[r].got = 0 /\ pf[r].pending # <<>> /\ file[r].pos < Front(r).start ->
            ReadSync(r, Min(call[r].buf, Front(r).start - file[r].pos))
              /\ UNCHANGED <<used, worker, pf, seeks>>
       [] OTHER ->
            /\ call' = [call EXCEPT ![r].at = "join"]
            /\ UNCHANGED <<source, used, worker, file, pf, seeks>>

\* The spawn or the gap's read fails.
ReadFails(r) ==
  /\ call[r].at = "fill"
  /\ \/ MayFill(r) /\ ~CacheAvailable(pf[r].next, WindowEnd(r)) /\ used < Limit
     \/ call[r].got = 0 /\ pf[r].pending # <<>> /\ file[r].pos < Front(r).start
  /\ Fail(r)

\* join returns the worker's error, or None when the readahead was cancelled.
JoinFails(r) ==
  /\ call[r].at = "join" /\ Front(r).at \in {"done", "failed"}
  /\ \/ /\ pf[r].cancelled
        /\ ReadAlone(r, call[r].buf)
     \/ /\ ~pf[r].cancelled /\ Front(r).at = "failed"
        /\ Fail(r)

\* The bytes read() copies: offset and length of the front chunk.
Offset(r) == file[r].pos - Front(r).start

\* join succeeded, or the chunk was joined before: its bytes are copied, and a chunk
\* read to its end is dropped with its permit while the window doubles.
Copy(r) ==
  LET n == Min(call[r].buf, Front(r).len - Offset(r))
      t == Head(pf[r].pending)
  IN  /\ Deliver(r, n)
      /\ IF Offset(r) + n = Front(r).len
         THEN /\ worker' = [worker EXCEPT ![t] = Free]
              /\ used' = used - 1
              /\ pf' = [pf EXCEPT ![r].pending = Tail(@),
                                  ![r].window = Min(2 * @, Parallel)]
         ELSE /\ worker' = [worker EXCEPT ![t].at = "taken"]
              /\ UNCHANGED <<used, pf>>

\* Past the chunk's end (a read of the Hub's blob got there) data.len() - offset
\* underflows or the slice is out of range: the thread panics, and the file keeps
\* its readahead until it is dropped.
Panic(r) ==
  /\ call' = [call EXCEPT ![r] = [Rest EXCEPT !.at = "panicked"]]
  /\ UNCHANGED <<used, worker, file, pf>>

Take(r) ==
  /\ call[r].at = "join"
  /\ Front(r).at = "taken" \/ (Front(r).at = "done" /\ ~pf[r].cancelled)
  /\ IF Offset(r) <= Front(r).len THEN Copy(r) ELSE Panic(r)
  /\ UNCHANGED <<source, seeks>>

\* MUTANT: a seek keeps the readahead of the old position.
SeekKeeps(r, p) ==
  /\ call[r].at = "rest" /\ p # file[r].pos
  /\ seeks < MaxSeeks
  /\ seeks' = seeks + 1
  /\ file' = [file EXCEPT ![r] = [pos |-> p, adjacent |-> FALSE]]
  /\ UNCHANGED <<source, used, worker, pf, call>>

\* seek to another offset
Seek(r, p) ==
  /\ call[r].at = "rest" /\ p # file[r].pos
  /\ seeks < MaxSeeks
  /\ seeks' = seeks + 1
  /\ Detach(r, pf[r])
  /\ pf' = [pf EXCEPT ![r] = Off]
  /\ file' = [file EXCEPT ![r] = [pos |-> p, adjacent |-> FALSE]]
  /\ UNCHANGED <<source, call>>

\* The file is dropped.
Close(r) ==
  /\ call[r].at \in {"rest", "panicked"}
  /\ Detach(r, pf[r])
  /\ pf' = [pf EXCEPT ![r] = Off]
  /\ call' = [call EXCEPT ![r] = Closed]
  /\ file' = [file EXCEPT ![r] = [pos |-> 0, adjacent |-> FALSE]]
  /\ UNCHANGED <<source, seeks>>

-----------------------------------------------------------------------------
PrefetchInit ==
  /\ token \in {"none", "known"} /\ cached \in SUBSET AllChunks
  /\ token = "none" => cached = {}
  /\ local = FALSE
  /\ used = 0
  /\ worker = [t \in Threads |-> Free]
  /\ file = [r \in Readers |-> [pos |-> 0, adjacent |-> FALSE]]
  /\ pf = [r \in Readers |-> Off]
  /\ call = [r \in Readers |-> Rest]
  /\ seeks = 0

WorkerStep(t) == WorkerBegins(t) \/ WorkerGets(t) \/ WorkerEnds(t)
ReadStep(r) ==
  FillSkip(r) \/ FillSpawn(r) \/ FillStop(r) \/ ReadFails(r) \/ JoinFails(r) \/ Take(r)

Next ==
  \/ \E t \in Threads : WorkerStep(t)
  \/ \E r \in Readers :
       \/ ReadStep(r) \/ Close(r) \/ Pressure(r)
       \/ \E buf \in Bufs : Begin(r, buf) \/ WindowServes(r, buf)
       \/ \E p \in 0..Size : Seek(r, p)
  \/ Evict \/ Publish

PrefetchSpec == PrefetchInit /\ [][Next]_prefetchVars

-----------------------------------------------------------------------------
PrefetchTypeOK ==
  /\ token \in {"none", "known", "off"}
  /\ cached \subseteq AllChunks /\ local \in BOOLEAN
  /\ used \in Nat
  /\ worker \in [Threads -> [at : {"free", "begin", "get", "got", "done", "failed", "taken"},
                             owner : Readers \cup {None}, start : 0..Size, len : 0..Chunk]]
  /\ file \in [Readers -> [pos : 0..Size, adjacent : BOOLEAN]]
  /\ pf \in [Readers -> [on : BOOLEAN, next : 0..Size, window : 1..Parallel,
                         cancelled : BOOLEAN, pending : Seq(Threads)]]
  /\ call \in [Readers -> [at : {"rest", "fill", "join", "closed", "panicked"},
                           buf : {0} \cup Bufs, got : 0..Size]]

\* The budget counts every worker that still runs, detached ones too, and every
\* payload not yet consumed, and never exceeds its limit ("a permit covers a running
\* worker AND its completed payload until consumed").
PermitsHeld ==
  /\ used = Cardinality({t \in Threads : Holding(t)})
  /\ used <= Limit

\* A read served from a prefetched chunk starts inside that chunk, so it neither
\* reports a false end of file nor slices past the payload: cache hits, skipped
\* windows, changing alignment and evictions never carry a reader past the front.
\* (Until the Hub's publisher hands out the whole file: a read from that blob is as
\* long as its buffer and may pass the front chunk.)
ReadsInside ==
  ~local => \A r \in Readers : call[r].at = "join" =>
    /\ Front(r).start <= file[r].pos
    /\ file[r].pos < Front(r).start + Front(r).len

\* A read in progress waits for nothing but its own front worker, which ends by its
\* 60-second deadline: whoever holds the permits, and however long their payloads
\* stay unconsumed, the reader goes on (at the cap, on its own thread).
ReadsNeverWait ==
  \A r \in Readers : call[r].at \in {"fill", "join"} =>
    \/ call[r].at = "join" /\ Front(r).at \in {"begin", "get", "got"}
    \/ ENABLED ReadStep(r)
=============================================================================
