----------------------------- MODULE RequestLog -----------------------------
(***************************************************************************)
(* The request records of the sandbox daemon (sandbox/requests.rs) and the *)
(* request-ID layer of `new` and `finalize` that uses them (daemon.rs,     *)
(* finalize.rs).                                                           *)
(*                                                                         *)
(* A request logs `running`, runs, logs its outcome, then answers; a retry *)
(* with the same ID gets the stored answer.  The table is bounded: a line  *)
(* evicts the oldest finished records, except that the daemon first moves  *)
(* every finalize record whose target still exists to the end of the file  *)
(* (make_room).  Replay knows no pins, so the file alone must lead to the  *)
(* same table.                                                             *)
(*                                                                         *)
(* The log's appends are those of DurableLog, which StateLog implements:   *)
(* a line is appended, rejected, or left in doubt.  Attempts are targets,  *)
(* an ID with the instance that tells it from a later attempt of that ID.  *)
(***************************************************************************)
EXTENDS Naturals, Sequences, SequencesExt, FiniteSets, FiniteSetsExt

CONSTANTS
  ReqIds,        \* request IDs clients use
  AttemptIds,    \* attempt IDs the daemon may draw
  NoReq,         \* no request ID
  New,           \* Subject::New, and the body of a `new`
  MaxRecords,    \* Limits.records
  MaxBytes,      \* Limits.live_bytes
  MaxInstances,  \* bound: attempts ever created
  MaxLines       \* bound: lines of the file when a request begins

Target == [id : AttemptIds, inst : 1..MaxInstances]

\* Line lengths: a `running` or `retryable` line is short; RecordBytes is
\* Limits.record_bytes, the longest.
Bytes(t) == IF t \in {"running", "retryable"} THEN 1 ELSE 2
RecordBytes == 2

ASSUME LimitsAssumption ==
  /\ MaxRecords \in Nat \ {0} /\ MaxBytes \in Nat
  /\ MaxBytes >= RecordBytes
  /\ NoReq \notin ReqIds /\ New \notin AttemptIds

\* A line, and the record it is the last line of.  `op` stands for the
\* hash of the body, `subj` is Subject, `names` the attempts it names.
Record == [id : ReqIds, op : {New} \cup AttemptIds,
           subj : {New} \cup Target,
           t : {"running", "done", "retryable", "failed"},
           names : SUBSET Target]

VARIABLES
  file,     \* the lines of requests.jsonl
  mem,      \* the live records, oldest last line first
  broken,   \* StateLog.broken
  up,       \* the daemon serves
  pins,     \* Pins.targets
  alive,    \* the attempts under attempts/
  kept,     \* the attempts committed to retained/
  drawn,    \* instances drawn so far
  job,      \* the call in progress
  told,     \* the definite answer each client got while its record lives
  by,       \* the request each instance was made for, while its record lives
  blind     \* history: instances drawn while a line in doubt may name their ID

answers == <<told, by, blind>>
trees == <<alive, kept, drawn>>
reqVars == <<file, mem, broken, up, pins, trees, job, answers>>

NoJob == [at |-> "idle"]
Idle == up /\ job.at = "idle"

Ids(table) == {table[i].id : i \in DOMAIN table}
RecordOf(id) == mem[CHOOSE i \in DOMAIN mem : mem[i].id = id]
Running(r) == r.t = "running"

ReqTypeOK ==
  /\ file \in Seq(Record) /\ mem \in Seq(Record)
  /\ broken \in BOOLEAN /\ up \in BOOLEAN
  /\ pins \subseteq Target /\ alive \subseteq Target /\ kept \subseteq Target
  /\ drawn \in 0..MaxInstances
  /\ told \in [ReqIds -> SUBSET [t : {"done", "failed"}, names : SUBSET Target]]
  /\ by \in [1..MaxInstances -> ReqIds \cup {NoReq}]
  /\ blind \subseteq 1..MaxInstances
  /\ job.at \in {"idle", "append", "run", "resolve"}

-----------------------------------------------------------------------------
(* The table: apply, evict, victims, admit.                                *)

LiveBytes(table) == FoldLeft(LAMBDA n, r : n + Bytes(r.t), 0, table)
WithinCaps(table) == Len(table) <= MaxRecords /\ LiveBytes(table) <= MaxBytes
Without(table, ids) == SelectSeq(table, LAMBDA r : r.id \notin ids)
Placed(table, line) == Append(Without(table, {line.id}), line)

\* victims: the oldest records, other than `keep` and running ones, whose
\* eviction brings the table within both caps; all of them if none suffices.
Victims(table, keep) ==
  LET may == SelectSeq(table, LAMBDA r : r.id # keep /\ ~Running(r))
      enough(n) == WithinCaps(Without(table, Ids(SubSeq(may, 1, n))))
      n == IF \E k \in 0..Len(may) : enough(k)
           THEN Min({k \in 0..Len(may) : enough(k)}) ELSE Len(may)
  IN SubSeq(may, 1, n)

\* apply: the line replaces its ID's record as the newest, then evict.
Apply(table, line) ==
  LET placed == Placed(table, line)
  IN Without(placed, Ids(Victims(placed, line.id)))

Replayed(lines) == FoldLeft(Apply, <<>>, lines)

\* pinned: a finalize record whose target exists.
Pinned(r) == r.subj \in pins

\* mutant: the record is counted at its present length.
AdmitsAsIs(line) ==
  LET placed == Placed(mem, line)
  IN (\E i \in DOMAIN mem : mem[i].id # line.id /\ Pinned(mem[i]) /\ ~Running(mem[i]))
     => WithinCaps(SelectSeq(placed, LAMBDA r : r.id = line.id \/ Running(r) \/ Pinned(r)))

\* admit: once every evictable record were evicted, the record at its
\* largest fits; asked only when there is a pinned record to protect.
Admits(line) ==
  LET placed == Placed(mem, line)
      held == SelectSeq(placed, LAMBDA r : r.id = line.id \/ Running(r) \/ Pinned(r))
  IN (\E i \in DOMAIN mem : mem[i].id # line.id /\ Pinned(mem[i]) /\ ~Running(mem[i]))
     => /\ Len(held) <= MaxRecords
        /\ LiveBytes(held) + RecordBytes - Bytes(line.t) <= MaxBytes

\* is_reserved: a live record names the ID.
Reserved == UNION {{n.id : n \in mem[i].names} : i \in DOMAIN mem}

-----------------------------------------------------------------------------
Line(id, op, subj, t, names) ==
  [id |-> id, op |-> op, subj |-> subj, t |-> t, names |-> names]

Init ==
  /\ file = <<>> /\ mem = <<>> /\ broken = FALSE /\ up = TRUE
  /\ pins = {} /\ alive = {} /\ kept = {} /\ drawn = 0
  /\ job = NoJob
  /\ told = [id \in ReqIds |-> {}]
  /\ by = [i \in 1..MaxInstances |-> NoReq]
  /\ blind = {}

\* What a new table does to the answers that depend on its records.
Forget(table) ==
  /\ told' = [id \in ReqIds |-> IF id \in Ids(table) THEN told[id] ELSE {}]
  /\ by' = [i \in 1..MaxInstances |-> IF by[i] \in Ids(table) THEN by[i] ELSE NoReq]
  /\ UNCHANGED blind

Holds(table) == mem' = table /\ Forget(table)

\* A line to append once room is made for it, and the call it belongs to.
Appending(kind, line) == [at |-> "append", kind |-> kind, line |-> line, moved |-> {}]

-----------------------------------------------------------------------------
(* A request arrives: new_with_request_id and finalize.                    *)

\* mutant: a finished request runs again.
FreshAny(id, op) == id \in Ids(mem) => RecordOf(id).op = op

\* Another body under the ID conflicts, a running record is unavailable,
\* a finished one is answered from the table (Stored).
Fresh(id, op) ==
  id \in Ids(mem) => RecordOf(id).op = op /\ RecordOf(id).t = "retryable"

\* begin_with, up to make_room.
Begin(line) ==
  /\ ~broken /\ Len(file) < MaxLines
  /\ Admits(line)
  /\ job' = Appending("begin", line)
  /\ UNCHANGED <<file, mem, broken, up, pins, trees, answers>>

NewRequest(id) ==
  /\ Idle /\ Fresh(id, New)
  /\ Begin(Line(id, New, New, "running", {}))

\* check_stored_target: a retry acts only on the target it first resolved.
StoredTarget(id, target) ==
  id \in Ids(mem) => RecordOf(id).subj = target

FinalizeRequest(id, target) ==
  /\ Idle /\ Fresh(id, target.id)
  /\ target \in alive \cup kept /\ StoredTarget(id, target)
  /\ Begin(Line(id, target.id, target, "running", {}))

\* A finished request is answered from its record.
Stored(id) ==
  /\ Idle /\ id \in Ids(mem) /\ told[id] = {}
  /\ RecordOf(id).t \in {"done", "failed"}
  /\ told' = [told EXCEPT ![id] = {[t |-> RecordOf(id).t, names |-> RecordOf(id).names]}]
  /\ UNCHANGED <<file, mem, broken, up, pins, trees, job, by, blind>>

-----------------------------------------------------------------------------
(* Appends.  The outcome of one: appended, rejected (truncated away), or   *)
(* left in the file with the log broken.                                   *)

PinnedVictims ==
  SelectSeq(Victims(Placed(mem, job.line), job.line.id), Pinned)

\* make_room moves the first pinned victim, each at most once.
RoomOwed == PinnedVictims # <<>> /\ PinnedVictims[1].id \notin job.moved

\* A failed append of a call: a `running` line breaks the log only when it
\* could not be truncated, an outcome always, and a start is given up.
Failed(kind, left) ==
  /\ broken' = (kind = "finish" \/ left)
  /\ up' = (kind # "resolve")
  /\ job' = NoJob

AppendFails ==
  /\ up /\ job.at = "append"
  /\ LET line == IF RoomOwed THEN PinnedVictims[1] ELSE job.line
     IN \E left \in BOOLEAN :
          /\ file' = IF left THEN Append(file, line) ELSE file
          /\ Failed(job.kind, left)
  /\ UNCHANGED <<mem, pins, trees, answers>>

\* mutant: the record moves in memory, not in the file.
RotateMemoryOnly ==
  /\ up /\ job.at = "append" /\ RoomOwed
  /\ LET r == PinnedVictims[1]
     IN /\ Holds(Apply(mem, r))
        /\ job' = [job EXCEPT !.moved = @ \cup {r.id}]
  /\ UNCHANGED <<file, broken, up, pins, trees>>

\* make_room: the victim's line again, byte for byte.
Rotate ==
  /\ up /\ job.at = "append" /\ RoomOwed
  /\ LET r == PinnedVictims[1]
     IN /\ file' = Append(file, r)
        /\ Holds(Apply(mem, r))
        /\ job' = [job EXCEPT !.moved = @ \cup {r.id}]
  /\ UNCHANGED <<broken, up, pins, trees>>

\* Room is made: the line itself may be written.
RoomMade == ~RoomOwed

BeginWritten ==
  /\ up /\ job.at = "append" /\ job.kind = "begin" /\ RoomMade
  /\ file' = Append(file, job.line)
  /\ Holds(Apply(mem, job.line))
  /\ job' = [at |-> "run", line |-> job.line]
  /\ UNCHANGED <<broken, up, pins, trees>>

\* maybe_compact: the live lines become the file; a compaction whose
\* directory sync fails leaves either file and a broken log.
Compacted(lines, table) ==
  LET due == /\ LiveBytes(lines) > 2 * LiveBytes(table)
             /\ \A i \in DOMAIN table : ~Running(table[i])
  IN \/ file' = lines /\ UNCHANGED broken
     \/ due /\ file' = table /\ UNCHANGED broken
     \/ due /\ file' \in {lines, table} /\ broken' = TRUE

FinishWritten ==
  /\ up /\ job.at = "append" /\ job.kind = "finish" /\ RoomMade
  /\ LET line == job.line
         table == Apply(mem, line)
     IN /\ Compacted(Append(file, line), table)
        /\ mem' = table
        /\ told' = [id \in ReqIds |->
             IF id = line.id /\ line.t \in {"done", "failed"}
             THEN {[t |-> line.t, names |-> line.names]}
             ELSE IF id \in Ids(table) THEN told[id] ELSE {}]
        /\ by' = [i \in 1..MaxInstances |-> IF by[i] \in Ids(table) THEN by[i] ELSE NoReq]
        /\ UNCHANGED blind
  /\ job' = NoJob
  /\ UNCHANGED <<up, pins, trees>>

-----------------------------------------------------------------------------
(* The request runs: new_attempts, or finalize_target.                     *)

Finish(t, names) ==
  job' = Appending("finish", [job.line EXCEPT !.t = t, !.names = names])

\* mutant: the draw checks only the names under attempts/.
DrawableUnreserved == AttemptIds \ {a.id : a \in alive}

\* tempdir_in avoids the names in attempts/; reserved and held IDs are
\* drawn again.
Drawable == AttemptIds \ ({a.id : a \in alive \cup kept} \cup Reserved)

Created(id) == [id |-> id, inst |-> drawn + 1]

\* The batch failed before an attempt was made, or was destroyed again.
RunFails ==
  /\ up /\ job.at = "run" /\ job.line.subj = New
  /\ Finish("retryable", {})
  /\ UNCHANGED <<file, mem, broken, up, pins, trees, answers>>

\* The batch is ready, or failed and could not be destroyed.
RunCreates(id, t) ==
  /\ up /\ job.at = "run" /\ job.line.subj = New
  /\ t \in {"done", "failed"}
  /\ drawn < MaxInstances /\ id \in Drawable
  /\ LET target == Created(id)
     IN /\ drawn' = target.inst
        /\ alive' = alive \cup {target} /\ pins' = pins \cup {target}
        /\ by' = [by EXCEPT ![target.inst] = job.line.id]
        /\ Finish(t, {target})
  /\ UNCHANGED <<file, mem, broken, up, kept, told, blind>>

\* finalize_target succeeds; an attempt created with `retain` moves to
\* retained/, also when its directory sync failed and the call with it.
RunFinalizes(done, retain) ==
  /\ up /\ job.at = "run" /\ job.line.subj # New
  /\ LET target == job.line.subj
     IN /\ done => target \in alive \cup kept
        /\ IF retain /\ target \in alive
           THEN alive' = alive \ {target} /\ kept' = kept \cup {target}
           ELSE UNCHANGED <<alive, kept>>
        /\ IF done THEN Finish("done", {target}) ELSE Finish("retryable", {})
  /\ UNCHANGED <<file, mem, broken, up, pins, drawn, answers>>

-----------------------------------------------------------------------------
(* Operations without a request ID.                                        *)

NewPlain(id) ==
  /\ Idle /\ drawn < MaxInstances /\ id \in Drawable
  /\ drawn' = drawn + 1
  /\ alive' = alive \cup {Created(id)} /\ pins' = pins \cup {Created(id)}
  /\ blind' = IF broken THEN blind \cup {drawn + 1} ELSE blind
  /\ UNCHANGED <<file, mem, broken, up, kept, job, told, by>>

FinalizePlain(target) ==
  /\ Idle /\ target \in alive
  /\ alive' = alive \ {target} /\ kept' = kept \cup {target}
  /\ UNCHANGED <<file, mem, broken, up, pins, drawn, job, answers>>

Destroy(target) ==
  /\ Idle /\ target \in alive
  /\ alive' = alive \ {target} /\ pins' = pins \ {target}
  /\ UNCHANGED <<file, mem, broken, up, kept, drawn, job, answers>>

-----------------------------------------------------------------------------
(* A crash, with the line in flight in the file or not, and the restart.   *)

Crash ==
  /\ up
  /\ up' = FALSE /\ broken' = FALSE /\ job' = NoJob
  /\ \/ UNCHANGED file
     \/ /\ job.at = "append"
        /\ file' = Append(file, IF RoomOwed THEN PinnedVictims[1] ELSE job.line)
  /\ UNCHANGED <<mem, pins, trees, answers>>

Interrupted(r) == [r EXCEPT !.t = "failed", !.names = {}]

\* Supervisor::open: replay, reconcile (every attempt is discarded),
\* set_pins (the retained ones).
Restart ==
  /\ ~up
  /\ up' = TRUE /\ broken' = FALSE
  /\ alive' = {} /\ pins' = kept
  /\ Holds(Replayed(file))
  /\ job' = [at |-> "resolve"]
  /\ UNCHANGED <<file, kept, drawn>>

\* resolve_interrupted: every record a crash cut off, oldest first.
Resolve ==
  LET open == SelectSeq(mem, Running)
  IN job' = IF open = <<>> THEN NoJob
            ELSE Appending("resolve", Interrupted(open[1]))

StartResolving ==
  /\ up /\ job.at = "resolve"
  /\ Resolve
  /\ UNCHANGED <<file, mem, broken, up, pins, trees, answers>>

ResolutionWritten ==
  /\ up /\ job.at = "append" /\ job.kind = "resolve" /\ RoomMade
  /\ file' = Append(file, job.line)
  /\ Holds(Apply(mem, job.line))
  /\ job' = [at |-> "resolve"]
  /\ UNCHANGED <<broken, up, pins, trees>>

-----------------------------------------------------------------------------
Next ==
  \/ \E id \in ReqIds :
       NewRequest(id) \/ Stored(id) \/ (\E a \in alive \cup kept : FinalizeRequest(id, a))
  \/ BeginWritten \/ FinishWritten \/ Rotate \/ AppendFails
  \/ RunFails \/ (\E id \in AttemptIds, t \in {"done", "failed"} : RunCreates(id, t))
  \/ \E done, retain \in BOOLEAN : RunFinalizes(done, retain)
  \/ (\E id \in AttemptIds : NewPlain(id)) \/ (\E a \in alive : Destroy(a) \/ FinalizePlain(a))
  \/ Crash \/ Restart \/ StartResolving \/ ResolutionWritten

ReqSpec == Init /\ [][Next]_reqVars

-----------------------------------------------------------------------------
(* Replay knows no pins, yet the file always leads to the table in memory: *)
(* a restart evicts exactly what the run evicted (requests.rs, apply); and *)
(* between requests that table is within both caps, pinned records         *)
(* included: what admit lets in can always be settled.                     *)
ReplayMatches ==
  up /\ ~broken => Replayed(file) = mem /\ (Idle => WithinCaps(mem))

(* A finalize record whose attempt still exists, running or retained, is   *)
(* never evicted, not by later requests at the caps, not by a restart, and *)
(* not by a line a failed append left behind: its retry stays bound to the *)
(* same attempt.                                                           *)
FinalizeRecordKept ==
  [][\A i \in DOMAIN mem :
       mem[i].subj \in (alive' \cup kept') \ {New} =>
         \E j \in DOMAIN mem' : mem'[j].id = mem[i].id /\ mem'[j].subj = mem[i].subj]_reqVars

(* Once a client was told a definite answer, the record that answers its   *)
(* retries says the same until it is evicted: across crashes between the   *)
(* outcome line and the answer, broken logs and restarts.  And between     *)
(* requests, an attempt made for a request whose record lives is named by  *)
(* that record: a request never runs twice behind its record, and no       *)
(* attempt is left that its client cannot learn of.                        *)
ToldIsStored ==
  /\ \A id \in ReqIds : \A a \in told[id] :
       up => id \in Ids(mem) /\ RecordOf(id).t = a.t /\ RecordOf(id).names = a.names
  /\ Idle /\ ~broken =>
       \A a \in alive : by[a.inst] # NoReq =>
         LET r == RecordOf(by[a.inst]) IN r.t \in {"done", "failed"} /\ a \in r.names

(* "A replay never names another request's attempt": an attempt ID in a    *)
(* stored answer never leads to a different attempt than the one the       *)
(* answer was about, while the record lives.  Attempts made without a      *)
(* request ID while the log is broken are left out: new_attempts asks only *)
(* the table in memory, which does not have the line in doubt.             *)
NamesUnambiguous ==
  \A i \in DOMAIN mem : \A n \in mem[i].names, a \in alive \cup kept :
    up /\ a.id = n.id => a = n \/ a.inst \in blind

=============================================================================
