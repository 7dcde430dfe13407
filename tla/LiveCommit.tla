----------------------------- MODULE LiveCommit -----------------------------
(***************************************************************************)
(* The live commits of a mounted write overlay (write_overlay.rs,          *)
(* enqueue_commit): the interval thread commits idle files and hands the   *)
(* mount a reopened base; the on-exit commit waits for it, with timeouts,  *)
(* and commits the rest.  The archive is a local file or a remote object   *)
(* behind a spool: HEAD, GET, splice, PUT, reopen, forget.  S3 and Azure   *)
(* make the PUT conditional on the ETag of the spool ("match"), gs:// puts *)
(* without a precondition ("blind"), and a server whose HEAD has no ETag   *)
(* leaves nothing to compare or to send ("untagged").                      *)
(*                                                                         *)
(* A file's content is the number of its last write (0: none), a deletion  *)
(* being a write of a tombstone.  An archive body is the version it gives  *)
(* each file, the number of commits by other programs (under Other) and    *)
(* the number of members appended though their version was there already.  *)
(* A body is its own ETag.                                                 *)
(***************************************************************************)
EXTENDS Naturals, FiniteSetsExt

CONSTANTS
  Files, Other,      \* the overlay's files; what other programs append
  None,              \* no spool, no base
  Remotes, Joins,    \* the kinds of mount looked at: values of remote, joinsFirst,
  Stores,            \* and of store for a remote archive
  RewriteStashed,    \* files may change while their splice waits in the spool
  MaxWrites,         \* bound: writes to the mount
  MaxForeign         \* bound: commits by other programs

Body == [data : [Files \cup {Other} -> Nat], again : Nat]
Downloads == [state : {"downloaded"}, etag : Body, body : Body]
Splices == [state : {"spliced"}, etag : Body, body : Body, plan : SUBSET Files]

ASSUME LiveAssumption ==
  /\ IsFiniteSet(Files) /\ Other \notin Files
  /\ None \notin Body \cup Downloads \cup Splices
  /\ Remotes \subseteq BOOLEAN /\ Joins \subseteq BOOLEAN /\ RewriteStashed \in BOOLEAN
  /\ Stores \subseteq {"match", "blind", "untagged"}
  /\ MaxWrites \in Nat /\ MaxForeign \in Nat

Threads == {"interval", "exit"}

VARIABLES
  remote,            \* remote_enabled()
  store,             \* how the object store answers a PUT (local: "file")
  joinsFirst,        \* the interval thread is joined before the exit commit
  overlay, hot,      \* the overlay's version of a file; files not idle yet
  latest,            \* the last write to each file
  object,            \* the archive or remote object
  served,            \* the base the mount reads (None: FailedCommitSource)
  spool,             \* the splice and its plan (of a local commit too)
  inflight, suppressed, disabled,
  gate,              \* the thread that holds commit_gate for writing
  pc,
  head, skip,        \* remote_head's answer; skip_object_put
  stage,             \* which wait of enqueue_on_exit
  waitLock, asleep,  \* commit_wait, and a thread waiting on commit_cv
  term,              \* the signal: no new tick, the mount goes away
  answer             \* what the exit commit returned

mount == <<remote, store, joinsFirst, term>>
files == <<overlay, hot, latest>>
flags == <<inflight, suppressed, disabled, gate>>
request == <<head, skip>>
waiting == <<stage, waitLock, asleep>>
liveVars == <<mount, files, object, served, spool, flags, pc, request, waiting, answer>>

Empty == [data |-> [f \in Files \cup {Other} |-> 0], again |-> 0]
Spliced == spool # None /\ spool.state = "spliced"

CommitSteps == {"lock", "head", "compare", "get", "splice", "put", "reopen", "forget",
                "plan", "persist", "drop"}
Steps == {"off", "begin", "check", "first", "extra", "forever", "retry", "again",
          "load", "enter", "sleep", "recheck", "last", "notify", "done"} \cup CommitSteps

LiveTypeOK ==
  /\ overlay \in [Files -> 0..MaxWrites] /\ latest \in [Files -> 0..MaxWrites]
  /\ hot \subseteq Files
  /\ object \in Body /\ (served # None => served \in Body)
  /\ spool # None => spool \in Downloads \cup Splices
  /\ {inflight, suppressed, disabled, term, asleep} \subseteq BOOLEAN
  /\ gate \in Threads \cup {"none"} /\ store \in Stores \cup {"file"}
  /\ pc \in [Threads -> Steps] /\ pc["interval"] # "done"
  /\ waitLock \in BOOLEAN
  /\ answer \in {"none", "ok", "nothing", "error"}
  \* Only the holder of the flag commits.
  /\ Cardinality({t \in Threads : pc[t] \in CommitSteps}) <= (IF inflight THEN 1 ELSE 0)

Init ==
  /\ remote \in Remotes /\ joinsFirst \in Joins
  /\ store \in IF remote THEN Stores ELSE {"file"}
  /\ overlay = [f \in Files |-> 0] /\ latest = overlay /\ hot = {}
  /\ object = Empty /\ served = Empty /\ spool = None
  /\ inflight = FALSE /\ suppressed = FALSE /\ disabled = FALSE /\ gate = "none"
  /\ pc = [t \in Threads |-> "off"]
  /\ head = Empty /\ skip = FALSE
  /\ stage = "first" /\ waitLock = FALSE /\ asleep = FALSE
  /\ term = FALSE /\ answer = "none"

Goto(t, step) == pc' = [pc EXCEPT ![t] = step]

-----------------------------------------------------------------------------
(* The mount and the other programs.                                       *)

Stashed == IF remote /\ Spliced THEN spool.plan ELSE {}

\* A create, open, rename or unlink holds commit_gate for reading; a write to
\* a descriptor that is open, which keeps the file hot, holds nothing.
Write(f) ==
  /\ gate = "none" \/ f \in hot
  /\ pc["exit"] = "off"
  /\ RewriteStashed \/ f \notin Stashed
  /\ LET v == Max({latest[g] : g \in Files}) + 1 IN
       /\ v <= MaxWrites
       /\ overlay' = [overlay EXCEPT ![f] = v] /\ latest' = [latest EXCEPT ![f] = v]
  /\ hot' = hot \cup {f}
  /\ UNCHANGED <<object, served, spool, flags, pc, request, waiting, mount, answer>>

\* The file's descriptors are closed and its mtime is older than idle_for.
Settle(f) ==
  /\ f \in hot /\ hot' = hot \ {f}
  /\ UNCHANGED <<overlay, latest, object, served, spool, flags, pc, request, waiting,
                 mount, answer>>

\* Another program commits to the object, conditionally as this one does.
Foreign ==
  /\ remote /\ object.data[Other] < MaxForeign
  /\ object' = [object EXCEPT !.data[Other] = @ + 1]
  /\ UNCHANGED <<files, served, spool, flags, pc, request, waiting, mount, answer>>

Term ==
  /\ ~term /\ term' = TRUE
  /\ UNCHANGED <<remote, store, joinsFirst, files, object, served, spool, flags, pc,
                 request, waiting, answer>>

-----------------------------------------------------------------------------
(* The interval thread: enqueue_interval_idle.                             *)

TickStart ==
  /\ pc["interval"] = "off" /\ ~term /\ ~disabled /\ ~suppressed
  /\ Goto("interval", "begin")
  /\ UNCHANGED <<files, object, served, spool, flags, request, waiting, mount, answer>>

\* InFlightGuard::try_begin, or the tick is coalesced.
TickBegin ==
  /\ pc["interval"] = "begin"
  /\ inflight' = TRUE /\ Goto("interval", IF inflight THEN "off" ELSE "check")
  /\ UNCHANGED <<files, object, served, spool, suppressed, disabled, gate, request,
                 waiting, mount, answer>>

TickCheck ==
  /\ pc["interval"] = "check"
  /\ Goto("interval", IF suppressed THEN "drop" ELSE IF remote THEN "lock" ELSE "plan")
  /\ UNCHANGED <<files, object, served, spool, flags, request, waiting, mount, answer>>

-----------------------------------------------------------------------------
(* The exit commit up to the flag: enqueue_on_exit.                        *)

\* finish_overlay_serve; the mount is gone.
ExitStart ==
  /\ pc["exit"] = "off" /\ term
  /\ joinsFirst => pc["interval"] = "off"
  /\ IF disabled
     THEN Goto("exit", "done") /\ answer' = "error" /\ UNCHANGED <<suppressed, stage>>
     ELSE /\ Goto("exit", "first") /\ stage' = "first"
          /\ suppressed' = (suppressed \/ remote) /\ UNCHANGED answer
  /\ UNCHANGED <<files, object, served, spool, inflight, disabled, gate, request,
                 waitLock, asleep, mount>>

\* wait_inflight_cleared(stage): commit_wait is taken,
WaitLock ==
  /\ pc["exit"] \in {"first", "extra", "forever", "retry", "again"}
  /\ ~waitLock /\ waitLock' = TRUE
  /\ stage' = pc["exit"] /\ Goto("exit", "load")
  /\ UNCHANGED <<files, object, served, spool, flags, request, asleep, mount, answer>>

Cleared == CASE stage = "again" -> "begin"
             [] stage = "retry" -> "last"
             [] OTHER -> "recheck"

\* the flag is read,
WaitLoad ==
  /\ pc["exit"] = "load"
  /\ IF inflight THEN Goto("exit", "enter") /\ UNCHANGED waitLock
                 ELSE Goto("exit", Cleared) /\ waitLock' = FALSE
  /\ UNCHANGED <<files, object, served, spool, flags, request, stage, asleep, mount, answer>>

\* and waiting on the condition variable releases the mutex.
WaitEnter ==
  /\ pc["exit"] = "enter" /\ Goto("exit", "sleep")
  /\ asleep' = TRUE /\ waitLock' = FALSE
  /\ UNCHANGED <<files, object, served, spool, flags, request, stage, mount, answer>>

Woken ==
  /\ pc["exit"] = "sleep" /\ ~asleep /\ Goto("exit", stage)
  /\ UNCHANGED <<files, object, served, spool, flags, request, waiting, mount, answer>>

\* mutant: the remote exit commit waits for the tick without a limit.
AfterTimeoutForever == "forever"

AfterTimeout == IF stage = "first" THEN IF remote THEN "extra" ELSE "forever" ELSE "done"

\* A timed wait ends: with the flag still set, or cleared in the meantime.
WaitTimesOut ==
  /\ pc["exit"] = "sleep" /\ stage \in {"first", "extra", "retry"}
  /\ ~waitLock /\ asleep' = FALSE
  /\ Goto("exit", IF inflight THEN AfterTimeout ELSE Cleared)
  /\ answer' = IF inflight /\ AfterTimeout = "done" THEN "error" ELSE answer
  /\ UNCHANGED <<files, object, served, spool, flags, request, stage, waitLock, mount>>

ExitRecheck ==
  /\ pc["exit"] = "recheck"
  /\ IF disabled THEN Goto("exit", "done") /\ answer' = "error"
                 ELSE Goto("exit", "begin") /\ UNCHANGED answer
  /\ UNCHANGED <<files, object, served, spool, flags, request, waiting, mount>>

ExitBegin ==
  /\ pc["exit"] \in {"begin", "last"}
  /\ inflight' = TRUE
  /\ IF ~inflight THEN Goto("exit", "lock") /\ UNCHANGED answer
     ELSE IF pc["exit"] = "last" THEN Goto("exit", "done") /\ answer' = "error"
     ELSE Goto("exit", IF remote THEN "retry" ELSE "again") /\ UNCHANGED answer
  /\ UNCHANGED <<files, object, served, spool, suppressed, disabled, gate, request,
                 waiting, mount>>

-----------------------------------------------------------------------------
(* Both: the commit under commit_gate, and InFlightGuard::drop.            *)

\* The commit returns: the gate is free, the flag is dropped next.
Return(t, what) ==
  /\ Goto(t, "drop") /\ gate' = (IF gate = t THEN "none" ELSE gate)
  /\ answer' = IF t = "exit" THEN what ELSE answer

DropFlag(t) ==
  /\ pc[t] = "drop" /\ inflight' = FALSE /\ Goto(t, "notify")
  /\ UNCHANGED <<files, object, served, spool, suppressed, disabled, gate, request,
                 waiting, mount, answer>>

Notify(t) ==
  /\ pc[t] = "notify" /\ ~waitLock /\ asleep' = FALSE
  /\ Goto(t, IF t = "exit" THEN "done" ELSE "off")
  /\ UNCHANGED <<files, object, served, spool, flags, request, stage, waitLock, mount, answer>>

\* mutant: the exit commit leaves the files that are not idle.
PlanIdleOnly(t) == {f \in Files : overlay[f] # 0} \ hot

\* plan_for_commit
PlanOf(t) == {f \in Files : overlay[f] # 0} \ (IF t = "interval" THEN hot ELSE {})

\* The body with the overlay's version of each file of the plan appended.
With(body, plan) ==
  [data |-> [f \in Files \cup {Other} |-> IF f \in plan THEN overlay[f] ELSE body.data[f]],
   again |-> body.again + Cardinality({f \in plan : body.data[f] = overlay[f]})]

\* commit_live_idle: the plan is looked at under the shared lock first.
PlanIdle ==
  /\ pc["interval"] = "plan" /\ gate = "none"
  /\ Goto("interval", IF disabled \/ PlanOf("interval") = {} THEN "drop" ELSE "lock")
  /\ UNCHANGED <<files, object, served, spool, flags, request, waiting, mount, answer>>

Lock(t) ==
  /\ pc[t] = "lock" /\ gate = "none"
  /\ IF disabled THEN Return(t, "error")
     ELSE gate' = t /\ Goto(t, IF remote THEN "head" ELSE "persist") /\ UNCHANGED answer
  /\ UNCHANGED <<files, object, served, spool, inflight, suppressed, disabled, request,
                 waiting, mount>>

\* commit_live_inner and commit_atomic up to the reopen.  What recovery and
\* CommitJournal's replacement may return is an outcome here: nothing was
\* written; the base is refused, with the plan appended or rolled back; done.
Persist(t) ==
  /\ pc[t] = "persist"
  /\ LET plan == PlanOf(t) IN
     \/ Return(t, "error") /\ UNCHANGED <<object, served, spool, disabled>>
     \/ /\ object' \in {object, With(object, plan)} /\ Return(t, "error")
        /\ disabled' = TRUE /\ served' = None /\ UNCHANGED spool
     \/ plan = {} /\ Return(t, "nothing") /\ UNCHANGED <<object, served, spool, disabled>>
     \/ /\ plan # {} /\ object' = With(object, plan) /\ UNCHANGED <<served, disabled>>
        /\ IF t = "exit" THEN Return(t, "ok") /\ UNCHANGED spool
           ELSE /\ Goto(t, "reopen") /\ UNCHANGED <<gate, answer>>
                /\ spool' = [state |-> "spliced", etag |-> object, body |-> object',
                             plan |-> plan]
  /\ UNCHANGED <<files, inflight, suppressed, request, waiting, mount>>

-----------------------------------------------------------------------------
(* The remote commit: prepare_remote_spool, publish_prepared.              *)

\* A call fails, or the splice before it wrote; the spool is kept.
RemoteFails(t) ==
  /\ pc[t] \in {"head", "compare", "get", "splice", "put"} /\ Return(t, "error")
  /\ UNCHANGED <<files, object, served, spool, inflight, suppressed, disabled, request,
                 waiting, mount>>

\* The splice lands in the spool and does not finish, or its journal stays:
\* refuse_base_after_commit_failure.  No commit gets past Lock after that, so
\* what is left in the spool is not read again.
SpliceFails(t) ==
  /\ pc[t] = "splice" /\ PlanOf(t) # {} /\ Return(t, "error")
  /\ disabled' = TRUE /\ served' = None
  /\ UNCHANGED <<files, object, spool, inflight, suppressed, request, waiting, mount>>

\* spool_etag_matches: two missing ETags are the same.
SameEtag == spool # None /\ (store = "untagged" \/ spool.etag = object)

Head(t) ==
  /\ pc[t] = "head" /\ head' = object /\ skip' = FALSE
  /\ LET same == SameEtag IN
     Goto(t, IF Spliced THEN IF same THEN "put" ELSE "compare"
             ELSE IF same THEN "splice" ELSE "get")
  /\ UNCHANGED <<files, object, served, spool, flags, waiting, mount, answer>>

Download == [state |-> "downloaded", etag |-> head, body |-> object]

\* HEAD's ETag with the GET's body, which another program may have changed.
Get(t) ==
  /\ pc[t] = "get" /\ spool' = Download /\ Goto(t, "splice")
  /\ UNCHANGED <<files, object, served, flags, request, waiting, mount, answer>>

\* The ETag moved under a spliced spool: our own PUT, or another program's.
Compare(t) ==
  /\ pc[t] = "compare"
  /\ IF object = spool.body THEN skip' = TRUE /\ Goto(t, "put") /\ UNCHANGED spool
     ELSE spool' = Download /\ Goto(t, "splice") /\ UNCHANGED skip
  /\ UNCHANGED <<files, object, served, flags, head, waiting, mount, answer>>

Splice(t) ==
  /\ pc[t] = "splice"
  /\ LET plan == PlanOf(t) IN
     IF plan = {} THEN Return(t, "nothing") /\ UNCHANGED spool
     ELSE /\ spool' = [state |-> "spliced", etag |-> spool.etag,
                       body |-> With(spool.body, plan), plan |-> plan]
          /\ Goto(t, "put") /\ UNCHANGED <<gate, answer>>
  /\ UNCHANGED <<files, object, served, inflight, suppressed, disabled, request, waiting, mount>>

Published(t) == IF t = "interval" THEN "reopen" ELSE "forget"

\* mutant: the PUT is unconditional.
PutAlways(t) ==
  /\ pc[t] = "put" /\ object' = spool.body
  /\ Goto(t, Published(t)) /\ UNCHANGED <<gate, answer, spool>>
  /\ UNCHANGED <<files, served, inflight, suppressed, disabled, request, waiting, mount>>

\* Only "match" sends a precondition.
Accepted == store = "match" => spool.etag = object

\* The PUT: stored and answered, stored with the answer lost, or 412, which
\* drops the spool.  (A PUT not stored is RemoteFails.)
Put(t) ==
  /\ pc[t] = "put"
  /\ \/ skip /\ UNCHANGED <<object, spool, gate, answer>> /\ Goto(t, Published(t))
     \/ /\ ~skip /\ Accepted /\ object' = spool.body /\ UNCHANGED spool
        /\ \/ Goto(t, Published(t)) /\ UNCHANGED <<gate, answer>>
           \/ Return(t, "error")
     \/ ~skip /\ ~Accepted /\ spool' = None /\ UNCHANGED object /\ Return(t, "error")
  /\ UNCHANGED <<files, served, inflight, suppressed, disabled, request, waiting, mount>>

\* mutant: a failed reopen does not stop the ticks.
ReopenKeepsOn ==
  /\ pc["interval"] = "reopen"
  /\ \/ /\ served' = object /\ Goto("interval", "forget") /\ UNCHANGED <<gate, answer>>
     \/ UNCHANGED served /\ Return("interval", "error")
  /\ UNCHANGED <<files, object, spool, inflight, suppressed, disabled, request, waiting, mount>>

\* mutant: the reopened base is not handed to the mount.
ReopenUnused ==
  /\ pc["interval"] = "reopen" /\ Goto("interval", "forget")
  /\ UNCHANGED <<files, object, served, spool, flags, request, waiting, mount, answer>>

\* The interval's reopen: the mount reads the new body, or stops committing.
Reopen ==
  /\ pc["interval"] = "reopen"
  /\ \/ /\ served' = object /\ UNCHANGED disabled
        /\ Goto("interval", "forget") /\ UNCHANGED <<gate, answer>>
     \/ /\ disabled' = TRUE /\ served' \in {served} \cup (IF remote THEN {} ELSE {None})
        /\ Return("interval", "error")
  /\ UNCHANGED <<files, object, spool, inflight, suppressed, request, waiting, mount>>

\* mutant: everything in the overlay is forgotten, as the full commit does.
ForgottenAll == Files

\* forget_committed_overlay: the stashed plan only.
Forgotten == spool.plan

Forget(t) ==
  /\ pc[t] = "forget"
  /\ \/ /\ overlay' = [f \in Files |-> IF f \in Forgotten THEN 0 ELSE overlay[f]]
        /\ spool' = None /\ UNCHANGED disabled /\ Return(t, "ok")
     \/ /\ \E some \in SUBSET Forgotten :
             overlay' = [f \in Files |-> IF f \in some THEN 0 ELSE overlay[f]]
        /\ disabled' = (disabled \/ t = "interval")
        /\ spool' = IF remote THEN spool ELSE None
        /\ Return(t, "error")
  /\ UNCHANGED <<hot, latest, object, served, inflight, suppressed, request, waiting, mount>>

-----------------------------------------------------------------------------
Commit(t) ==
  \/ Lock(t) \/ Persist(t) \/ RemoteFails(t) \/ Head(t) \/ Get(t) \/ Compare(t)
  \/ Splice(t) \/ SpliceFails(t) \/ Put(t) \/ Forget(t) \/ DropFlag(t) \/ Notify(t)

Tick == TickStart \/ TickBegin \/ TickCheck \/ PlanIdle \/ Reopen \/ Commit("interval")
Exit == ExitStart \/ WaitLock \/ WaitLoad \/ WaitEnter \/ Woken \/ WaitTimesOut
          \/ ExitRecheck \/ ExitBegin \/ Commit("exit")

Stopped == pc["exit"] = "done" /\ UNCHANGED liveVars

Next ==
  \/ \E f \in Files : Write(f) \/ Settle(f)
  \/ Foreign \/ Term \/ Tick \/ Exit \/ Stopped

LiveSpec == Init /\ [][Next]_liveVars

\* The exit thread runs; a local tick ends, a remote one may hang in I/O.
FairExit ==
  LiveSpec /\ WF_liveVars(Exit) /\ WF_liveVars(~remote /\ Tick)

-----------------------------------------------------------------------------
(* No write is lost: the last one to each file is in the overlay or in the *)
(* archive, whatever fails, is retried or runs into the exit commit.       *)
NothingLost ==
  \A f \in Files : latest[f] \in {overlay[f], object.data[f]}

(* A reader of the mount always gets the last write: a file leaves the     *)
(* overlay only once the base the mount reads holds it.                    *)
ReadersCurrent ==
  pc["exit"] = "off" /\ served # None =>
    \A f \in Files : overlay[f] = 0 => served.data[f] = latest[f]

(* Where the PUT is conditional, another program's commit to the object is *)
(* never overwritten: neither by a PUT, nor by a spool whose ETag is newer *)
(* than its body.  Without a precondition (gs://) the commit of another    *)
(* program is overwritten if it comes between this commit's HEAD and its   *)
(* PUT; what the HEAD saw is kept.  Without ETags nothing is promised.     *)
ForeignKept ==
  [][/\ store = "match" => object'.data[Other] >= object.data[Other]
     /\ store # "untagged" => object'.data[Other] >= head.data[Other]]_liveVars

(* A version is appended to the archive once: a coalesced tick, a retried  *)
(* PUT and the exit commit never write the same member again, if the       *)
(* interval thread is joined as main does, or the remote flag stops it,    *)
(* and no other program's commit hides that our own PUT was stored.        *)
AppendOnce ==
  (remote \/ joinsFirst) /\ object.data[Other] = 0 => object.again = 0

(* An exit commit of a local archive that reports success leaves nothing   *)
(* behind: the archive has the last write to every file.  (A remote one    *)
(* that finds a spool spliced earlier publishes only that plan.)           *)
ExitCommitsAll ==
  ~remote /\ answer \in {"ok", "nothing"} =>
    \A f \in Files : latest[f] # 0 => object.data[f] = latest[f]

(* The exit commit answers.  For a remote archive it does so even if the   *)
(* tick it waits for never returns from the object store, unless the       *)
(* caller joins the interval thread first, which waits for that tick.      *)
ExitAnswers == term /\ ~(remote /\ joinsFirst) ~> pc["exit"] = "done"
=============================================================================
