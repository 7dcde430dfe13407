----------------------------- MODULE LiveProofs -----------------------------
(***************************************************************************)
(* Proofs about LiveCommit, for every set of files, any number of writes   *)
(* and of commits by other programs, and every kind of mount.              *)
(*                                                                         *)
(* CommitInv is the control: the in-flight flag and commit_gate admit one  *)
(* committing thread, and each step finds the spool it needs.  WriteInv    *)
(* adds where the last write of a file is: in the overlay or, once a plan  *)
(* left it, in the archive and in what the mount reads; a spool, stale as  *)
(* it may be, differs from the archive in no file but those of its plan.   *)
(* OnceInv adds what a retry may find: an object that holds a version of   *)
(* the overlay holds it through the spool at hand.  WriteInv and OnceInv   *)
(* assume that a file does not change while its splice waits in the spool; *)
(* the run with RewriteStashed shows what happens otherwise.               *)
(***************************************************************************)
EXTENDS LiveCommit, FiniteSetTheorems, WellFoundedInduction, TLAPS

IntervalSteps == {"off", "begin", "check", "notify"} \cup CommitSteps
ExitSteps == Steps \ {"check", "plan", "reopen"}
\* Steps with the in-flight flag; steps with commit_gate; remote calls.
FlagSteps == CommitSteps \cup {"check"}
GateSteps == {"head", "compare", "get", "splice", "put", "reopen", "forget", "persist"}
SkipSteps == {"compare", "get", "splice", "put"}
RemoteSteps == {"head", "compare", "get", "splice", "put"}

FileTypes ==
  /\ overlay \in [Files -> 0..MaxWrites] /\ latest \in [Files -> 0..MaxWrites]
  /\ hot \subseteq Files

BodyTypes ==
  /\ object \in Body /\ head \in Body
  /\ served = None \/ served \in Body
  /\ spool = None \/ spool \in Downloads \/ spool \in Splices

SwitchTypes ==
  /\ remote \in BOOLEAN /\ joinsFirst \in BOOLEAN
  /\ inflight \in BOOLEAN /\ suppressed \in BOOLEAN /\ disabled \in BOOLEAN
  /\ term \in BOOLEAN /\ asleep \in BOOLEAN /\ waitLock \in BOOLEAN /\ skip \in BOOLEAN

StepTypes ==
  /\ pc \in [Threads -> Steps]
  /\ pc["interval"] \in IntervalSteps /\ pc["exit"] \in ExitSteps
  /\ gate \in Threads \cup {"none"}
  /\ stage \in {"first", "extra", "forever", "retry", "again"}
  /\ answer \in {"none", "ok", "nothing", "error"}

\* One thread commits, with the flag and behind the gate.
FlagInv ==
  /\ \A t \in Threads : pc[t] \in FlagSteps => inflight
  /\ pc["interval"] \in FlagSteps => pc["exit"] \notin FlagSteps
  /\ \A t \in Threads : gate = t <=> pc[t] \in GateSteps

\* Which steps a local and a remote commit have.
KindInv ==
  /\ \A t \in Threads : pc[t] \in RemoteSteps => remote
  /\ \A t \in Threads : pc[t] = "persist" => ~remote
  /\ pc["exit"] = "forget" => remote

\* The spool a step relies on.
SpoolStepInv ==
  /\ \A t \in Threads : pc[t] = "splice" => spool \in Downloads
  /\ \A t \in Threads : pc[t] \in {"compare", "put", "reopen", "forget"} => spool \in Splices

Past(old, new) == old.data[Other] <= new.data[Other]

\* Only other programs change the object between a HEAD and a GET.
HeadInv ==
  /\ \A t \in Threads : pc[t] \in {"compare", "get"} => Past(head, object)
  /\ spool \in Downloads => Past(spool.etag, spool.body)
  /\ spool \in Splices => Past(spool.etag, spool.body)

\* With ETags, a splice starts from a body no older than the last HEAD, and
\* the object keeps what that HEAD saw.
TagInv ==
  store # "untagged" =>
    /\ Past(head, object)
    /\ \A t \in Threads : pc[t] \in {"splice", "put"} /\ ~skip => spool.etag = head

CommitInv == FileTypes /\ BodyTypes /\ SwitchTypes /\ StepTypes /\ FlagInv /\ KindInv
             /\ SpoolStepInv /\ HeadInv /\ TagInv

\* What the spool would put is the last write of every file it names.
PlanInv ==
  remote /\ spool \in Splices => \A f \in spool.plan : spool.body.data[f] = latest[f]

\* Only its own PUT sets the object apart from a spool, in the plan's files:
\* other programs leave the mount's members.
SpoolInv ==
  remote =>
    /\ spool \in Downloads => \A f \in Files : spool.body.data[f] = object.data[f]
    /\ spool \in Splices =>
         \A f \in Files \ spool.plan : spool.body.data[f] = object.data[f]

\* A plan on its way out of the overlay is in the archive, and in what the
\* mount reads once that is the archive; nobody writes to a file of a plan.
PublishInv ==
  /\ \A t \in Threads :
        /\ pc[t] \in SkipSteps \ {"put"} => ~skip
        /\ pc[t] = "put" /\ skip => \A f \in Files : spool.body.data[f] = object.data[f]
  /\ \A t \in Threads : pc[t] \in {"reopen", "forget"} =>
        /\ \A f \in spool.plan : object.data[f] = latest[f]
        /\ ~remote => spool.plan \cap hot = {}
  /\ pc["interval"] = "forget" /\ served # None =>
        \A f \in spool.plan : served.data[f] = latest[f]

\* The overlay holds the last write of a file, or the archive does.
KeptInv ==
  \A f \in Files :
    /\ overlay[f] # 0 => overlay[f] = latest[f]
    /\ overlay[f] = 0 => object.data[f] = latest[f]

AnswerInv ==
  /\ answer # "none" => pc["exit"] # "off"
  /\ ~remote /\ answer \in {"ok", "nothing"} =>
       \A f \in Files : object.data[f] = latest[f]

WriteInv == PlanInv /\ SpoolInv /\ PublishInv /\ KeptInv /\ ReadersCurrent /\ AnswerInv

\* No version is newer than the last write.
OldInv == \A f \in Files : object.data[f] <= latest[f]

\* A body that no other program had a part in.
Clean(b) == b.data[Other] = 0

\* What the overlay still has, body does not have.
Fresh(body, some) == \A f \in some : overlay[f] # 0 => overlay[f] # body.data[f]

\* A clean object or spool has no version twice, and a clean object holds a
\* version of the overlay only if it is the spool after its PUT.
StashInv ==
  remote =>
    /\ Clean(object) => object.again = 0
    /\ spool \in Downloads /\ Clean(spool.body) =>
         spool.body.again = 0 /\ Fresh(spool.body, Files)
    /\ spool \in Splices /\ Clean(spool.body) =>
         spool.body.again = 0 /\ Fresh(spool.body, Files \ spool.plan)
    /\ \A t \in Threads : pc[t] = "get" => spool \notin Splices
    /\ Clean(object) => \A f \in Files : overlay[f] # 0 /\ overlay[f] = object.data[f]
          => spool \in Splices /\ f \in spool.plan /\ object = spool.body

\* With nobody else at work, no PUT of a clean spool is refused.
MatchInv ==
  remote /\ store = "match" /\ Clean(object) =>
    /\ spool \in Downloads => spool.etag = object
    /\ \A t \in Threads :
         /\ pc[t] \in {"compare", "get"} => head = object
         /\ pc[t] = "put" /\ ~skip => object = spool.etag

\* With the interval thread joined first, the exit commit runs alone, and a
\* local archive holds a version of the overlay only after its commit.
JoinInv ==
  ~remote /\ joinsFirst =>
    /\ object.again = 0
    /\ pc["exit"] # "off" => term /\ pc["interval"] = "off"
    /\ disabled => \A t \in Threads : pc[t] \notin {"persist", "reopen", "forget"}
    /\ \A f \in Files : ~disabled /\ overlay[f] # 0 /\ overlay[f] = object.data[f] =>
         \/ pc["interval"] \in {"reopen", "forget"} /\ f \in spool.plan
         \/ pc["exit"] \in {"drop", "notify", "done"}

OnceInv == OldInv /\ StashInv /\ MatchInv /\ JoinInv

-----------------------------------------------------------------------------

\* A set of numbers has a least one.
LEMMA Least ==
  ASSUME NEW T, T \subseteq Nat, T # {}
  PROVE  \E x \in T : \A y \in T : x <= y
<1>1. PICK x \in T : \A y \in T : ~ (<<y, x>> \in OpToRel(<, Nat))
  BY NatLessThanWellFounded, WFMin
<1>2. \A y \in T : ~(y < x)
  BY <1>1 DEF OpToRel
<1>3. QED
  BY <1>2

\* Max of a bounded set of numbers is its largest element.
LEMMA MaxExists ==
  ASSUME NEW S, S \subseteq Nat, S # {}, NEW b \in Nat, \A x \in S : x <= b
  PROVE  Max(S) \in S /\ \A y \in S : y <= Max(S)
<1> DEFINE Upper == {m \in Nat : \A x \in S : x <= m}
<1>1. PICK m \in Upper : \A u \in Upper : m <= u
  <2>1. b \in Upper /\ Upper \subseteq Nat
    OBVIOUS
  <2>2. QED
    BY <2>1, Least
<1>2. m \in S
  <2>1. SUFFICES ASSUME m \notin S PROVE FALSE
    OBVIOUS
  <2>2. \A x \in S : x < m
    BY <2>1, <1>1
  <2>3. m # 0
    <3>1. PICK x : x \in S
      OBVIOUS
    <3>2. x \in Nat /\ x < m
      BY <3>1, <2>2
    <3>3. QED
      BY <3>2
  <2>4. m - 1 \in Upper
    BY <2>2, <2>3
  <2>5. QED
    BY <2>4, <1>1
<1>3. \E x \in S : \A y \in S : x >= y
  BY <1>1, <1>2
<1>4. QED
  BY <1>3 DEF Max

\* The number of a new write is larger than those of all earlier ones.
LEMMA NextVersion ==
  ASSUME FileTypes, NEW f \in Files
  PROVE  LET m == Max({latest[g] : g \in Files})
         IN  m \in Nat /\ \A g \in Files : latest[g] <= m
<1> DEFINE S == {latest[g] : g \in Files}
<1>1. S \subseteq Nat /\ S # {} /\ \A x \in S : x <= MaxWrites
  BY LiveAssumption DEF FileTypes
<1>2. Max(S) \in S /\ \A y \in S : y <= Max(S)
  BY <1>1, MaxExists, LiveAssumption
<1>3. QED
  BY <1>1, <1>2

\* What a body holds are numbers.
LEMMA BodyData ==
  ASSUME NEW b \in Body
  PROVE  /\ b.again \in Nat /\ b.data[Other] \in Nat
         /\ \A f \in Files : b.data[f] \in Nat
BY DEF Body

\* The kinds of spool exclude each other.
LEMMA DownloadKind ==
  ASSUME NEW s \in Downloads
  PROVE  s # None /\ s \notin Splices /\ s.state = "downloaded" /\ s.etag \in Body /\ s.body \in Body
BY LiveAssumption DEF Downloads, Splices

\* A splice is no download.
LEMMA SpliceKind ==
  ASSUME NEW s \in Splices
  PROVE  /\ s # None /\ s \notin Downloads /\ s.state = "spliced"
         /\ s.etag \in Body /\ s.body \in Body /\ s.plan \in SUBSET Files
BY LiveAssumption DEF Downloads, Splices

\* Spliced is about the spool's kind.
LEMMA SplicedKind ==
  ASSUME BodyTypes
  PROVE  /\ Spliced <=> spool \in Splices
         /\ spool # None /\ ~Spliced => spool \in Downloads
BY DownloadKind, SpliceKind DEF BodyTypes, Spliced

\* A spool put together from bodies is of its kind.
LEMMA NewDownload ==
  ASSUME NEW e \in Body, NEW b \in Body
  PROVE  LET s == [state |-> "downloaded", etag |-> e, body |-> b]
         IN  s \in Downloads /\ s.etag = e /\ s.body = b
BY DEF Downloads

\* The same for a splice.
LEMMA NewSplice ==
  ASSUME NEW e \in Body, NEW b \in Body, NEW plan \in SUBSET Files
  PROVE  LET s == [state |-> "spliced", etag |-> e, body |-> b, plan |-> plan]
         IN  s \in Splices /\ s.etag = e /\ s.body = b /\ s.plan = plan
BY DEF Splices

\* A plan names files of the overlay, an interval's plan idle ones.
LEMMA PlanFiles ==
  ASSUME NEW t \in Threads
  PROVE  /\ PlanOf(t) \in SUBSET Files
         /\ \A f \in PlanOf(t) : overlay[f] # 0
         /\ t = "interval" => PlanOf(t) \cap hot = {}
         /\ t = "exit" => \A f \in Files : overlay[f] # 0 => f \in PlanOf(t)
BY DEF PlanOf, Threads

\* What a commit writes: the overlay's version of the plan, the rest as it
\* was, and no member twice unless the body had it.
LEMMA WithBody ==
  ASSUME FileTypes, NEW b \in Body, NEW plan \in SUBSET Files
  PROVE  /\ With(b, plan) \in Body
         /\ \A f \in plan : With(b, plan).data[f] = overlay[f]
         /\ \A f \in Files \ plan : With(b, plan).data[f] = b.data[f]
         /\ With(b, plan).data[Other] = b.data[Other]
         /\ (\A f \in plan : b.data[f] # overlay[f]) => With(b, plan).again = b.again
<1> DEFINE old == {f \in plan : b.data[f] = overlay[f]}
           new == [f \in Files \cup {Other} |-> IF f \in plan THEN overlay[f] ELSE b.data[f]]
<1>1. Cardinality(old) \in Nat
  <2>1. IsFiniteSet(old)
    BY FS_Subset, LiveAssumption
  <2>2. QED
    BY <2>1, FS_CardinalityType
<1>2. new \in [Files \cup {Other} -> Nat]
  BY LiveAssumption DEF FileTypes, Body
<1>3. b.again + Cardinality(old) \in Nat
  BY <1>1 DEF Body
<1>4. With(b, plan).data = new /\ With(b, plan).again = b.again + Cardinality(old)
  BY DEF With
<1>5. With(b, plan) \in Body
  BY <1>2, <1>3 DEF With, Body
<1>6. /\ \A f \in plan : new[f] = overlay[f]
      /\ \A f \in Files \ plan : new[f] = b.data[f]
      /\ new[Other] = b.data[Other]
  BY LiveAssumption
<1>7. ASSUME \A f \in plan : b.data[f] # overlay[f] PROVE With(b, plan).again = b.again
  <2>1. old = {}
    BY <1>7
  <2>2. Cardinality(old) = 0
    BY <2>1, FS_EmptySet
  <2>3. QED
    BY <2>2, <1>4, BodyData
<1>8. QED
  BY <1>4, <1>5, <1>6, <1>7

\* Another program's commit leaves this program's members.
LEMMA ForeignBody ==
  ASSUME object \in Body, Foreign
  PROVE  /\ object' \in Body
         /\ \A f \in Files : object'.data[f] = object.data[f]
         /\ object'.data[Other] = object.data[Other] + 1
BY LiveAssumption DEF Foreign, Body

-----------------------------------------------------------------------------
(* What the steps of a commit do.                                          *)

\* While one thread commits behind the gate, the other does not.
OthersWait(t) ==
  \A u \in Threads \ {t} : pc'[u] = pc[u] /\ pc[u] \notin GateSteps

\* Persist: refused, with or without the plan appended, or done; only an
\* interval commit goes on to the reopen.
LEMMA PersistEffect ==
  ASSUME CommitInv, NEW t \in Threads, Persist(t)
  PROVE  /\ OthersWait(t) /\ ~remote
         /\ UNCHANGED <<overlay, latest, hot,
                        remote, store>> /\ served' \in {served, None}
         /\ object' = object \/ object' = With(object, PlanOf(t))
         /\ \/ /\ spool' = spool /\ pc'[t] = "drop"
               /\ object' = object \/ disabled' \/ t = "exit"
               /\ \/ answer' \in {answer, "error"}
                  \/ answer' = "nothing" /\ PlanOf(t) = {} /\ t = "exit"
                  \/ answer' = "ok" /\ object' = With(object, PlanOf(t)) /\ t = "exit"
            \/ /\ spool' \in Splices /\ spool'.etag = object /\ spool'.body = object'
               /\ spool'.plan = PlanOf(t) /\ object' = With(object, PlanOf(t))
               /\ pc'[t] = "reopen" /\ t = "interval"
               /\ UNCHANGED <<answer, disabled>>
<1>1. OthersWait(t) /\ ~remote
  BY DEF Persist, Return, Goto, OthersWait, CommitInv, StepTypes, FlagInv,
    KindInv, GateSteps
<1>2. /\ object' = object \/ object' = With(object, PlanOf(t))
      /\ UNCHANGED <<overlay, latest, hot, remote,
                     store>> /\ served' \in {served,
                     None}
  BY DEF Persist, files, mount
<1>3. \/ /\ spool' = spool /\ pc'[t] = "drop"
         /\ object' = object \/ disabled' \/ t = "exit"
         /\ \/ answer' \in {answer, "error"}
            \/ answer' = "nothing" /\ PlanOf(t) = {} /\ t = "exit"
            \/ answer' = "ok" /\ object' = With(object, PlanOf(t)) /\ t = "exit"
      \/ /\ spool' = [state |-> "spliced", etag |-> object, body |-> object', plan |-> PlanOf(t)]
         /\ object' = With(object, PlanOf(t))
         /\ pc'[t] = "reopen" /\ t = "interval"
         /\ UNCHANGED <<answer, disabled>>
  BY DEF Persist, Return, Goto, CommitInv, StepTypes, Threads
<1>4. With(object, PlanOf(t)) \in Body /\ object \in Body /\ PlanOf(t) \in SUBSET Files
  BY WithBody, PlanFiles DEF CommitInv, BodyTypes
<1>5. QED
  BY <1>1, <1>2, <1>3, <1>4, NewSplice

\* Head: the next step follows from the spool and from its ETag.
LEMMA HeadEffect ==
  ASSUME CommitInv, NEW t \in Threads, Head(t)
  PROVE  /\ OthersWait(t)
         /\ UNCHANGED <<overlay, latest, hot, remote, store, object, served,
                        spool,
                        answer>>
         /\ head' = object /\ skip' = FALSE
         /\ \/ pc'[t] = "put" /\ spool \in Splices /\ SameEtag
            \/ pc'[t] = "compare" /\ spool \in Splices
            \/ pc'[t] = "splice" /\ spool \in Downloads /\ SameEtag
            \/ pc'[t] = "get" /\ spool \notin Splices
<1>1. OthersWait(t)
  BY DEF Head, Goto, OthersWait, CommitInv, StepTypes, FlagInv, Threads,
    CommitSteps, FlagSteps, GateSteps
<1>2. /\ UNCHANGED <<overlay, latest, hot, remote, store, object, served,
                     spool,
                     answer>>
      /\ head' = object /\ skip' = FALSE
  BY DEF Head, files, mount
<1>3. CASE Spliced
  <2>1. pc'[t] = (IF SameEtag THEN "put" ELSE "compare")
    BY <1>3 DEF Head, Goto, Spliced, CommitInv, StepTypes
  <2>2. QED
    BY <1>1, <1>2, <1>3, <2>1, SplicedKind DEF CommitInv
<1>4. CASE ~Spliced
  <2>1. /\ pc'[t] = (IF SameEtag THEN "splice" ELSE "get")
        /\ SameEtag => spool # None
    BY <1>4 DEF Head, SameEtag, Goto, CommitInv, StepTypes
  <2>2. QED
    BY <1>1, <1>2, <1>4, <2>1, SplicedKind, DownloadKind DEF CommitInv
<1>5. QED
  BY <1>3, <1>4

\* Get: the spool is what HEAD and GET answered.
LEMMA GetEffect ==
  ASSUME CommitInv, NEW t \in Threads, Get(t)
  PROVE  /\ OthersWait(t) /\ Past(head, object)
         /\ UNCHANGED <<overlay, latest, hot, remote, store, object, served,
                        head,
                        skip, answer>>
         /\ spool' \in Downloads /\ spool'.etag = head /\ spool'.body = object
         /\ pc'[t] = "splice"
<1>1. OthersWait(t) /\ Past(head, object)
  BY DEF Get, Goto, OthersWait, CommitInv, StepTypes, FlagInv, HeadInv,
    Threads, CommitSteps, FlagSteps, GateSteps
<1>2. /\ spool' \in Downloads /\ spool'.etag = head /\ spool'.body = object
  BY NewDownload DEF Get, Download, CommitInv, BodyTypes
<1>3. QED
  BY <1>1, <1>2 DEF Get, Goto, CommitInv, StepTypes, files, mount, request

\* Compare: our own PUT is recognised by its body, any other starts over.
LEMMA CompareEffect ==
  ASSUME CommitInv, NEW t \in Threads, Compare(t)
  PROVE  /\ OthersWait(t) /\ Past(head, object) /\ spool \in Splices
         /\ UNCHANGED <<overlay, latest, hot, remote, store, object, served,
                        head,
                        answer>>
         /\ \/ spool' = spool /\ skip' = TRUE /\ object = spool.body /\ pc'[t] = "put"
            \/ /\ spool' \in Downloads /\ spool'.etag = head /\ spool'.body = object
               /\ skip' = skip /\ object # spool.body /\ pc'[t] = "splice"
<1>1. OthersWait(t) /\ Past(head, object) /\ spool \in Splices
  BY DEF Compare, Goto, OthersWait, CommitInv, StepTypes, FlagInv, HeadInv,
    SpoolStepInv, GateSteps
<1>2. Download \in Downloads /\ Download.etag = head /\ Download.body = object
  BY NewDownload DEF Download, CommitInv, BodyTypes
<1>3. QED
  BY <1>1, <1>2 DEF Compare, Goto, CommitInv, StepTypes, files, mount

\* Splice: nothing to commit, or the plan appended to the downloaded body.
LEMMA SpliceEffect ==
  ASSUME CommitInv, NEW t \in Threads, Splice(t)
  PROVE  /\ OthersWait(t) /\ remote /\ spool \in Downloads
         /\ UNCHANGED <<overlay, latest, hot, remote, store, object, served,
                        head,
                        skip>>
         /\ \/ /\ spool' = spool /\ pc'[t] = "drop"
               /\ answer' = IF t = "exit" THEN "nothing" ELSE answer
            \/ /\ spool' \in Splices /\ spool'.etag = spool.etag
               /\ spool'.body = With(spool.body, PlanOf(t)) /\ spool'.plan = PlanOf(t)
               /\ pc'[t] = "put" /\ answer' = answer
<1>1. OthersWait(t) /\ remote /\ spool \in Downloads
  BY DEF Splice, Goto, Return, OthersWait, CommitInv, StepTypes, FlagInv,
    KindInv, SpoolStepInv, RemoteSteps, GateSteps
<1>2. spool.etag \in Body /\ With(spool.body, PlanOf(t)) \in Body
  BY <1>1, DownloadKind, WithBody, PlanFiles DEF CommitInv
<1>3. UNCHANGED <<overlay, latest, hot, remote, store, object, served, head,
                  skip>>
  BY DEF Splice, files, mount, request
<1>4. QED
  BY <1>1, <1>2, <1>3, NewSplice, PlanFiles DEF Splice, Goto, Return,
    CommitInv, StepTypes

\* Put: skipped, stored, or refused for its ETag with the spool.
LEMMA PutEffect ==
  ASSUME CommitInv, NEW t \in Threads, Put(t)
  PROVE  /\ OthersWait(t) /\ remote /\ spool \in Splices
         /\ UNCHANGED <<overlay, latest, hot, remote, store, served, head,
                        skip>>
         /\ answer' \in {answer, "error"} /\ (t = "interval" => answer' = answer)
         /\ \/ skip /\ object' = object /\ spool' = spool /\ pc'[t] = Published(t)
            \/ /\ ~skip /\ Accepted /\ object' = spool.body /\ spool' = spool
               /\ pc'[t] \in {Published(t), "drop"}
            \/ /\ ~skip /\ ~Accepted /\ object' = object /\ spool' = None
               /\ pc'[t] = "drop"
<1>1. OthersWait(t) /\ remote /\ spool \in Splices
  BY DEF Put, Goto, Return, OthersWait, CommitInv, StepTypes, FlagInv,
    KindInv, SpoolStepInv, RemoteSteps, GateSteps
<1>2. QED
  BY <1>1 DEF Put, Goto, Return, CommitInv, StepTypes, files, mount, request

\* Reopen: the mount reads the new archive, or the commits are disabled.
LEMMA ReopenEffect ==
  ASSUME CommitInv, Reopen
  PROVE  /\ OthersWait("interval") /\ spool \in Splices
         /\ UNCHANGED <<overlay, latest, hot, remote, store, object, spool,
                        head,
                        skip, answer>>
         /\ \/ served' = object /\ disabled' = disabled /\ pc'["interval"] = "forget"
            \/ served' \in {served, None} /\ disabled' = TRUE /\ pc'["interval"] = "drop"
<1>1. OthersWait("interval") /\ spool \in Splices
  BY DEF Reopen, Goto, Return, OthersWait, CommitInv, StepTypes, FlagInv,
    SpoolStepInv, Threads, GateSteps
<1>2. QED
  BY <1>1 DEF Reopen, Goto, Return, CommitInv, StepTypes, Threads, files,
    mount, request

\* Forget: only files of the spool's plan leave the overlay, and the spool of
\* a remote commit goes when all of them did.
LEMMA ForgetEffect ==
  ASSUME CommitInv, NEW t \in Threads, Forget(t)
  PROVE  /\ OthersWait(t) /\ spool \in Splices
         /\ UNCHANGED <<latest, hot, remote, store, object, served, head,
                        skip>>
         /\ \A f \in Files : \/ overlay'[f] = overlay[f]
                             \/ overlay'[f] = 0 /\ f \in spool.plan
         /\ spool' \in {spool, None} /\ pc'[t] = "drop"
         /\ spool' = None /\ remote => \A f \in spool.plan : overlay'[f] = 0
         /\ answer' # answer => remote
<1>1. OthersWait(t) /\ spool \in Splices
  BY DEF Forget, Goto, Return, OthersWait, CommitInv, StepTypes, FlagInv,
    SpoolStepInv, GateSteps
<1>2. UNCHANGED <<latest, hot, remote, store, object, served, head, skip>>
  BY DEF Forget, mount, request
<1>3. \A f \in Files : \/ overlay'[f] = overlay[f]
                       \/ overlay'[f] = 0 /\ f \in spool.plan
  BY DEF Forget, Forgotten, CommitInv, FileTypes
<1>4. spool' \in {spool, None} /\ pc'[t] = "drop"
  BY DEF Forget, Return, Goto, CommitInv, StepTypes
<1>5. spool' = None /\ remote => \A f \in spool.plan : overlay'[f] = 0
  BY <1>1, SpliceKind DEF Forget, Forgotten
<1>6. answer' # answer => remote
  BY DEF Forget, Return, CommitInv, KindInv
<1>7. QED
  BY <1>1, <1>2, <1>3, <1>4, <1>5, <1>6

-----------------------------------------------------------------------------
(* The steps of the flag, the gate and the waits.                          *)

\* A step of the flag, the gate and the waits: no file, no archive and no
\* spool changes, no call is made; the mount's base may be refused.
Quietly ==
  /\ UNCHANGED <<overlay, latest, object, spool, head, skip, remote, store>>
  /\ served' \in {served, None} /\ hot' \subseteq hot
  /\ \A t \in Threads : pc'[t] \in SkipSteps \cup {"reopen", "forget"} => pc[t] = pc'[t]
  /\ pc'["exit"] = "off" => pc["exit"] = "off"
  /\ answer' = answer \/ (answer' = "error" /\ pc'["exit"] # "off")

\* Steps of a tick are quiet up to the gate.
LEMMA QuietTick ==
  ASSUME CommitInv, TickStart \/ TickBegin \/ TickCheck \/ PlanIdle
  PROVE  Quietly
BY DEF TickStart, TickBegin, TickCheck, PlanIdle, Goto, Quietly, SkipSteps,
  CommitInv, StepTypes, Threads, files, mount, request

\* So are those of the exit commit up to the flag,
LEMMA QuietExit ==
  ASSUME CommitInv, \/ ExitStart \/ WaitLock \/ WaitLoad \/ WaitEnter \/ Woken
                    \/ WaitTimesOut \/ ExitRecheck \/ ExitBegin
  PROVE  Quietly
<1>1. UNCHANGED <<overlay, latest, object, served, spool, remote, store, hot,
                  head, skip>>
  BY DEF ExitStart, WaitLock, WaitLoad, WaitEnter, Woken, WaitTimesOut,
    ExitRecheck, ExitBegin, files, mount, request
<1>2. /\ pc'["interval"] = pc["interval"]
      /\ pc'["exit"] \notin {"off", "reopen", "forget"} \cup SkipSteps
      /\ answer' \in {answer, "error"}
  BY DEF ExitStart, WaitLock, WaitLoad, WaitEnter, Woken, WaitTimesOut,
    ExitRecheck, ExitBegin, Goto, Cleared, AfterTimeout, SkipSteps,
    CommitInv, StepTypes, Threads
<1>3. QED
  BY <1>1, <1>2 DEF Quietly, Threads

\* taking the gate, giving it back, dropping the flag,
LEMMA QuietCommit ==
  ASSUME CommitInv, NEW t \in Threads,
         Lock(t) \/ RemoteFails(t) \/ SpliceFails(t) \/ DropFlag(t) \/ Notify(t)
  PROVE  Quietly
BY DEF Lock, RemoteFails, SpliceFails, DropFlag, Notify, Return, Goto,
  Quietly, SkipSteps, CommitInv, StepTypes, Threads, files, mount, request

\* and those of the mount but its writes.
LEMMA QuietMount ==
  ASSUME CommitInv, Term \/ \E f \in Files : Settle(f)
  PROVE  Quietly
BY DEF Term, Settle, Quietly, files, mount, request

\* A quiet step keeps what is said of files, bodies and the spool.
LEMMA QuietKeeps ==
  ASSUME CommitInv, Quietly, SwitchTypes', StepTypes', FlagInv',
         \A t \in Threads : /\ pc'[t] = "head" => remote
                            /\ pc'[t] = "persist" => ~remote
  PROVE  CommitInv'
<1>1. /\ UNCHANGED <<overlay, latest, object, spool, head, skip, remote,
                     store>>
      /\ served' \in {served, None} /\ hot' \subseteq hot
  BY DEF Quietly
<1>2. \A t \in Threads : pc'[t] \in {"compare", "get", "splice", "put", "reopen", "forget"} =>
        pc[t] = pc'[t]
  BY DEF Quietly, SkipSteps
<1>3. FileTypes' /\ BodyTypes'
  BY <1>1 DEF CommitInv, FileTypes, BodyTypes
<1>4. KindInv'
  BY <1>1, <1>2 DEF CommitInv, KindInv, RemoteSteps, Threads
<1>5. SpoolStepInv'
  BY <1>1, <1>2 DEF CommitInv, SpoolStepInv
<1>6. HeadInv'
  BY <1>1, <1>2 DEF CommitInv, HeadInv, Past
<1>7. TagInv'
  BY <1>1, <1>2 DEF CommitInv, TagInv, Past
<1>8. QED
  BY <1>3, <1>4, <1>5, <1>6, <1>7 DEF CommitInv

\* Steps of a tick up to the gate.
LEMMA TickCommit ==
  ASSUME CommitInv, TickStart \/ TickBegin \/ TickCheck \/ PlanIdle
  PROVE  CommitInv'
<1>1. SwitchTypes'
  BY DEF TickStart, TickBegin, TickCheck, PlanIdle, Goto, CommitInv,
    SwitchTypes, mount, files, flags, request, waiting
<1>2. StepTypes'
  BY DEF TickStart, TickBegin, TickCheck, PlanIdle, Goto, CommitInv,
    StepTypes, Threads, Steps, CommitSteps, IntervalSteps, flags, waiting
<1>3. FlagInv'
  <2>1. CASE TickStart
    BY <2>1 DEF TickStart, Goto, CommitInv, FlagInv, CommitSteps, FlagSteps,
      GateSteps, flags
  <2>2. CASE TickBegin
    BY <2>2 DEF TickBegin, Goto, CommitInv, FlagInv, Threads, CommitSteps,
      FlagSteps, GateSteps
  <2>3. CASE TickCheck
    BY <2>3 DEF TickCheck, Goto, CommitInv, FlagInv, FlagSteps, GateSteps,
      flags
  <2>4. CASE PlanIdle
    BY <2>4 DEF PlanIdle, Goto, CommitInv, FlagInv, CommitSteps, FlagSteps,
      GateSteps, flags
  <2>5. QED
    BY <2>1, <2>2, <2>3, <2>4
<1>4. \A t \in Threads : /\ pc'[t] = "head" => remote
                         /\ pc'[t] = "persist" => ~remote
  BY DEF TickStart, TickBegin, TickCheck, PlanIdle, Goto, CommitInv,
    StepTypes, KindInv, RemoteSteps
<1>5. Quietly
  BY QuietTick
<1>6. QED
  BY <1>1, <1>2, <1>3, <1>4, <1>5, QuietKeeps

\* Steps of the exit commit up to the flag.
LEMMA ExitCommit ==
  ASSUME CommitInv, 
         ExitStart \/ WaitLock \/ WaitLoad \/ WaitEnter \/ Woken
           \/ WaitTimesOut \/ ExitRecheck \/ ExitBegin
  PROVE  CommitInv'
<1>1. SwitchTypes'
  <2>1. CASE ExitStart
    BY <2>1 DEF ExitStart, CommitInv, SwitchTypes, mount, request
  <2>2. CASE WaitLock \/ WaitLoad \/ WaitEnter \/ WaitTimesOut
    BY <2>2 DEF WaitLock, WaitLoad, WaitEnter, WaitTimesOut, CommitInv,
      SwitchTypes, mount, flags, request
  <2>3. CASE Woken \/ ExitRecheck \/ ExitBegin
    BY <2>3 DEF Woken, ExitRecheck, ExitBegin, CommitInv, SwitchTypes, mount,
      flags, request, waiting
  <2>4. QED
    BY <2>1, <2>2, <2>3
<1>2. StepTypes'
  BY DEF ExitStart, WaitLock, WaitLoad, WaitEnter, Woken, WaitTimesOut,
    ExitRecheck, ExitBegin, Cleared, AfterTimeout, Goto, CommitInv,
    StepTypes, Threads, Steps, CommitSteps, ExitSteps, flags, waiting
<1>3. FlagInv'
  <2>1. CASE ExitStart
    BY <2>1 DEF ExitStart, Goto, CommitInv, StepTypes, FlagInv, CommitSteps,
      FlagSteps, GateSteps
  <2>2. CASE WaitLock
    BY <2>2 DEF WaitLock, Goto, CommitInv, FlagInv, CommitSteps, FlagSteps,
      GateSteps, flags
  <2>3. CASE WaitLoad
    BY <2>3 DEF WaitLoad, Cleared, Goto, CommitInv, StepTypes, FlagInv,
      CommitSteps, FlagSteps, GateSteps, flags
  <2>4. CASE WaitEnter
    BY <2>4 DEF WaitEnter, Goto, CommitInv, FlagInv, CommitSteps, FlagSteps,
      GateSteps, flags
  <2>5. CASE Woken
    BY <2>5 DEF Woken, Goto, CommitInv, StepTypes, FlagInv, CommitSteps,
      FlagSteps, GateSteps, flags
  <2>6. CASE WaitTimesOut
    BY <2>6 DEF WaitTimesOut, Cleared, AfterTimeout, Goto, CommitInv,
      FlagInv, CommitSteps, FlagSteps, GateSteps, flags
  <2>7. CASE ExitRecheck
    BY <2>7 DEF ExitRecheck, Goto, CommitInv, StepTypes, FlagInv,
      CommitSteps, FlagSteps, GateSteps, flags
  <2>8. CASE ExitBegin
    BY <2>8 DEF ExitBegin, Goto, CommitInv, StepTypes, FlagInv, Threads,
      CommitSteps, FlagSteps, GateSteps
  <2>9. QED
    BY <2>1, <2>2, <2>3, <2>4, <2>5, <2>6, <2>7, <2>8
<1>4. \A t \in Threads : /\ pc'[t] = "head" => remote
                         /\ pc'[t] = "persist" => ~remote
  BY DEF ExitStart, WaitLock, WaitLoad, WaitEnter, Woken, WaitTimesOut,
    ExitRecheck, ExitBegin, Cleared, AfterTimeout, Goto, CommitInv,
    StepTypes, KindInv, RemoteSteps
<1>5. Quietly
  BY QuietExit
<1>6. QED
  BY <1>1, <1>2, <1>3, <1>4, <1>5, QuietKeeps

\* Steps of the gate and the flag.
LEMMA HoldsCommit ==
  ASSUME CommitInv, NEW t \in Threads,
         Lock(t) \/ RemoteFails(t) \/ SpliceFails(t) \/ DropFlag(t) \/ Notify(t)
  PROVE  CommitInv'
<1>1. SwitchTypes'
  BY DEF Lock, RemoteFails, SpliceFails, DropFlag, Notify, Return, Goto,
    CommitInv, SwitchTypes, mount, files, flags, request, waiting
<1>2. StepTypes'
  BY DEF Lock, RemoteFails, SpliceFails, DropFlag, Notify, Return, Goto,
    CommitInv, StepTypes, Threads, Steps, CommitSteps, IntervalSteps,
    ExitSteps, flags, waiting
<1>3. FlagInv'
  <2>1. CASE Lock(t)
    BY <2>1 DEF Lock, Return, Goto, CommitInv, StepTypes, FlagInv, Threads,
      CommitSteps, FlagSteps, GateSteps
  <2>2. CASE RemoteFails(t) \/ SpliceFails(t)
    BY <2>2 DEF RemoteFails, SpliceFails, Return, Goto, CommitInv, StepTypes,
      FlagInv, Threads, CommitSteps, FlagSteps, GateSteps
  <2>3. CASE DropFlag(t)
    BY <2>3 DEF DropFlag, Goto, CommitInv, StepTypes, FlagInv, Threads,
      CommitSteps, FlagSteps, GateSteps
  <2>4. CASE Notify(t)
    BY <2>4 DEF Notify, Goto, CommitInv, FlagInv, CommitSteps, FlagSteps,
      GateSteps, flags
  <2>5. QED
    BY <2>1, <2>2, <2>3, <2>4
<1>4. \A u \in Threads : /\ pc'[u] = "head" => remote
                         /\ pc'[u] = "persist" => ~remote
  BY DEF Lock, RemoteFails, SpliceFails, DropFlag, Notify, Return, Goto,
    CommitInv, StepTypes, KindInv, RemoteSteps
<1>5. Quietly
  BY QuietCommit
<1>6. QED
  BY <1>1, <1>2, <1>3, <1>4, <1>5, QuietKeeps

\* Steps of the mount.
LEMMA MountCommit ==
  ASSUME CommitInv, Term \/ \E f \in Files : Settle(f)
  PROVE  CommitInv'
<1>1. SwitchTypes'
  BY DEF Term, Settle, CommitInv, SwitchTypes, mount, files, flags, request,
    waiting
<1>2. StepTypes'
  BY DEF Term, Settle, CommitInv, StepTypes, flags, waiting
<1>3. FlagInv'
  <2>1. CASE Term
    BY <2>1 DEF Term, CommitInv, FlagInv, flags
  <2>2. CASE \E f \in Files : Settle(f)
    BY <2>2 DEF Settle, CommitInv, FlagInv, flags
  <2>3. QED
    BY <2>1, <2>2
<1>4. \A t \in Threads : /\ pc'[t] = "head" => remote
                         /\ pc'[t] = "persist" => ~remote
  BY DEF Term, Settle, CommitInv, StepTypes, KindInv, RemoteSteps, Threads,
    mount, files, flags, request, waiting
<1>5. Quietly
  BY QuietMount
<1>6. QED
  BY <1>1, <1>2, <1>3, <1>4, <1>5, QuietKeeps

-----------------------------------------------------------------------------
(* The steps that change a file, the archive or the spool keep CommitInv.  *)

\* A write takes a new number.
LEMMA WriteCommit ==
  ASSUME CommitInv, NEW f \in Files, Write(f)
  PROVE  CommitInv'
<1>1. FileTypes'
  <2> DEFINE v == Max({latest[g] : g \in Files}) + 1
  <2>1. v \in 0..MaxWrites
    BY NextVersion, LiveAssumption DEF Write, CommitInv
  <2>2. QED
    BY <2>1 DEF Write, CommitInv, FileTypes
<1>2. BodyTypes'
  BY DEF Write, CommitInv, BodyTypes, mount, files, flags, request, waiting
<1>3. SwitchTypes' /\ StepTypes'
  <2>1. SwitchTypes'
    BY DEF Write, CommitInv, SwitchTypes, mount, files, flags, request,
      waiting
  <2>2. StepTypes'
    BY DEF Write, CommitInv, StepTypes, flags, waiting
  <2>3. QED
    BY <2>1, <2>2
<1>4. FlagInv'
  BY DEF Write, CommitInv, FlagInv, flags
<1>5. KindInv'
  BY DEF Write, CommitInv, StepTypes, KindInv, Threads, RemoteSteps, mount,
    files, flags, request, waiting
<1>6. SpoolStepInv'
  BY DEF Write, CommitInv, StepTypes, SpoolStepInv, Threads, mount, files,
    flags, request, waiting
<1>7. HeadInv'
  BY DEF Write, CommitInv, StepTypes, HeadInv, Past, Threads, mount, files,
    flags, request, waiting
<1>8. TagInv'
  BY DEF Write, CommitInv, TagInv, Past, mount, request
<1>9. QED
  BY <1>1, <1>2, <1>3, <1>4, <1>5, <1>6, <1>7, <1>8 DEF CommitInv

\* Another program's commit moves the object on from the last HEAD.
LEMMA ForeignCommit ==
  ASSUME CommitInv, Foreign
  PROVE  CommitInv'
<1>1. FileTypes'
  BY DEF Foreign, CommitInv, FileTypes, mount, files, flags, request, waiting
<1>2. BodyTypes'
  BY ForeignBody DEF Foreign, CommitInv, BodyTypes, mount, files, flags,
    request, waiting
<1>3. SwitchTypes' /\ StepTypes'
  <2>1. SwitchTypes'
    BY DEF Foreign, CommitInv, SwitchTypes, mount, files, flags, request,
      waiting
  <2>2. StepTypes'
    BY DEF Foreign, CommitInv, StepTypes, flags, waiting
  <2>3. QED
    BY <2>1, <2>2
<1>4. FlagInv'
  BY DEF Foreign, CommitInv, FlagInv, flags
<1>5. KindInv'
  BY DEF Foreign, CommitInv, StepTypes, KindInv, Threads, RemoteSteps, mount,
    files, flags, request, waiting
<1>6. SpoolStepInv'
  BY DEF Foreign, CommitInv, StepTypes, SpoolStepInv, Threads, mount, files,
    flags, request, waiting
<1>7. HeadInv'
  <2>1. pc' = pc /\ head' = head /\ spool' = spool
    BY DEF Foreign, mount, files, flags, request, waiting
  <2>2. object.data[Other] <= object'.data[Other] /\ head.data[Other] \in Nat
        /\ object.data[Other] \in Nat /\ object'.data[Other] \in Nat
    BY ForeignBody, BodyData DEF CommitInv, BodyTypes
  <2>3. QED
    BY <2>1, <2>2 DEF CommitInv, HeadInv, Past
<1>8. TagInv'
  <2>1. UNCHANGED <<pc, head, skip, spool, store>>
    BY DEF Foreign, mount, request
  <2>2. object.data[Other] <= object'.data[Other] /\ head.data[Other] \in Nat
        /\ object.data[Other] \in Nat /\ object'.data[Other] \in Nat
    BY ForeignBody, BodyData DEF CommitInv, BodyTypes
  <2>3. QED
    BY <2>1, <2>2 DEF CommitInv, TagInv, Past
<1>9. QED
  BY <1>1, <1>2, <1>3, <1>4, <1>5, <1>6, <1>7, <1>8 DEF CommitInv

\* The reopen leaves the archive and the spool.
LEMMA ReopenCommit ==
  ASSUME CommitInv, Reopen
  PROVE  CommitInv'
<1>1. FileTypes'
  BY DEF Reopen, Goto, Return, CommitInv, FileTypes, mount, files, flags,
    request, waiting
<1>2. BodyTypes'
  BY DEF Reopen, Goto, Return, CommitInv, BodyTypes, mount, files, flags,
    request, waiting
<1>3. SwitchTypes' /\ StepTypes'
  <2>1. SwitchTypes'
    BY DEF Reopen, Goto, Return, CommitInv, SwitchTypes, mount, files, flags,
      request, waiting
  <2>2. StepTypes'
    BY DEF Reopen, Goto, Return, CommitInv, StepTypes, Threads, Steps,
      CommitSteps, IntervalSteps, waiting
  <2>3. QED
    BY <2>1, <2>2
<1>4. FlagInv'
  BY DEF Reopen, Goto, Return, CommitInv, StepTypes, FlagInv, Threads,
    CommitSteps, FlagSteps, GateSteps
<1>5. KindInv'
  BY DEF Reopen, Goto, Return, CommitInv, StepTypes, KindInv, Threads,
    RemoteSteps, mount, files, flags, request, waiting
<1>6. SpoolStepInv'
  BY DEF Reopen, Goto, Return, CommitInv, StepTypes, SpoolStepInv, Threads,
    mount, files, flags, request, waiting
<1>7. HeadInv'
  BY DEF Reopen, Goto, Return, CommitInv, StepTypes, HeadInv, Past, Threads,
    mount, files, flags, request, waiting
<1>8. TagInv'
  BY ReopenEffect DEF CommitInv, TagInv, Past, OthersWait, GateSteps, Threads
<1>9. QED
  BY <1>1, <1>2, <1>3, <1>4, <1>5, <1>6, <1>7, <1>8 DEF CommitInv

\* A local commit leaves its plan as a splice for the reopen.
LEMMA PersistCommit ==
  ASSUME CommitInv, NEW t \in Threads, Persist(t)
  PROVE  CommitInv'
<1>1. FileTypes'
  BY DEF Persist, Goto, Return, CommitInv, FileTypes, mount, files, flags,
    request, waiting
<1>2. BodyTypes'
  <2>1. head' = head
    BY DEF Persist, request
  <2>2. With(object, PlanOf(t)) \in Body
    BY WithBody, PlanFiles DEF CommitInv, BodyTypes
  <2>3. QED
    BY <2>1, <2>2, PersistEffect DEF CommitInv, BodyTypes
<1>3. SwitchTypes' /\ StepTypes'
  <2>1. SwitchTypes'
    BY DEF Persist, Goto, Return, CommitInv, SwitchTypes, mount, files,
      flags, request, waiting
  <2>2. StepTypes'
    BY DEF Persist, Goto, Return, CommitInv, StepTypes, Threads, Steps,
      CommitSteps, IntervalSteps, ExitSteps, waiting
  <2>3. QED
    BY <2>1, <2>2
<1>4. FlagInv'
  BY DEF Persist, Goto, Return, CommitInv, StepTypes, FlagInv, Threads,
    CommitSteps, FlagSteps, GateSteps
<1>5. KindInv'
  BY DEF Persist, Goto, Return, CommitInv, StepTypes, KindInv, Threads,
    RemoteSteps, mount
<1>6. SpoolStepInv'
  BY PersistEffect DEF SpoolStepInv, OthersWait, GateSteps
<1>7. HeadInv'
  <2>1. \A u \in Threads : pc'[u] \notin {"compare", "get"}
    BY PersistEffect DEF OthersWait, GateSteps
  <2>2. CASE spool' = spool
    BY <2>1, <2>2 DEF CommitInv, HeadInv, Past
  <2>3. CASE spool' # spool
    <3>1. /\ spool'.body = With(object, PlanOf(t)) /\ spool'.etag = object
          /\ spool'.plan = PlanOf(t) /\ spool' \notin Downloads
      BY <2>3, PersistEffect, SpliceKind
    <3>2. QED
      BY <2>1, <3>1, WithBody, PlanFiles, BodyData DEF CommitInv, BodyTypes,
        HeadInv, Past
  <2>4. QED
    BY <2>2, <2>3
<1>8. TagInv'
  <2>1. object'.data[Other] = object.data[Other]
    BY PersistEffect, WithBody, PlanFiles DEF CommitInv, BodyTypes
  <2>2. \A u \in Threads : pc'[u] \notin {"splice", "put"}
    BY PersistEffect DEF OthersWait, GateSteps
  <2>3. UNCHANGED <<head, store>>
    BY DEF Persist, request, mount
  <2>4. QED
    BY <2>1, <2>2, <2>3 DEF CommitInv, TagInv, Past
<1>9. QED
  BY <1>1, <1>2, <1>3, <1>4, <1>5, <1>6, <1>7, <1>8 DEF CommitInv

\* The object is its own HEAD.
LEMMA HeadCommit ==
  ASSUME CommitInv, NEW t \in Threads, Head(t)
  PROVE  CommitInv'
<1>1. FileTypes'
  BY DEF Head, Goto, Spliced, CommitInv, FileTypes, mount, files, flags,
    request, waiting
<1>2. BodyTypes'
  BY DEF Head, Goto, Spliced, CommitInv, BodyTypes, mount, files, flags,
    request, waiting
<1>3. SwitchTypes' /\ StepTypes'
  <2>1. SwitchTypes'
    BY DEF Head, Goto, Spliced, CommitInv, SwitchTypes, mount, files, flags,
      request, waiting
  <2>2. StepTypes'
    BY DEF Head, Goto, CommitInv, StepTypes, Steps, CommitSteps,
      IntervalSteps, ExitSteps, flags, waiting
  <2>3. QED
    BY <2>1, <2>2
<1>4. FlagInv'
  BY DEF Head, Goto, CommitInv, FlagInv, CommitSteps, FlagSteps, GateSteps,
    flags
<1>5. KindInv'
  BY DEF Head, Goto, Spliced, CommitInv, StepTypes, KindInv, Threads,
    RemoteSteps, mount, files, flags, request, waiting
<1>6. SpoolStepInv'
  BY HeadEffect DEF SpoolStepInv, OthersWait, GateSteps
<1>7. HeadInv'
  <2>1. Past(object, object)
    BY BodyData DEF Past, CommitInv, BodyTypes
  <2>2. QED
    BY <2>1, HeadEffect DEF CommitInv, HeadInv, Past, OthersWait, GateSteps
<1>8. TagInv'
  <2>1. Past(object, object)
    BY BodyData DEF Past, CommitInv, BodyTypes
  <2>2. QED
    BY <2>1, HeadEffect DEF SameEtag, TagInv, Past, OthersWait, GateSteps
<1>9. QED
  BY <1>1, <1>2, <1>3, <1>4, <1>5, <1>6, <1>7, <1>8 DEF CommitInv

\* Since the HEAD only other programs changed the object.
LEMMA GetCommit ==
  ASSUME CommitInv, NEW t \in Threads, Get(t)
  PROVE  CommitInv'
<1>1. FileTypes'
  BY DEF Get, Goto, Download, CommitInv, FileTypes, mount, files, flags,
    request, waiting
<1>2. BodyTypes'
  BY GetEffect DEF CommitInv, BodyTypes
<1>3. SwitchTypes' /\ StepTypes'
  <2>1. SwitchTypes'
    BY DEF Get, Goto, Download, CommitInv, SwitchTypes, mount, files, flags,
      request, waiting
  <2>2. StepTypes'
    BY DEF Get, Goto, CommitInv, StepTypes, Steps, CommitSteps,
      IntervalSteps, ExitSteps, flags, waiting
  <2>3. QED
    BY <2>1, <2>2
<1>4. FlagInv'
  BY DEF Get, Goto, CommitInv, FlagInv, CommitSteps, FlagSteps, GateSteps,
    flags
<1>5. KindInv'
  BY DEF Get, Goto, Download, CommitInv, StepTypes, KindInv, Threads,
    RemoteSteps, mount, files, flags, request, waiting
<1>6. SpoolStepInv'
  BY GetEffect DEF SpoolStepInv, OthersWait, GateSteps
<1>7. HeadInv'
  BY GetEffect, DownloadKind DEF HeadInv, Past, OthersWait, GateSteps
<1>8. TagInv'
  BY GetEffect DEF CommitInv, TagInv, Past, OthersWait, GateSteps
<1>9. QED
  BY <1>1, <1>2, <1>3, <1>4, <1>5, <1>6, <1>7, <1>8 DEF CommitInv

\* The same for the body a COMPARE downloads.
LEMMA CompareCommit ==
  ASSUME CommitInv, NEW t \in Threads, Compare(t)
  PROVE  CommitInv'
<1>1. FileTypes'
  BY DEF Compare, Goto, Download, CommitInv, FileTypes, mount, files, flags,
    request, waiting
<1>2. BodyTypes'
  BY CompareEffect DEF CommitInv, BodyTypes
<1>3. SwitchTypes' /\ StepTypes'
  <2>1. SwitchTypes'
    BY DEF Compare, Goto, Download, CommitInv, SwitchTypes, mount, files,
      flags, request, waiting
  <2>2. StepTypes'
    BY DEF Compare, Goto, CommitInv, StepTypes, Threads, Steps, CommitSteps,
      IntervalSteps, ExitSteps, flags, waiting
  <2>3. QED
    BY <2>1, <2>2
<1>4. FlagInv'
  BY DEF Compare, Goto, CommitInv, StepTypes, FlagInv, Threads, CommitSteps,
    FlagSteps, GateSteps, flags
<1>5. KindInv'
  BY DEF Compare, Goto, CommitInv, StepTypes, KindInv, RemoteSteps, mount
<1>6. SpoolStepInv'
  BY CompareEffect DEF SpoolStepInv, OthersWait, GateSteps
<1>7. HeadInv'
  BY CompareEffect, DownloadKind DEF CommitInv, HeadInv, Past, OthersWait,
    GateSteps
<1>8. TagInv'
  BY CompareEffect DEF CommitInv, TagInv, Past, OthersWait, GateSteps
<1>9. QED
  BY <1>1, <1>2, <1>3, <1>4, <1>5, <1>6, <1>7, <1>8 DEF CommitInv

\* The splice differs from the download in the plan's files.
LEMMA SpliceCommit ==
  ASSUME CommitInv, NEW t \in Threads, Splice(t)
  PROVE  CommitInv'
<1>1. FileTypes'
  BY DEF Splice, Goto, Return, CommitInv, FileTypes, mount, files, flags,
    request, waiting
<1>2. BodyTypes'
  BY SpliceEffect DEF CommitInv, BodyTypes
<1>3. SwitchTypes' /\ StepTypes'
  <2>1. SwitchTypes'
    BY DEF Splice, Goto, Return, CommitInv, SwitchTypes, mount, files, flags,
      request, waiting
  <2>2. StepTypes'
    BY DEF Splice, Goto, Return, CommitInv, StepTypes, Threads, Steps,
      CommitSteps, IntervalSteps, ExitSteps, waiting
  <2>3. QED
    BY <2>1, <2>2
<1>4. FlagInv'
  BY DEF Splice, Goto, Return, CommitInv, StepTypes, FlagInv, Threads,
    CommitSteps, FlagSteps, GateSteps
<1>5. KindInv'
  BY DEF Splice, Goto, Return, CommitInv, StepTypes, KindInv, Threads,
    RemoteSteps, mount, files, flags, request, waiting
<1>6. SpoolStepInv'
  BY SpliceEffect DEF SpoolStepInv, OthersWait, GateSteps
<1>7. HeadInv'
  <2>1. CASE spool' = spool
    BY <2>1, SpliceEffect, SpliceKind DEF CommitInv, HeadInv, Past,
      OthersWait, GateSteps
  <2>2. CASE spool' # spool
    <3>1. spool'.body.data[Other] = spool.body.data[Other]
      BY <2>2, SpliceEffect, DownloadKind, WithBody, PlanFiles DEF CommitInv
    <3>2. Past(spool.etag, spool.body)
      BY SpliceEffect DEF CommitInv, HeadInv
    <3>3. QED
      BY <2>2, <3>1, <3>2, SpliceEffect, SpliceKind DEF HeadInv, Past,
        OthersWait, GateSteps
  <2>3. QED
    BY <2>1, <2>2
<1>8. TagInv'
  BY SpliceEffect DEF Splice, CommitInv, TagInv, Past, OthersWait, GateSteps
<1>9. QED
  BY <1>1, <1>2, <1>3, <1>4, <1>5, <1>6, <1>7, <1>8 DEF CommitInv

\* What is put is a splice.
LEMMA PutCommit ==
  ASSUME CommitInv, NEW t \in Threads, Put(t)
  PROVE  CommitInv'
<1>1. FileTypes'
  BY DEF Put, Goto, Return, Published, CommitInv, FileTypes, mount, files,
    flags, request, waiting
<1>2. BodyTypes'
  BY PutEffect, SpliceKind DEF CommitInv, BodyTypes
<1>3. SwitchTypes' /\ StepTypes'
  <2>1. SwitchTypes'
    BY DEF Put, Goto, Return, Published, CommitInv, SwitchTypes, mount,
      files, flags, request, waiting
  <2>2. StepTypes'
    BY DEF Put, Goto, Return, Published, CommitInv, StepTypes, Threads,
      Steps, CommitSteps, IntervalSteps, ExitSteps, waiting
  <2>3. QED
    BY <2>1, <2>2
<1>4. FlagInv'
  BY DEF Put, Goto, Return, Published, CommitInv, StepTypes, FlagInv,
    Threads, CommitSteps, FlagSteps, GateSteps
<1>5. KindInv'
  BY DEF Put, Goto, Return, Published, CommitInv, StepTypes, KindInv,
    RemoteSteps, mount
<1>6. SpoolStepInv'
  BY PutEffect DEF SpoolStepInv, Published, OthersWait, GateSteps
<1>7. HeadInv'
  BY PutEffect, SpliceKind, DownloadKind DEF CommitInv, HeadInv, Past,
    Published, OthersWait, GateSteps
<1>8. TagInv'
  <2>1. \A u \in Threads : pc'[u] \notin {"splice", "put"}
    BY PutEffect DEF Published, OthersWait, GateSteps
  <2>2. CASE object' = object
    BY <2>1, <2>2, PutEffect DEF CommitInv, TagInv, Past
  <2>3. CASE object' # object
    <3>1. pc[t] = "put" /\ ~skip /\ object' = spool.body /\ spool \in Splices
      BY <2>3, PutEffect DEF Put
    <3>2. Past(spool.etag, spool.body)
      BY <3>1 DEF CommitInv, HeadInv
    <3>3. QED
      BY <2>1, <3>1, <3>2, PutEffect DEF CommitInv, TagInv, Past
  <2>4. QED
    BY <2>2, <2>3
<1>9. QED
  BY <1>1, <1>2, <1>3, <1>4, <1>5, <1>6, <1>7, <1>8 DEF CommitInv

\* The overlay loses files of the plan.
LEMMA ForgetCommit ==
  ASSUME CommitInv, NEW t \in Threads, Forget(t)
  PROVE  CommitInv'
<1>1. FileTypes'
  BY LiveAssumption DEF Forget, CommitInv, FileTypes
<1>2. BodyTypes'
  BY ForgetEffect DEF CommitInv, BodyTypes
<1>3. SwitchTypes' /\ StepTypes'
  <2>1. SwitchTypes'
    BY DEF Forget, Goto, Return, Forgotten, CommitInv, SwitchTypes, mount,
      files, flags, request, waiting
  <2>2. StepTypes'
    BY DEF Forget, Goto, Return, CommitInv, StepTypes, Threads, Steps,
      CommitSteps, IntervalSteps, ExitSteps, waiting
  <2>3. QED
    BY <2>1, <2>2
<1>4. FlagInv'
  BY DEF Forget, Goto, Return, CommitInv, StepTypes, FlagInv, Threads,
    CommitSteps, FlagSteps, GateSteps
<1>5. KindInv'
  BY DEF Forget, Goto, Return, CommitInv, StepTypes, KindInv, Threads,
    RemoteSteps, mount
<1>6. SpoolStepInv'
  BY ForgetEffect DEF SpoolStepInv, OthersWait, GateSteps
<1>7. HeadInv'
  BY ForgetEffect, SpliceKind, DownloadKind DEF CommitInv, HeadInv, Past,
    OthersWait, GateSteps
<1>8. TagInv'
  BY ForgetEffect DEF CommitInv, TagInv, Past, OthersWait, GateSteps
<1>9. QED
  BY <1>1, <1>2, <1>3, <1>4, <1>5, <1>6, <1>7, <1>8 DEF CommitInv

-----------------------------------------------------------------------------
(* CommitInv holds, and with it no commit of another program is lost.      *)

\* A mount starts without a commit.
LEMMA InitCommit == Init => CommitInv
<1> SUFFICES ASSUME Init PROVE CommitInv
  OBVIOUS
<1>1. Empty \in Body
  BY DEF Empty, Body
<1>2. FileTypes /\ BodyTypes
  BY <1>1, LiveAssumption DEF Init, FileTypes, BodyTypes
<1>3. SwitchTypes
  BY LiveAssumption DEF Init, SwitchTypes
<1>4. StepTypes /\ FlagInv /\ KindInv /\ SpoolStepInv
  BY DEF Init, StepTypes, FlagInv, KindInv, SpoolStepInv, Threads, Steps,
    CommitSteps, IntervalSteps, ExitSteps, FlagSteps, GateSteps, RemoteSteps
<1>5. HeadInv /\ TagInv
  BY LiveAssumption, DownloadKind, SpliceKind DEF Init, Empty, HeadInv,
    TagInv, Past, Threads
<1>6. QED
  BY <1>2, <1>3, <1>4, <1>5 DEF CommitInv

\* A step that changes nothing keeps everything.
LEMMA StutterCommit ==
  ASSUME CommitInv, UNCHANGED liveVars
  PROVE  CommitInv'
BY DEF CommitInv, FileTypes, BodyTypes, SwitchTypes, StepTypes, FlagInv,
  KindInv, SpoolStepInv, HeadInv, TagInv, Past, liveVars, mount, files,
  flags, request, waiting

\* Each action by its lemma.
LEMMA NextCommit ==
  ASSUME CommitInv, [Next]_liveVars
  PROVE  CommitInv'
<1>1. ASSUME NEW t \in Threads, Commit(t) PROVE CommitInv'
  BY <1>1, HoldsCommit, PersistCommit, HeadCommit, GetCommit, CompareCommit,
    SpliceCommit, PutCommit, ForgetCommit DEF Commit
<1>2. CASE Tick
  BY <1>1, <1>2, TickCommit, ReopenCommit DEF Tick, Threads
<1>3. CASE Exit
  BY <1>1, <1>3, ExitCommit DEF Exit, Threads
<1>4. CASE UNCHANGED liveVars
  BY <1>4, StutterCommit
<1>5. QED
  BY <1>2, <1>3, <1>4, WriteCommit, MountCommit, ForeignCommit DEF Next,
    Stopped

\* CommitInv is an invariant of every mount, RewriteStashed or not.
THEOREM CommitInvariance == LiveSpec => []CommitInv
<1>1. QED
  BY InitCommit, NextCommit, PTL DEF LiveSpec

\* What a step keeps of the commits of other programs.
OthersKept ==
  /\ store = "match" => Past(object, object')
  /\ store # "untagged" => Past(head, object')

\* A conditional PUT meets the object its splice started from; a blind one
\* puts a body that is no older than its HEAD.
LEMMA ForeignStep ==
  ASSUME CommitInv, [Next]_liveVars
  PROVE  OthersKept
<1>1. object.data[Other] \in Nat /\ head.data[Other] \in Nat
  BY BodyData DEF CommitInv, BodyTypes
<1>2. ASSUME object'.data[Other] >= object.data[Other], object'.data[Other] \in Nat
      PROVE  OthersKept
  BY <1>1, <1>2 DEF CommitInv, TagInv, Past, OthersKept
<1>3. ASSUME object' = object PROVE OthersKept
  BY <1>1, <1>2, <1>3
<1>4. ASSUME NEW t \in Threads, Commit(t)
      PROVE  OthersKept
  <2>1. CASE Persist(t)
    <3>1. object'.data[Other] = object.data[Other]
      BY <2>1, PersistEffect, WithBody, PlanFiles DEF CommitInv, BodyTypes
    <3>2. QED
      BY <1>1, <1>2, <3>1
  <2>2. CASE Put(t)
    <3>1. CASE object' = object
      BY <1>3, <3>1
    <3>2. CASE object' # object
      <4>1. /\ spool \in Splices /\ Accepted /\ object' = spool.body
            /\ ~skip /\ pc[t] = "put"
        BY <2>2, <3>2, PutEffect DEF Put
      <4>2. Past(spool.etag, spool.body)
        BY <4>1 DEF CommitInv, HeadInv
      <4>3. store # "untagged" => spool.etag = head
        BY <4>1 DEF CommitInv, TagInv
      <4>4. store = "match" => spool.etag = object
        BY <4>1 DEF Accepted
      <4>5. QED
        BY <4>1, <4>2, <4>3, <4>4 DEF OthersKept
    <3>3. QED
      BY <3>1, <3>2
  <2>3. CASE Lock(t) \/ RemoteFails(t) \/ Head(t) \/ Get(t) \/ Compare(t) \/ Splice(t)
             \/ SpliceFails(t) \/ Forget(t) \/ DropFlag(t) \/ Notify(t)
    <3>1. object' = object
      BY <2>3 DEF Lock, RemoteFails, Head, Get, Compare, Splice, SpliceFails,
        Forget, DropFlag, Notify
    <3>2. QED
      BY <1>3, <3>1
  <2>4. QED
    BY <1>4, <2>1, <2>2, <2>3 DEF Commit
<1>5. CASE Tick
  BY <1>3, <1>4, <1>5 DEF Tick, Threads, TickStart, TickBegin, TickCheck,
    PlanIdle, Reopen
<1>6. CASE Exit
  BY <1>3, <1>4, <1>6 DEF Exit, Threads, ExitStart, WaitLock, WaitLoad,
    WaitEnter, Woken, WaitTimesOut, ExitRecheck, ExitBegin
<1>7. CASE Foreign
  BY <1>1, <1>2, <1>7, ForeignBody DEF CommitInv, BodyTypes
<1>8. CASE UNCHANGED liveVars
  BY <1>3, <1>8 DEF liveVars
<1>9. CASE \E f \in Files : Write(f) \/ Settle(f)
  BY <1>3, <1>9 DEF Write, Settle
<1>10. CASE Term
  BY <1>3, <1>10 DEF Term
<1>11. QED
  BY <1>5, <1>6, <1>7, <1>8, <1>9, <1>10 DEF Next, Stopped

\* No commit with a conditional PUT takes the work of another program out of
\* the remote object, and a PUT without a precondition takes out only what
\* came after its HEAD.
THEOREM ForeignKeptHolds == LiveSpec => ForeignKept
<1>1. CommitInv /\ [Next]_liveVars =>
        [/\ store = "match" => object'.data[Other] >= object.data[Other]
         /\ store # "untagged" => object'.data[Other] >= head.data[Other]]_liveVars
  <2>1. SUFFICES ASSUME CommitInv, [Next]_liveVars
                 PROVE  /\ store = "match" => object'.data[Other] >= object.data[Other]
                        /\ store # "untagged" => object'.data[Other] >= head.data[Other]
    OBVIOUS
  <2>2. /\ object.data[Other] \in Nat /\ head.data[Other] \in Nat
        /\ object'.data[Other] \in Nat
    BY <2>1, NextCommit, BodyData DEF CommitInv, BodyTypes
  <2>3. QED
    BY <2>1, <2>2, ForeignStep DEF OthersKept, Past
<1>2. QED
  BY <1>1, CommitInvariance, PTL DEF LiveSpec, ForeignKept

-----------------------------------------------------------------------------
(* WriteInv: the writes of the mount.                                      *)

\* A quiet step keeps the last writes where they are.
LEMMA QuietWrites ==
  ASSUME CommitInv, WriteInv, Quietly
  PROVE  WriteInv'
<1>1. PlanInv' /\ SpoolInv'
  BY DEF Quietly, WriteInv, PlanInv, SpoolInv
<1>2. PublishInv'
  BY DEF Quietly, WriteInv, PublishInv, SkipSteps, Threads
<1>3. KeptInv' /\ ReadersCurrent'
  BY DEF Quietly, WriteInv, KeptInv, ReadersCurrent
<1>4. AnswerInv'
  BY DEF Quietly, WriteInv, AnswerInv
<1>5. QED
  BY <1>1, <1>2, <1>3, <1>4 DEF WriteInv

\* A HEAD finds the object, and skips nothing yet.
LEMMA HeadWrites ==
  ASSUME CommitInv, WriteInv, NEW t \in Threads, Head(t)
  PROVE  WriteInv'
<1>1. PlanInv' /\ SpoolInv'
  BY HeadEffect DEF WriteInv, PlanInv, SpoolInv
<1>2. PublishInv'
  BY HeadEffect DEF PublishInv, SkipSteps, OthersWait, GateSteps, Threads
<1>3. KeptInv' /\ ReadersCurrent' /\ AnswerInv'
  BY HeadEffect DEF WriteInv, KeptInv, ReadersCurrent, AnswerInv, OthersWait,
    Threads
<1>4. QED
  BY <1>1, <1>2, <1>3 DEF WriteInv

\* A write reaches no file of a plan: the gate keeps it away from a local
\* one, and a stashed one is not rewritten.
LEMMA WriteWrites ==
  ASSUME ~RewriteStashed, CommitInv, WriteInv, NEW f \in Files, Write(f)
  PROVE  WriteInv'
<1> DEFINE v == Max({latest[g] : g \in Files}) + 1
<1>1. /\ v # 0
      /\ overlay' = [overlay EXCEPT ![f] = v] /\ latest' = [latest EXCEPT ![f] = v]
  BY NextVersion DEF Write, CommitInv
<1> HIDE DEF v
<1>2. \A g \in Files : IF g = f THEN overlay'[g] = v /\ latest'[g] = v
                       ELSE overlay'[g] = overlay[g] /\ latest'[g] = latest[g]
  BY <1>1 DEF CommitInv, FileTypes
<1>3. UNCHANGED <<object, served, spool, pc, remote, answer,
                  skip>> /\ hot' = hot \cup {f}
      /\ pc["exit"] = "off"
  BY DEF Write, mount, request
<1>4. remote /\ spool \in Splices => f \notin spool.plan
  BY SplicedKind DEF Write, Stashed, CommitInv
<1>5. ASSUME NEW t \in Threads, pc[t] \in {"reopen", "forget"}
      PROVE  spool \in Splices /\ f \notin spool.plan /\ f \in hot
  <2>1. gate = t /\ spool \in Splices
    BY <1>5 DEF CommitInv, FlagInv, GateSteps, SpoolStepInv
  <2>2. f \in hot
    BY <2>1 DEF Write, Threads
  <2>3. QED
    BY <1>4, <1>5, <2>1, <2>2 DEF WriteInv, PublishInv, CommitInv, SwitchTypes
<1>6. PlanInv' /\ SpoolInv'
  BY <1>2, <1>3, <1>4, SpliceKind DEF WriteInv, PlanInv, SpoolInv
<1>7. PublishInv'
  <2>1. \A t \in Threads :
          /\ pc[t] \in SkipSteps \ {"put"} => ~skip
          /\ pc[t] = "put" /\ skip => \A g \in Files : spool.body.data[g] = object.data[g]
    BY DEF WriteInv, PublishInv
  <2>2. \A t \in Threads : pc[t] \in {"reopen", "forget"} =>
          /\ \A g \in spool.plan : object.data[g] = latest'[g]
          /\ ~remote => spool.plan \cap (hot \cup {f}) = {}
    BY <1>2, <1>5, SpliceKind DEF WriteInv, PublishInv
  <2>3. pc["interval"] = "forget" /\ served # None =>
          \A g \in spool.plan : served.data[g] = latest'[g]
    BY <1>2, <1>5, SpliceKind DEF WriteInv, PublishInv, Threads
  <2>4. QED
    BY <1>3, <2>1, <2>2, <2>3 DEF PublishInv
<1>8. KeptInv' /\ ReadersCurrent'
  BY <1>1, <1>2, <1>3 DEF WriteInv, KeptInv, ReadersCurrent
<1>9. AnswerInv'
  BY <1>3 DEF WriteInv, AnswerInv
<1>10. QED
  BY <1>6, <1>7, <1>8, <1>9 DEF WriteInv

\* Another program's commit leaves the mount's members.
LEMMA ForeignWrites ==
  ASSUME CommitInv, WriteInv, Foreign
  PROVE  WriteInv'
<1>1. UNCHANGED <<overlay, latest, hot, served, spool, pc, remote, answer,
                  skip>>
  BY DEF Foreign, files, mount, request
<1>2. \A f \in Files : object'.data[f] = object.data[f]
  BY ForeignBody DEF CommitInv, BodyTypes
<1>3. PlanInv' /\ SpoolInv' /\ KeptInv' /\ ReadersCurrent' /\ AnswerInv'
  BY <1>1, <1>2 DEF WriteInv, PlanInv, SpoolInv, KeptInv, ReadersCurrent,
    AnswerInv
<1>4. PublishInv'
  <2>1. \A t \in Threads : pc[t] \in {"reopen", "forget"} =>
          \A f \in spool.plan : object'.data[f] = object.data[f]
    BY <1>2, SpliceKind DEF CommitInv, SpoolStepInv
  <2>2. QED
    BY <1>1, <1>2, <2>1 DEF WriteInv, PublishInv
<1>5. QED
  BY <1>3, <1>4 DEF WriteInv

\* A local commit writes the last write of its plan.
LEMMA PersistWrites ==
  ASSUME CommitInv, WriteInv, NEW t \in Threads, Persist(t)
  PROVE  WriteInv'
<1>1. /\ UNCHANGED <<overlay, latest, hot, remote>> /\ served' \in {served,
                     None}
      /\ ~remote /\ OthersWait(t)
  BY PersistEffect
<1>2. /\ \A f \in PlanOf(t) : overlay[f] # 0 /\ f \in Files
      /\ \A f \in PlanOf(t) : With(object, PlanOf(t)).data[f] = latest[f]
      /\ \A f \in Files \ PlanOf(t) : With(object, PlanOf(t)).data[f] = object.data[f]
  BY WithBody, PlanFiles DEF CommitInv, BodyTypes, WriteInv, KeptInv
<1>3. \A f \in Files : object'.data[f] \in {object.data[f], latest[f]}
  BY <1>2, PersistEffect
<1>4. PlanInv' /\ SpoolInv'
  BY <1>1 DEF PlanInv, SpoolInv
<1>5. PublishInv'
  <2>1. \A u \in Threads : pc'[u] \notin SkipSteps /\ pc'[u] # "forget"
    BY <1>1, PersistEffect DEF OthersWait, GateSteps, SkipSteps
  <2>2. \A u \in Threads : pc'[u] = "reopen" =>
          /\ spool'.plan = PlanOf(t) /\ object' = With(object, PlanOf(t)) /\ t = "interval"
    BY <1>1, PersistEffect DEF OthersWait, GateSteps
  <2>3. QED
    BY <1>1, <1>2, <2>1, <2>2, PlanFiles DEF PublishInv, SkipSteps, Threads
<1>6. KeptInv'
  BY <1>1, <1>3 DEF WriteInv, KeptInv
<1>7. ReadersCurrent'
  BY <1>1, PersistEffect DEF WriteInv, ReadersCurrent, OthersWait, Threads,
    Persist
<1>8. AnswerInv'
  <2>1. pc'["exit"] = "off" => pc["exit"] = "off" /\ t = "interval"
    BY <1>1, PersistEffect DEF OthersWait, Threads
  <2>2. answer' # "none" => pc'["exit"] # "off"
    BY <2>1, PersistEffect DEF WriteInv, AnswerInv, Persist, Return
  <2>3. CASE answer' = answer
    BY <1>1, <1>3, <2>2, <2>3 DEF WriteInv, AnswerInv
  <2>4. CASE answer' # answer
    BY <1>1, <1>2, <2>2, <2>4, PersistEffect, PlanFiles DEF WriteInv,
      AnswerInv, KeptInv
  <2>5. QED
    BY <2>3, <2>4
<1>9. QED
  BY <1>4, <1>5, <1>6, <1>7, <1>8 DEF WriteInv

\* A GET replaces the spool by one that names no file.
LEMMA GetWrites ==
  ASSUME CommitInv, WriteInv, NEW t \in Threads, Get(t)
  PROVE  WriteInv'
<1>1. PlanInv' /\ SpoolInv'
  BY GetEffect, DownloadKind DEF PlanInv, SpoolInv
<1>2. PublishInv'
  BY GetEffect DEF Get, WriteInv, PublishInv, SkipSteps, OthersWait,
    GateSteps, Threads
<1>3. KeptInv' /\ ReadersCurrent' /\ AnswerInv'
  BY GetEffect DEF WriteInv, KeptInv, ReadersCurrent, AnswerInv, OthersWait,
    Threads
<1>4. QED
  BY <1>1, <1>2, <1>3 DEF WriteInv

\* So does a COMPARE, unless the object is the spool's body.
LEMMA CompareWrites ==
  ASSUME CommitInv, WriteInv, NEW t \in Threads, Compare(t)
  PROVE  WriteInv'
<1>1. PlanInv' /\ SpoolInv'
  BY CompareEffect, DownloadKind DEF WriteInv, PlanInv, SpoolInv
<1>2. PublishInv'
  <2>1. ~skip
    BY DEF Compare, WriteInv, PublishInv, SkipSteps
  <2>2. \/ pc'[t] = "put" /\ object' = spool'.body
        \/ pc'[t] = "splice" /\ ~skip'
    BY <2>1, CompareEffect
  <2>3. \A u \in Threads \ {t} : pc'[u] \notin GateSteps
    BY CompareEffect DEF OthersWait
  <2>4. QED
    BY <2>2, <2>3 DEF PublishInv, SkipSteps, GateSteps, Threads
<1>3. KeptInv' /\ ReadersCurrent' /\ AnswerInv'
  BY CompareEffect DEF WriteInv, KeptInv, ReadersCurrent, AnswerInv,
    OthersWait, Threads
<1>4. QED
  BY <1>1, <1>2, <1>3 DEF WriteInv

\* A splice takes the overlay's versions, which are the last writes.
LEMMA SpliceWrites ==
  ASSUME CommitInv, WriteInv, NEW t \in Threads, Splice(t)
  PROVE  WriteInv'
<1>1. PlanInv'
  <2>1. CASE spool' = spool
    BY <2>1, SpliceEffect, DownloadKind DEF PlanInv
  <2>2. CASE spool' # spool
    <3>1. /\ spool'.plan = PlanOf(t) /\ spool'.body = With(spool.body, PlanOf(t))
          /\ spool.body \in Body /\ latest' = latest
      BY <2>2, SpliceEffect, DownloadKind
    <3>2. \A f \in PlanOf(t) : With(spool.body, PlanOf(t)).data[f] = overlay[f]
      BY <3>1, WithBody, PlanFiles DEF CommitInv
    <3>3. \A f \in PlanOf(t) : overlay[f] = latest[f]
      BY PlanFiles DEF WriteInv, KeptInv
    <3>4. QED
      BY <3>1, <3>2, <3>3 DEF PlanInv
  <2>3. QED
    BY <2>1, <2>2
<1>2. PublishInv'
  <2>1. \A u \in Threads : pc'[u] \notin {"reopen", "forget"}
    BY SpliceEffect DEF OthersWait, GateSteps
  <2>2. \A u \in Threads : ~(pc'[u] \in SkipSteps /\ skip')
    BY SpliceEffect DEF OthersWait, GateSteps, SkipSteps, Splice, WriteInv,
      PublishInv
  <2>3. QED
    BY <2>1, <2>2 DEF PublishInv, SkipSteps, Threads
<1>3. KeptInv' /\ ReadersCurrent' /\ AnswerInv'
  BY SpliceEffect DEF WriteInv, KeptInv, ReadersCurrent, AnswerInv,
    OthersWait, Threads
<1>4. SpoolInv'
  <2>1. CASE spool' = spool
    BY <2>1, SpliceEffect DEF WriteInv, SpoolInv
  <2>2. CASE spool' # spool
    <3>1. \A f \in Files \ spool'.plan : spool'.body.data[f] = spool.body.data[f]
      BY <2>2, SpliceEffect, DownloadKind, WithBody, PlanFiles DEF CommitInv
    <3>2. QED
      BY <2>2, <3>1, SpliceEffect, SpliceKind DEF WriteInv, SpoolInv
  <2>3. QED
    BY <2>1, <2>2
<1>5. QED
  BY <1>1, <1>2, <1>3, <1>4 DEF WriteInv

\* A PUT stores the last writes of its plan over the body it was made from.
LEMMA PutWrites ==
  ASSUME CommitInv, WriteInv, NEW t \in Threads, Put(t)
  PROVE  WriteInv'
<1>1. /\ \A f \in spool.plan : spool.body.data[f] = latest[f]
      /\ \A f \in Files \ spool.plan : object.data[f] = spool.body.data[f]
  BY PutEffect DEF WriteInv, PlanInv, SpoolInv
<1>2. \A f \in Files : object'.data[f] \in {object.data[f], latest[f]}
  BY <1>1, PutEffect
<1>3. PlanInv' /\ SpoolInv'
  BY <1>1, PutEffect, SpliceKind, LiveAssumption DEF PlanInv, SpoolInv
<1>4. pc'[t] # "drop" => \A f \in spool.plan : object'.data[f] = latest[f]
  BY <1>1, PutEffect, SpliceKind DEF WriteInv, PublishInv, Put
<1>5. PublishInv'
  BY <1>4, PutEffect DEF PublishInv, SkipSteps, OthersWait, GateSteps,
    Published, Threads
<1>6. KeptInv' /\ ReadersCurrent' /\ AnswerInv'
  BY <1>2, PutEffect DEF WriteInv, KeptInv, ReadersCurrent, AnswerInv,
    OthersWait, Published, Threads
<1>7. QED
  BY <1>3, <1>5, <1>6 DEF WriteInv

\* The reopened base is the archive.
LEMMA ReopenWrites ==
  ASSUME CommitInv, WriteInv, Reopen
  PROVE  WriteInv'
<1>1. PlanInv' /\ SpoolInv'
  BY ReopenEffect DEF WriteInv, PlanInv, SpoolInv
<1>2. PublishInv'
  <2>1. /\ pc["interval"] = "reopen"
        /\ \A f \in spool.plan : object.data[f] = latest[f]
        /\ ~remote => spool.plan \cap hot = {}
    BY DEF Reopen, WriteInv, PublishInv, Threads
  <2>2. pc'["exit"] \notin GateSteps
    BY ReopenEffect DEF OthersWait, Threads
  <2>3. QED
    BY <2>1, <2>2, ReopenEffect DEF PublishInv, SkipSteps, GateSteps, Threads
<1>3. KeptInv' /\ ReadersCurrent' /\ AnswerInv'
  BY ReopenEffect DEF WriteInv, KeptInv, ReadersCurrent, AnswerInv,
    OthersWait, Threads
<1>4. QED
  BY <1>1, <1>2, <1>3 DEF WriteInv

\* A file leaves the overlay when the archive and the mount's base have it.
LEMMA ForgetWrites ==
  ASSUME CommitInv, WriteInv, NEW t \in Threads, Forget(t)
  PROVE  WriteInv'
<1>1. PlanInv' /\ SpoolInv'
  BY ForgetEffect, SpliceKind, LiveAssumption DEF WriteInv, PlanInv, SpoolInv
<1>2. PublishInv'
  BY ForgetEffect DEF PublishInv, SkipSteps, OthersWait, GateSteps, Threads
<1>3. \A f \in spool.plan : object.data[f] = latest[f]
  BY DEF Forget, WriteInv, PublishInv
<1>4. KeptInv'
  BY <1>3, ForgetEffect DEF WriteInv, KeptInv
<1>5. pc'["exit"] = "off" => pc["exit"] = "off" /\ t = "interval"
  BY ForgetEffect DEF OthersWait, Threads
<1>6. ReadersCurrent'
  <2>1. t = "interval" /\ served # None => \A f \in spool.plan : served.data[f] = latest[f]
    BY DEF Forget, WriteInv, PublishInv
  <2>2. QED
    BY <1>5, <2>1, ForgetEffect DEF WriteInv, ReadersCurrent
<1>7. AnswerInv'
  <2>1. t = "interval" => answer' = answer
    BY DEF Forget, Return
  <2>2. QED
    BY <1>5, <2>1, ForgetEffect DEF WriteInv, AnswerInv
<1>8. QED
  BY <1>1, <1>2, <1>4, <1>6, <1>7 DEF WriteInv

\* Nothing is written yet.
LEMMA InitWrites == Init => WriteInv
<1> SUFFICES ASSUME Init PROVE WriteInv
  OBVIOUS
<1>1. PlanInv /\ SpoolInv /\ PublishInv
  BY LiveAssumption, SpliceKind DEF Init, PlanInv, SpoolInv, PublishInv,
    Threads
<1>2. KeptInv /\ ReadersCurrent /\ AnswerInv
  BY DEF Init, Empty, KeptInv, ReadersCurrent, AnswerInv, Threads
<1>3. QED
  BY <1>1, <1>2 DEF WriteInv

\* Each action by its lemma.
LEMMA NextWrites ==
  ASSUME ~RewriteStashed, CommitInv, WriteInv, [Next]_liveVars
  PROVE  WriteInv'
<1>1. ASSUME NEW t \in Threads, Commit(t) PROVE WriteInv'
  BY <1>1, QuietCommit, QuietWrites, HeadWrites, PersistWrites, GetWrites,
    CompareWrites, SpliceWrites, PutWrites, ForgetWrites DEF Commit
<1>2. CASE Tick
  BY <1>1, <1>2, QuietTick, QuietWrites, ReopenWrites DEF Tick, Threads
<1>3. CASE Exit
  BY <1>1, <1>3, QuietExit, QuietWrites DEF Exit, Threads
<1>4. CASE UNCHANGED liveVars
  <2>1. Quietly
    BY <1>4 DEF Quietly, liveVars, mount, files, request
  <2>2. QED
    BY <2>1, QuietWrites
<1>5. QED
  BY <1>2, <1>3, <1>4, WriteWrites, ForeignWrites, QuietMount, QuietWrites
    DEF Next, Stopped

\* WriteInv is an invariant when no file changes under its stashed splice.
THEOREM WriteInvariance ==
  ASSUME ~RewriteStashed
  PROVE  LiveSpec => [](CommitInv /\ WriteInv)
<1>1. CommitInv /\ WriteInv /\ [Next]_liveVars => (CommitInv /\ WriteInv)'
  BY NextCommit, NextWrites
<1>2. QED
  BY <1>1, InitCommit, InitWrites, PTL DEF LiveSpec

\* The last write of every file is in the overlay or in the archive, at every
\* step of a commit, whichever call fails.
THEOREM NothingLostHolds ==
  ASSUME ~RewriteStashed
  PROVE  LiveSpec => []NothingLost
<1>1. WriteInv => NothingLost
  BY DEF WriteInv, KeptInv, NothingLost
<1>2. QED
  BY <1>1, WriteInvariance, PTL

\* A reader of the mount sees the last write of every file, also between the
\* reopen and the forget, unless the mount serves no base.
THEOREM ReadersCurrentHolds ==
  ASSUME ~RewriteStashed
  PROVE  LiveSpec => []ReadersCurrent
<1>1. WriteInv => ReadersCurrent
  BY DEF WriteInv
<1>2. QED
  BY <1>1, WriteInvariance, PTL

\* An exit commit of a local archive that answers "ok" or "nothing" left no
\* write out.
THEOREM ExitCommitsAllHolds ==
  ASSUME ~RewriteStashed
  PROVE  LiveSpec => []ExitCommitsAll
<1>1. WriteInv => ExitCommitsAll
  BY DEF WriteInv, AnswerInv, ExitCommitsAll
<1>2. QED
  BY <1>1, WriteInvariance, PTL

-----------------------------------------------------------------------------
(* OnceInv: no version is appended twice.                                  *)

\* Versions are numbers.
LEMMA OldNumbers ==
  ASSUME CommitInv
  PROVE  \A f \in Files : object.data[f] \in Nat /\ latest[f] \in Nat /\ overlay[f] \in Nat
BY BodyData, LiveAssumption DEF CommitInv, BodyTypes, FileTypes

\* A quiet step keeps the spool and the object.
LEMMA QuietStash ==
  ASSUME OldInv, StashInv, MatchInv, Quietly
  PROVE  OldInv' /\ StashInv' /\ MatchInv'
BY DEF Quietly, OldInv, StashInv, MatchInv, Fresh, SkipSteps

\* A tick starts no commit of a disabled mount.
LEMMA TickJoin ==
  ASSUME CommitInv, JoinInv, TickStart \/ TickBegin \/ TickCheck \/ PlanIdle
  PROVE  JoinInv'
<1>1. /\ UNCHANGED <<overlay, object, spool, remote, joinsFirst, term,
                     disabled>>
      /\ pc'["exit"] = pc["exit"]
      /\ pc'["interval"] \notin {"persist", "reopen", "forget"}
      /\ pc["interval"] \notin {"reopen", "forget"}
      /\ pc["interval"] = "off" => ~term
  BY DEF TickStart, TickBegin, TickCheck, PlanIdle, Goto, CommitInv,
    StepTypes, Threads, files, mount, flags
<1>2. QED
  BY <1>1 DEF JoinInv, Threads

\* The exit commit starts after the interval thread has ended.
LEMMA ExitJoin ==
  ASSUME CommitInv, JoinInv, \/ ExitStart \/ WaitLock \/ WaitLoad \/ WaitEnter \/ Woken
                             \/ WaitTimesOut \/ ExitRecheck \/ ExitBegin
  PROVE  JoinInv'
<1>1. /\ UNCHANGED <<overlay, object, spool, remote, joinsFirst, term,
                     disabled>>
      /\ pc'["interval"] = pc["interval"]
      /\ pc'["exit"] \notin {"persist", "reopen", "forget"}
      /\ pc["exit"] \notin {"drop", "notify", "done"}
      /\ pc["exit"] = "off" => term /\ (joinsFirst => pc["interval"] = "off")
  BY DEF ExitStart, WaitLock, WaitLoad, WaitEnter, Woken, WaitTimesOut,
    ExitRecheck, ExitBegin, Goto, Cleared, AfterTimeout, CommitInv,
    StepTypes, Threads, files, mount, flags
<1>2. QED
  BY <1>1 DEF JoinInv, Threads

\* Taking the gate looks at the disabled flag.
LEMMA QuietCommitJoin ==
  ASSUME CommitInv, JoinInv, NEW t \in Threads,
         Lock(t) \/ RemoteFails(t) \/ DropFlag(t) \/ Notify(t)
  PROVE  JoinInv'
<1>1. /\ UNCHANGED <<overlay, object, spool, remote, joinsFirst, term,
                     disabled>>
      /\ \A u \in Threads \ {t} : pc'[u] = pc[u]
      /\ pc[t] \notin {"off", "reopen", "forget", "done"} /\ pc'[t] \notin {"reopen", "forget"}
      /\ pc'[t] = "persist" => ~disabled
      /\ pc[t] \in {"drop", "notify"} /\ t = "exit" => pc'[t] \in {"notify", "done"}
      /\ t = "exit" => pc'[t] # "off"
  BY DEF Lock, RemoteFails, DropFlag, Notify, Return, Goto, CommitInv,
    StepTypes, Threads, files, mount, flags
<1>2. QED
  BY <1>1 DEF JoinInv, Threads

\* The mount changes neither thread.
LEMMA MountJoin ==
  ASSUME CommitInv, JoinInv, Term \/ \E f \in Files : Settle(f)
  PROVE  JoinInv'
<1>1. CASE Term
  BY <1>1 DEF Term, JoinInv, files, flags
<1>2. CASE \E f \in Files : Settle(f)
  BY <1>2 DEF Settle, JoinInv, mount, flags
<1>3. QED
  BY <1>1, <1>2

\* Remote steps are no business of a local archive.
LEMMA RemoteJoin ==
  ASSUME CommitInv, NEW t \in Threads,
         Head(t) \/ Get(t) \/ Compare(t) \/ Splice(t) \/ SpliceFails(t) \/ Put(t)
  PROVE  JoinInv'
<1>1. remote /\ remote' = remote
  BY DEF Head, Get, Compare, Splice, SpliceFails, Put, CommitInv, KindInv,
    RemoteSteps, mount
<1>2. QED
  BY <1>1 DEF JoinInv

\* The number of a new write is in no archive.
LEMMA WriteOnce ==
  ASSUME CommitInv, WriteInv, OnceInv, NEW f \in Files, Write(f)
  PROVE  OnceInv'
<1> DEFINE v == Max({latest[g] : g \in Files}) + 1
<1>1. /\ v \in Nat /\ \A g \in Files : latest[g] < v
      /\ overlay' = [overlay EXCEPT ![f] = v] /\ latest' = [latest EXCEPT ![f] = v]
  BY NextVersion, OldNumbers DEF Write, CommitInv
<1> HIDE DEF v
<1>2. \A g \in Files : IF g = f THEN overlay'[g] = v /\ latest'[g] = v
                       ELSE overlay'[g] = overlay[g] /\ latest'[g] = latest[g]
  BY <1>1 DEF CommitInv, FileTypes
<1>3. UNCHANGED <<object, spool, pc, head, skip, remote, store, joinsFirst,
                  term,
                  disabled>>
  BY DEF Write, mount, request, flags
<1>4. object.data[f] < v
  BY <1>1, OldNumbers DEF OnceInv, OldInv
<1>5. OldInv'
  BY <1>2, <1>3, <1>4, <1>1, OldNumbers DEF OnceInv, OldInv
<1>6. \A g \in Files : overlay'[g] # 0 /\ overlay'[g] = object.data[g]
                       => overlay[g] # 0 /\ overlay[g] = object.data[g]
  BY <1>1, <1>2, <1>4, OldNumbers
<1>7. StashInv' /\ MatchInv'
  <2>1. \A b, some : some \in SUBSET Files /\ Fresh(b, some)
          /\ (f \in some => b.data[f] = object.data[f])
          => \A g \in some : overlay'[g] # 0 => overlay'[g] # b.data[g]
    BY <1>1, <1>2, <1>4, OldNumbers DEF Fresh
  <2>2. remote /\ spool \in Downloads /\ Clean(spool.body) =>
          \A g \in Files : overlay'[g] # 0 => overlay'[g] # spool.body.data[g]
    BY <2>1 DEF WriteInv, SpoolInv, OnceInv, StashInv
  <2>3. remote /\ spool \in Splices /\ Clean(spool.body) =>
          \A g \in Files \ spool.plan : overlay'[g] # 0 => overlay'[g] # spool.body.data[g]
    <3>1. Files \ spool.plan \in SUBSET Files
      OBVIOUS
    <3>2. QED
      BY <2>1, <3>1 DEF WriteInv, SpoolInv, OnceInv, StashInv
  <2>4. QED
    BY <1>3, <1>6, <2>2, <2>3 DEF OnceInv, StashInv, MatchInv, Clean, Fresh
<1>8. JoinInv'
  BY <1>3, <1>6 DEF OnceInv, JoinInv
<1>9. QED
  BY <1>5, <1>7, <1>8 DEF OnceInv

\* Another program's commit ends the undisturbed time.
LEMMA ForeignOnce ==
  ASSUME CommitInv, OnceInv, Foreign
  PROVE  OnceInv'
<1>1. /\ UNCHANGED <<overlay, latest, remote, store, spool, pc>> /\ remote
      /\ \A f \in Files : object'.data[f] = object.data[f]
      /\ object'.data[Other] # 0
  BY ForeignBody, BodyData DEF Foreign, CommitInv, BodyTypes, files, mount
<1>2. QED
  BY <1>1 DEF OnceInv, OldInv, StashInv, MatchInv, JoinInv, Clean, Fresh

\* A local commit appends what the archive does not have.
LEMMA PersistOnce ==
  ASSUME CommitInv, WriteInv, OnceInv, NEW t \in Threads, Persist(t)
  PROVE  OnceInv'
<1>1. /\ \A f \in PlanOf(t) : overlay[f] # 0 /\ f \in Files
      /\ \A f \in PlanOf(t) : With(object, PlanOf(t)).data[f] = latest[f]
      /\ \A f \in Files \ PlanOf(t) : With(object, PlanOf(t)).data[f] = object.data[f]
  BY WithBody, PlanFiles DEF CommitInv, BodyTypes, WriteInv, KeptInv
<1>2. OldInv'
  BY <1>1, PersistEffect, OldNumbers DEF OnceInv, OldInv
<1>3. StashInv' /\ MatchInv'
  BY PersistEffect DEF StashInv, MatchInv
<1>4. JoinInv'
  <2>1. SUFFICES ASSUME ~remote, joinsFirst PROVE JoinInv'
    BY PersistEffect DEF JoinInv, Persist, mount
  <2>2. /\ pc[t] = "persist" /\ ~disabled /\ term' = term
        /\ \A u \in Threads \ {t} : pc'[u] = pc[u] /\ pc[u] \notin GateSteps
    BY <2>1, PersistEffect DEF Persist, OnceInv, JoinInv, OthersWait, mount
  <2>3. \A f \in Files : overlay[f] # 0 => overlay[f] # object.data[f]
    BY <2>1, <2>2 DEF OnceInv, JoinInv, GateSteps, Threads
  <2>4. object'.again = 0
    <3>1. With(object, PlanOf(t)).again = object.again
      BY <1>1, <2>3, WithBody, PlanFiles DEF CommitInv, BodyTypes
    <3>2. QED
      BY <2>1, <3>1, PersistEffect DEF OnceInv, JoinInv
  <2>5. pc'["exit"] # "off" => term' /\ pc'["interval"] = "off"
    BY <2>1, <2>2, PersistEffect DEF OnceInv, JoinInv, Threads
  <2>6. disabled' => \A u \in Threads : pc'[u] \notin {"persist", "reopen", "forget"}
    <3>1. disabled' => pc'[t] = "drop"
      BY <2>2, PersistEffect
    <3>2. QED
      BY <2>2, <3>1 DEF GateSteps
  <2>7. ASSUME NEW f \in Files, ~disabled', overlay'[f] # 0, overlay'[f] = object'.data[f]
        PROVE  \/ pc'["interval"] \in {"reopen", "forget"} /\ f \in spool'.plan
               \/ pc'["exit"] \in {"drop", "notify", "done"}
    <3>1. object' = With(object, PlanOf(t)) /\ f \in PlanOf(t)
      BY <1>1, <2>3, <2>7, PersistEffect
    <3>2. \/ pc'[t] = "reopen" /\ spool'.plan = PlanOf(t) /\ t = "interval"
          \/ pc'[t] = "drop" /\ t = "exit"
      BY <2>3, <2>7, <3>1, PersistEffect
    <3>3. QED
      BY <3>1, <3>2, PersistEffect
  <2>8. QED
    BY <2>4, <2>5, <2>6, <2>7 DEF JoinInv
<1>5. QED
  BY <1>2, <1>3, <1>4 DEF OnceInv

\* The HEAD answers the object.
LEMMA HeadOnce ==
  ASSUME CommitInv, OnceInv, NEW t \in Threads, Head(t)
  PROVE  OnceInv'
<1>1. OldInv'
  BY HeadEffect DEF OnceInv, OldInv
<1>2. StashInv'
  BY HeadEffect DEF OnceInv, StashInv, Clean, Fresh, OthersWait, GateSteps
<1>3. MatchInv'
  BY HeadEffect DEF OnceInv, MatchInv, SameEtag, OthersWait, GateSteps
<1>4. QED
  BY <1>1, <1>2, <1>3, RemoteJoin DEF OnceInv

\* The GET answers what the HEAD did.
LEMMA GetOnce ==
  ASSUME CommitInv, OnceInv, NEW t \in Threads, Get(t)
  PROVE  OnceInv'
<1>1. OldInv'
  BY GetEffect DEF OnceInv, OldInv
<1>2. StashInv'
  BY GetEffect, DownloadKind DEF Get, OnceInv, StashInv, Clean, Fresh,
    OthersWait, GateSteps
<1>3. MatchInv'
  BY GetEffect DEF Get, OnceInv, MatchInv, OthersWait, GateSteps
<1>4. QED
  BY <1>1, <1>2, <1>3, RemoteJoin DEF OnceInv

\* A clean object is our own PUT, or has no version of the overlay.
LEMMA CompareOnce ==
  ASSUME CommitInv, OnceInv, NEW t \in Threads, Compare(t)
  PROVE  OnceInv'
<1>1. OldInv'
  BY CompareEffect DEF OnceInv, OldInv
<1>2. StashInv'
  <2>1. CASE spool' = spool
    BY <2>1, CompareEffect, DownloadKind DEF OnceInv, StashInv, Fresh,
      OthersWait, GateSteps
  <2>2. CASE spool' # spool
    <3>1. Clean(object) => Fresh(object, Files) /\ object.again = 0
      BY <2>2, CompareEffect DEF Compare, CommitInv, KindInv, RemoteSteps,
        OnceInv, StashInv, Fresh
    <3>2. /\ spool' \in Downloads /\ spool' \notin Splices /\ spool'.body = object
      BY <2>2, CompareEffect, DownloadKind
    <3>3. QED
      BY <3>1, <3>2, CompareEffect DEF OnceInv, StashInv, Fresh, OthersWait,
        GateSteps
  <2>3. QED
    BY <2>1, <2>2
<1>3. MatchInv'
  BY CompareEffect, DownloadKind DEF Compare, OnceInv, MatchInv, OthersWait,
    GateSteps
<1>4. QED
  BY <1>1, <1>2, <1>3, RemoteJoin DEF OnceInv

\* A clean download has no version of the overlay.
LEMMA SpliceOnce ==
  ASSUME CommitInv, WriteInv, OnceInv, NEW t \in Threads, Splice(t)
  PROVE  OnceInv'
<1>1. OldInv'
  BY SpliceEffect DEF OnceInv, OldInv
<1>2. StashInv'
  <2>1. CASE spool' = spool
    BY <2>1, SpliceEffect DEF OnceInv, StashInv, Fresh, OthersWait, GateSteps
  <2>2. CASE spool' # spool
    <3>1. /\ spool' \in Splices /\ spool' \notin Downloads /\ spool'.plan = PlanOf(t)
          /\ spool'.body = With(spool.body, PlanOf(t))
      BY <2>2, SpliceEffect, SpliceKind
    <3>2. /\ spool'.body.data[Other] = spool.body.data[Other]
          /\ \A f \in Files \ PlanOf(t) : spool'.body.data[f] = spool.body.data[f]
          /\ Fresh(spool.body, Files) => spool'.body.again = spool.body.again
      BY <3>1, SpliceEffect, DownloadKind, WithBody, PlanFiles DEF CommitInv,
        Fresh
    <3>3. Clean(spool'.body) =>
            spool'.body.again = 0 /\ Fresh(spool'.body, Files \ PlanOf(t))
      BY <3>2, SpliceEffect DEF OnceInv, StashInv, Clean, Fresh
    <3>4. Clean(object) => Fresh(object, Files) /\ object.again = 0
      BY SpliceEffect, DownloadKind DEF OnceInv, StashInv, Fresh
    <3>5. QED
      BY <3>1, <3>3, <3>4, SpliceEffect DEF OnceInv, StashInv, Fresh,
        OthersWait, GateSteps
  <2>3. QED
    BY <2>1, <2>2
<1>3. MatchInv'
  BY SpliceEffect, SpliceKind DEF OnceInv, MatchInv, OthersWait, GateSteps
<1>4. QED
  BY <1>1, <1>2, <1>3, RemoteJoin DEF OnceInv

\* The PUT stores the splice; it is refused only if another program was there.
LEMMA PutOnce ==
  ASSUME CommitInv, WriteInv, OnceInv, NEW t \in Threads, Put(t)
  PROVE  OnceInv'
<1>1. /\ \A f \in spool.plan : spool.body.data[f] = latest[f]
      /\ \A f \in Files \ spool.plan : object.data[f] = spool.body.data[f]
  BY PutEffect DEF WriteInv, PlanInv, SpoolInv
<1>2. OldInv'
  BY <1>1, PutEffect, OldNumbers DEF OnceInv, OldInv
<1>3. /\ spool \in Splices /\ spool \notin Downloads /\ remote
      /\ \A u \in Threads : pc'[u] \notin SkipSteps
      /\ None \notin Splices /\ None \notin Downloads
  BY PutEffect, SpliceKind, LiveAssumption DEF Published, OthersWait,
    GateSteps, SkipSteps
<1>4. MatchInv'
  BY <1>3, PutEffect DEF MatchInv, SkipSteps
<1>5. StashInv'
  <2>1. CASE skip
    BY <1>3, <2>1, PutEffect DEF OnceInv, StashInv, Fresh, SkipSteps
  <2>2. CASE ~skip /\ Accepted
    BY <1>3, <2>2, PutEffect DEF OnceInv, StashInv, Fresh, SkipSteps
  <2>3. CASE ~skip /\ ~Accepted
    <3>1. ~Clean(object)
      BY <1>3, <2>3 DEF Put, Accepted, OnceInv, MatchInv
    <3>2. QED
      BY <1>3, <2>3, <3>1, PutEffect DEF StashInv, SkipSteps
  <2>4. QED
    BY <2>1, <2>2, <2>3 DEF CommitInv, SwitchTypes
<1>6. QED
  BY <1>2, <1>4, <1>5, RemoteJoin DEF OnceInv

\* The reopen keeps the spool for the forget.
LEMMA ReopenOnce ==
  ASSUME CommitInv, OnceInv, Reopen
  PROVE  OnceInv'
<1>1. OldInv'
  BY ReopenEffect DEF OnceInv, OldInv
<1>2. StashInv' /\ MatchInv'
  <2>1. StashInv'
    BY ReopenEffect DEF OnceInv, StashInv, Fresh, OthersWait, GateSteps, Threads
  <2>2. MatchInv'
    BY ReopenEffect DEF OnceInv, MatchInv, OthersWait, GateSteps, Threads
  <2>3. QED
    BY <2>1, <2>2
<1>3. JoinInv'
  <2>1. term' = term /\ joinsFirst' = joinsFirst
    BY DEF Reopen, mount
  <2>2. QED
    BY <2>1, ReopenEffect DEF Reopen, OnceInv, JoinInv, OthersWait,
      GateSteps, Threads
<1>4. QED
  BY <1>1, <1>2, <1>3 DEF OnceInv

\* What leaves the overlay is in the object.
LEMMA ForgetOnce ==
  ASSUME CommitInv, OnceInv, NEW t \in Threads, Forget(t)
  PROVE  OnceInv'
<1>1. OldInv'
  BY ForgetEffect DEF OnceInv, OldInv
<1>2. \A f \in Files : overlay'[f] # 0 => overlay'[f] = overlay[f]
  BY ForgetEffect
<1>3. StashInv' /\ MatchInv'
  <2>1. \A u \in Threads : pc'[u] \notin SkipSteps
    BY ForgetEffect DEF OthersWait, GateSteps, SkipSteps
  <2>2. None \notin Splices /\ None \notin Downloads
    BY LiveAssumption
  <2>3. MatchInv'
    BY <2>1, <2>2, ForgetEffect DEF OnceInv, MatchInv, SkipSteps
  <2>4. \A b, some : some \in SUBSET Files /\ Fresh(b, some) =>
          \A f \in some : overlay'[f] # 0 => overlay'[f] # b.data[f]
    BY <1>2 DEF Fresh
  <2>5. remote /\ Clean(object) =>
          \A f \in Files : overlay'[f] # 0 /\ overlay'[f] = object.data[f]
            => spool' = spool /\ f \in spool.plan /\ object = spool.body
    BY <1>2, ForgetEffect DEF OnceInv, StashInv
  <2>6. StashInv'
    BY <2>1, <2>2, <2>4, <2>5, ForgetEffect, SpliceKind DEF OnceInv, StashInv,
      Fresh, SkipSteps
  <2>7. QED
    BY <2>3, <2>6
<1>4. JoinInv'
  <2>1. SUFFICES ASSUME ~remote, joinsFirst PROVE JoinInv'
    BY ForgetEffect DEF JoinInv, Forget, mount
  <2>2. /\ t = "interval" /\ pc[t] = "forget" /\ term' = term
        /\ pc["exit"] = "off" /\ ~disabled
    BY <2>1 DEF Forget, OnceInv, JoinInv, CommitInv, KindInv, Threads, mount
  <2>3. disabled' \/ \A f \in spool.plan : overlay'[f] = 0
    BY <2>2, ForgetEffect, SpliceKind DEF Forget, Forgotten
  <2>4. QED
    BY <1>2, <2>1, <2>2, <2>3, ForgetEffect DEF OnceInv, JoinInv, OthersWait,
      GateSteps, Threads
<1>5. QED
  BY <1>1, <1>3, <1>4 DEF OnceInv

\* Nothing is appended yet.
LEMMA InitOnce == Init => OnceInv
<1> SUFFICES ASSUME Init PROVE OnceInv
  OBVIOUS
<1>1. OldInv /\ JoinInv
  BY DEF Init, Empty, OldInv, JoinInv, Threads
<1>2. StashInv /\ MatchInv
  BY LiveAssumption, SpliceKind, DownloadKind DEF Init, Empty, StashInv,
    MatchInv, Threads
<1>3. QED
  BY <1>1, <1>2 DEF OnceInv

\* Each action by its lemma.
LEMMA NextOnce ==
  ASSUME CommitInv, WriteInv, OnceInv, [Next]_liveVars
  PROVE  OnceInv'
<1>1. ASSUME NEW t \in Threads, Commit(t) PROVE OnceInv'
  BY <1>1, QuietCommit, QuietStash, QuietCommitJoin, RemoteJoin, HeadOnce,
    PersistOnce, GetOnce, CompareOnce, SpliceOnce, PutOnce, ForgetOnce DEF
    Commit, OnceInv
<1>2. CASE Tick
  BY <1>1, <1>2, QuietTick, QuietStash, TickJoin, ReopenOnce DEF Tick,
    Threads, OnceInv
<1>3. CASE Exit
  BY <1>1, <1>3, QuietExit, QuietStash, ExitJoin DEF Exit, Threads, OnceInv
<1>4. CASE UNCHANGED liveVars
  BY <1>4 DEF OnceInv, OldInv, StashInv, MatchInv, JoinInv, Fresh, liveVars,
    mount, files, flags, request
<1>5. CASE Term \/ \E f \in Files : Settle(f)
  BY <1>5, QuietMount, QuietStash, MountJoin DEF OnceInv
<1>6. QED
  BY <1>2, <1>3, <1>4, <1>5, WriteOnce, ForeignOnce DEF Next, Stopped

\* OnceInv is an invariant under the same hypothesis.
THEOREM OnceInvariance ==
  ASSUME ~RewriteStashed
  PROVE  LiveSpec => []OnceInv
<1>1. CommitInv /\ WriteInv /\ OnceInv /\ [Next]_liveVars => OnceInv'
  BY NextOnce
<1>2. QED
  BY <1>1, WriteInvariance, InitOnce, PTL DEF LiveSpec

\* A commit that failed after its PUT or its write, and is retried, appends no
\* version a second time, unless another program was at work.
THEOREM AppendOnceHolds ==
  ASSUME ~RewriteStashed
  PROVE  LiveSpec => []AppendOnce
<1>1. CommitInv /\ OnceInv => AppendOnce
  BY DEF CommitInv, SwitchTypes, OnceInv, StashInv, JoinInv, Clean, AppendOnce
<1>2. QED
  BY <1>1, CommitInvariance, OnceInvariance, PTL

=============================================================================
