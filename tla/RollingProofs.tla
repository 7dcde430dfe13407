--------------------------- MODULE RollingProofs ---------------------------
(***************************************************************************)
(* Proofs about RollingSeries, for every set of names, every number of     *)
(* generations and every bound.                                            *)
(*                                                                         *)
(* That a remount shows the last write needs four things about the series  *)
(* (RollInv): an archive that is not in the folder, or that the mount does *)
(* not know, is empty (MembersInv); the archives the mount reads are the   *)
(* files, but for the active one between a commit's write and its reopen   *)
(* and after a reopen that failed, and then the overlay still covers what  *)
(* differs (SourceInv), or the name was removed since and is one of the    *)
(* loose ones, which no archive the mount reads shows (LooseInv); and a    *)
(* plan under way deletes only what no sealed archive shows (PlanInv).     *)
(***************************************************************************)
EXTENDS RollingSeries, WellFoundedInduction, TLAPS

Plans == [exit : BOOLEAN, append : SUBSET Names, delete : SUBSET Names,
          attrs : SUBSET Names, defer : BOOLEAN]

HostTypes ==
    /\ files \subseteq Gens /\ content \in [Gens -> Tree]
    /\ members \subseteq Gens /\ source \in [Gens -> Tree]

OverlayTypes ==
    /\ upper \in Tree /\ tomb \subseteq Names /\ attrs \subseteq Names
    /\ tree \in Tree /\ loose \subseteq Names /\ fresh \in Versions
    /\ \A n \in Names : upper[n] # Nothing => n \notin tomb

CommitTypes ==
    /\ mounted \in BOOLEAN /\ disabled \in BOOLEAN /\ empty \in BOOLEAN
    /\ base \in {"series", "failed"} /\ unopened \in BOOLEAN
    /\ pc \in Steps /\ plan \in Plans /\ (pc # "idle" => mounted)

\* An archive that is not in the folder, or that the mount does not know,
\* holds nothing; the active one is in the folder.
MembersInv ==
    /\ \A g \in Gens \ files : content[g] = Empty
    /\ mounted =>
         /\ members # {} /\ Active \in files
         /\ \A g \in files \ members : content[g] = Empty
         /\ \A g \in Gens \ members : source[g] = Empty
         /\ ~unopened => files \subseteq members

\* A series that is not mounted has lost nothing yet.
RestInv == ~mounted => base = "series" /\ ~disabled

Covered(n) == upper[n] # Nothing \/ n \in tomb

\* The mount's archives hold what the files hold.  The active one is behind
\* from a commit's write to its reopen, and for good if that fails; the
\* overlay covers the names this is about, or one of them was removed since.
SourceInv ==
    mounted =>
      /\ \A g \in Sealed : source[g] = content[g]
      /\ source[Active] # content[Active] => pc = "reopen" \/ disabled
      /\ base = "failed" => disabled
      /\ base = "series" => \A n \in Names :
           source[Active][n] # content[Active][n] => Covered(n) \/ n \in loose

\* A name is removed without a tombstone only while the mount's base is not
\* the archive on disk, which has stopped the commits; no archive the mount
\* still reads shows it.
LooseInv ==
    /\ \A n \in loose : ~Covered(n) /\ tree[n] = Nothing
    /\ mounted /\ loose # {} => disabled
    /\ mounted /\ base = "series" => \A n \in loose, g \in Live : source[g][n] = Nothing

\* What the plan of a commit under way says of the overlay and the archives.
PlanInv ==
    pc # "idle" =>
      /\ ~disabled /\ tomb \subseteq plan.delete /\ tomb \cap plan.append = {}
      /\ pc # "forget" => /\ \A n \in plan.append : upper[n] # Nothing
                          /\ plan.delete \subseteq tomb \cup plan.append
      /\ \A n \in plan.delete \ plan.append, g \in Sealed : source[g][n] = Nothing
      /\ \A n \in attrs : n \in plan.attrs \/ (n \notin plan.append /\ upper[n] # Nothing)
      /\ pc = "prepare" /\ ~plan.defer =>
           /\ plan.attrs \subseteq plan.append
           /\ \A n \in plan.delete \ plan.append : source[Active][n] = Nothing
      /\ pc \in {"reopen", "forget"} =>
           /\ \A n \in plan.append : upper[n] \in {Nothing, content[Active][n]}
           /\ \A n \in plan.delete \ plan.append : content[Active][n] = Nothing

RollInv == HostTypes /\ OverlayTypes /\ CommitTypes /\ MembersInv /\ RestInv
           /\ SourceInv /\ LooseInv /\ PlanInv /\ RemountShowsLatest /\ AcceptedCommits

-----------------------------------------------------------------------------
(* The largest generation, and the newest copy of a name.                  *)

\* A set of naturals has a least element.
LEMMA Least ==
  ASSUME NEW T, T \subseteq Nat, T # {}
  PROVE  \E x \in T : \A y \in T : x <= y
<1>1. PICK x \in T : \A y \in T : ~ (<<y, x>> \in OpToRel(<, Nat))
  BY NatLessThanWellFounded, WFMin
<1>2. \A y \in T : ~(y < x)
  BY <1>1 DEF OpToRel
<1>3. QED
  BY <1>2

\* So a set of generations has a largest.
LEMMA MaxOfGens ==
  ASSUME NEW S, S \subseteq Gens, S # {}
  PROVE  MaxOf(S) \in S /\ \A h \in S : h <= MaxOf(S)
<1> DEFINE T == {MaxGen - g : g \in S}
<1>1. T \subseteq Nat /\ T # {}
  BY RollAssumption DEF Gens
<1>2. PICK t \in T : \A u \in T : t <= u
  BY <1>1, Least
<1>3. PICK g \in S : t = MaxGen - g
  BY <1>2
<1>4. \A h \in S : h <= g
  <2>1. TAKE h \in S
  <2>2. MaxGen - h \in T /\ g \in Nat /\ h \in Nat /\ MaxGen \in Nat
    BY RollAssumption DEF Gens
  <2>3. MaxGen - g <= MaxGen - h
    BY <1>2, <1>3, <2>2
  <2>4. QED
    BY <2>2, <2>3
<1>5. QED
  BY <1>4 DEF MaxOf

\* There is one largest.
LEMMA MaxOfIs ==
  ASSUME NEW S, S \subseteq Gens, NEW g \in S, \A h \in S : h <= g
  PROVE  MaxOf(S) = g
<1>1. MaxOf(S) \in S /\ g <= MaxOf(S) /\ MaxOf(S) <= g
  BY MaxOfGens
<1>2. MaxOf(S) \in Gens /\ g \in Gens
  BY <1>1
<1>3. QED
  BY <1>1, <1>2, RollAssumption DEF Gens

\* The union shows the copy of the largest generation that has one.
LEMMA NewestShown ==
  ASSUME NEW S \in SUBSET Gens, NEW in \in [Gens -> Tree], NEW n \in Names,
         NEW g \in S, in[g][n] # Nothing
  PROVE  \E h \in S : /\ in[h][n] # Nothing /\ Newest(S, in, n) = in[h][n]
                      /\ \A k \in S : in[k][n] # Nothing => k <= h
<1> DEFINE holding == {k \in S : in[k][n] # Nothing}
<1>1. holding # {} /\ holding \subseteq Gens
  OBVIOUS
<1>2. MaxOf(holding) \in holding /\ \A h \in holding : h <= MaxOf(holding)
  BY <1>1, MaxOfGens
<1>3. Newest(S, in, n) = in[MaxOf(holding)][n]
  BY <1>1 DEF Newest
<1>4. QED
  BY <1>2, <1>3

\* A copy in a generation above all others is shown.
LEMMA NewestTop ==
  ASSUME NEW S, S \subseteq Gens, NEW in, NEW n, NEW a \in S, in[a][n] # Nothing,
         \A g \in S : in[g][n] # Nothing => g <= a
  PROVE  Newest(S, in, n) = in[a][n]
<1> DEFINE holding == {g \in S : in[g][n] # Nothing}
<1>1. MaxOf(holding) = a
  BY MaxOfIs
<1>2. QED
  BY <1>1 DEF Newest

\* Without a copy nothing is shown.
LEMMA NewestNone ==
  ASSUME NEW S, NEW in, NEW n, \A g \in S : in[g][n] = Nothing
  PROVE  Newest(S, in, n) = Nothing
<1>1. {g \in S : in[g][n] # Nothing} = {}
  OBVIOUS
<1>2. QED
  BY <1>1 DEF Newest

\* It depends on the copies there are.
LEMMA NewestSame ==
  ASSUME NEW S1, NEW S2, S1 \subseteq Gens, S2 \subseteq Gens, NEW in1, NEW in2, NEW n,
         \A g \in Gens : (g \in S1 /\ in1[g][n] # Nothing) <=> (g \in S2 /\ in2[g][n] # Nothing),
         \A g \in S1 \cap S2 : in1[g][n] # Nothing => in1[g][n] = in2[g][n]
  PROVE  Newest(S1, in1, n) = Newest(S2, in2, n)
<1> DEFINE held1 == {g \in S1 : in1[g][n] # Nothing}
           held2 == {g \in S2 : in2[g][n] # Nothing}
<1>1. held1 = held2
  OBVIOUS
<1>2. CASE held1 = {}
  BY <1>1, <1>2 DEF Newest
<1>3. CASE held1 # {}
  <2>1. MaxOf(held1) \in held1
    BY <1>3, MaxOfGens
  <2>2. in1[MaxOf(held1)][n] = in2[MaxOf(held1)][n]
    BY <1>1, <2>1
  <2>3. QED
    BY <1>1, <1>3, <2>2 DEF Newest
<1>4. QED
  BY <1>2, <1>3

\* Where nothing is shown there is no copy.
LEMMA NewestNothing ==
  ASSUME NEW S \in SUBSET Gens, NEW in \in [Gens -> Tree], NEW n \in Names,
         Newest(S, in, n) = Nothing
  PROVE  \A g \in S : in[g][n] = Nothing
<1>1. SUFFICES ASSUME NEW g \in S, in[g][n] # Nothing PROVE FALSE
  OBVIOUS
<1>2. \E h \in S : in[h][n] # Nothing /\ Newest(S, in, n) = in[h][n]
  BY <1>1, NewestShown
<1>3. QED
  BY <1>2

\* It is a version of the name, or nothing.
LEMMA NewestType ==
  ASSUME NEW S, S \subseteq Gens, NEW in \in [Gens -> Tree], NEW n \in Names
  PROVE  Newest(S, in, n) \in Versions
<1>1. Nothing \in Versions /\ \A g \in S : in[g][n] \in Versions
  BY RollAssumption DEF Versions, Nothing, Tree
<1>2. CASE \A g \in S : in[g][n] = Nothing
  BY <1>1, <1>2, NewestNone
<1>3. CASE \E g \in S : in[g][n] # Nothing
  <2>1. PICK g \in S : in[g][n] # Nothing
    BY <1>3
  <2>2. \E h \in S : Newest(S, in, n) = in[h][n]
    BY <2>1, NewestShown
  <2>3. QED
    BY <1>1, <2>2
<1>4. QED
  BY <1>2, <1>3

\* An archive without a copy adds nothing.
LEMMA NewestGrow ==
  ASSUME NEW S, S \subseteq Gens, NEW a \in Gens, NEW in, NEW n, in[a][n] = Nothing
  PROVE  Newest(S \cup {a}, in, n) = Newest(S, in, n)
BY NewestSame

\* What a deleted archive held does not matter any more.
LEMMA NewestCleared ==
  ASSUME NEW S, S \subseteq Gens, NEW in, NEW out, NEW n,
         \A h \in S : out[h][n] = in[h][n]
  PROVE  Newest(S, out, n) = Newest(S, in, n)
BY NewestSame

\* Deleting an archive whose copy is not shown changes nothing.
LEMMA NewestShrink ==
  ASSUME NEW S \in SUBSET Gens, NEW d \in S, NEW in \in [Gens -> Tree], NEW n \in Names,
         Newest(S, in, n) # in[d][n]
  PROVE  Newest(S \ {d}, in, n) = Newest(S, in, n)
<1> DEFINE holding == {k \in S : in[k][n] # Nothing}
           m == MaxOf(holding)
<1>1. CASE holding = {}
  BY <1>1, NewestNone
<1>2. CASE holding # {}
  <2>1. m \in holding /\ \A k \in holding : k <= m
    BY <1>2, MaxOfGens
  <2>2. Newest(S, in, n) = in[m][n]
    BY <1>2 DEF Newest
  <2> DEFINE R == S \ {d}
             held == {k \in R : in[k][n] # Nothing}
  <2>3. m \in held /\ held \subseteq Gens /\ \A k \in held : k <= m
    BY <2>1, <2>2
  <2>4. MaxOf(held) = m
    <3> HIDE DEF held, m
    <3>1. QED
      BY <2>3, MaxOfIs
  <2>5. Newest(R, in, n) = in[MaxOf(held)][n]
    BY <2>3 DEF Newest
  <2>6. QED
    BY <2>2, <2>4, <2>5
<1>3. QED
  BY <1>1, <1>2

-----------------------------------------------------------------------------
(* Every action keeps the invariant.                                       *)

\* The empty tree and the empty plan.
LEMMA Blank ==
  /\ Empty \in Tree /\ [g \in Gens |-> Empty] \in [Gens -> Tree] /\ NoPlan \in Plans
  /\ \A n \in Names : Empty[n] = Nothing
<1>1. Empty \in Tree /\ \A n \in Names : Empty[n] = Nothing
  BY RollAssumption DEF Empty, Tree, Versions, Nothing
<1>2. NoPlan \in Plans
  BY DEF NoPlan, Plans
<1>3. QED
  BY <1>1, <1>2

\* The mount's active archive is the largest it knows.
LEMMA ActiveIs ==
  ASSUME RollInv, mounted
  PROVE  /\ Active \in Live /\ Active \in Gens /\ Active \in Nat
         /\ \A g \in members : g <= Active
         /\ Live \subseteq Gens /\ Live \subseteq files /\ Sealed = Live \ {Active}
<1>1. members \subseteq Gens /\ members # {} /\ Active \in files
  BY DEF RollInv, HostTypes, MembersInv
<1>2. Active \in members /\ \A g \in members : g <= Active
  BY <1>1, MaxOfGens DEF Active
<1>3. Active \in Nat
  BY <1>1, <1>2, RollAssumption DEF Gens
<1>4. QED
  BY <1>1, <1>2, <1>3 DEF Live, Sealed, RollInv, HostTypes

\* What the mount reads is what a remount would read, for a name whose active
\* copy is the file's.
LEMMA BaseOnDisk ==
  ASSUME RollInv, mounted, base = "series", NEW n \in Names,
         source[Active][n] = content[Active][n]
  PROVE  InBase(n) = Newest(files, content, n)
<1>1. \A g \in Live : source[g][n] = content[g][n]
  BY ActiveIs DEF RollInv, SourceInv
<1>2. \A g \in files \ Live : content[g][n] = Nothing
  BY Blank DEF RollInv, MembersInv, Live
<1>3. Newest(Live, source, n) = Newest(files, content, n)
  BY <1>1, <1>2, ActiveIs, NewestSame DEF RollInv, HostTypes
<1>4. QED
  BY <1>3 DEF InBase

\* The active archive's copy is the newest on disk.
LEMMA DiskTop ==
  ASSUME RollInv, mounted, NEW n \in Names, content[Active][n] # Nothing
  PROVE  Newest(files, content, n) = content[Active][n]
<1>1. \A g \in files : content[g][n] # Nothing => g <= Active
  BY Blank, ActiveIs DEF RollInv, MembersInv
<1>2. files \in SUBSET Gens /\ Active \in files /\ content \in [Gens -> Tree]
  BY ActiveIs DEF RollInv, HostTypes
<1>3. \E h \in files : /\ content[h][n] # Nothing /\ Newest(files, content, n) = content[h][n]
                       /\ \A g \in files : content[g][n] # Nothing => g <= h
  BY <1>2, NewestShown
<1>4. PICK h \in files : /\ content[h][n] # Nothing /\ Newest(files, content, n) = content[h][n]
                         /\ \A g \in files : content[g][n] # Nothing => g <= h
  BY <1>3
<1>5. h <= Active /\ Active <= h /\ h \in Gens /\ Active \in Gens
  BY <1>1, <1>2, <1>4
<1>6. h = Active
  BY <1>5, RollAssumption DEF Gens
<1>7. QED
  BY <1>4, <1>6

\* A name that no archive of the mount holds is not on disk.
LEMMA DiskNone ==
  ASSUME RollInv, mounted, NEW n \in Names, \A g \in Live : content[g][n] = Nothing
  PROVE  Newest(files, content, n) = Nothing
<1>1. \A g \in files : content[g][n] = Nothing
  BY Blank DEF RollInv, MembersInv, Live
<1>2. QED
  BY <1>1, NewestNone

\* The sealed archives on disk are those of the mount.
LEMMA LaterSealed ==
  ASSUME RollInv, mounted, ~unopened
  PROVE  files # {} /\ MaxOf(files) = Active /\ files \ {MaxOf(files)} = Sealed
<1>1. files \subseteq members /\ Active \in files /\ files \subseteq Gens
  BY DEF RollInv, MembersInv, HostTypes
<1>2. MaxOf(files) = Active
  BY <1>1, ActiveIs, MaxOfIs
<1>3. QED
  BY <1>1, <1>2 DEF Sealed, Live

\* A name removed without a tombstone is not shown.
LEMMA LooseUnseen ==
  ASSUME RollInv, mounted, NEW n \in loose
  PROVE  View(n) = Nothing /\ tree[n] = Nothing
<1>1. n \in Names /\ ~Covered(n) /\ tree[n] = Nothing
  BY DEF RollInv, OverlayTypes, LooseInv
<1>2. base = "series" => Newest(Live, source, n) = Nothing
  <2>1. base = "series" => \A g \in Live : source[g][n] = Nothing
    BY DEF RollInv, LooseInv
  <2>2. QED
    BY <2>1, NewestNone
<1>3. InBase(n) = Nothing
  BY <1>2 DEF InBase, RollInv, CommitTypes
<1>4. QED
  BY <1>1, <1>3 DEF Covered, View

\* The view of the mount is what the clients were promised, unless its base
\* was refused: then what it still shows is.
LEMMA ViewIsTree ==
  ASSUME RollInv, mounted, NEW n \in Names, base = "series" \/ View(n) # Nothing
  PROVE  View(n) = tree[n]
<1>1. CASE n \in loose
  BY <1>1, LooseUnseen
<1>2. CASE n \notin loose /\ Covered(n)
  BY <1>2 DEF Covered, View, RollInv, RemountShowsLatest, Remounted
<1>3. CASE n \notin loose /\ ~Covered(n)
  <2>1. base = "series"
    BY <1>3 DEF Covered, View, InBase, RollInv, CommitTypes
  <2>2. source[Active][n] = content[Active][n]
    BY <1>3, <2>1 DEF RollInv, SourceInv
  <2>3. Remounted(n) = tree[n]
    BY <1>3 DEF RollInv, RemountShowsLatest
  <2>4. QED
    BY <1>3, <2>1, <2>2, <2>3, BaseOnDisk DEF Covered, View, Remounted
<1>4. QED
  BY <1>1, <1>2, <1>3

\* A version, or nothing, is what a view shows.
LEMMA ViewType ==
  ASSUME RollInv, mounted, NEW n \in Names
  PROVE  View(n) \in Versions
<1>1. Newest(Live, source, n) \in Versions
  BY ActiveIs, NewestType DEF RollInv, HostTypes
<1>2. Nothing \in Versions /\ upper[n] \in Versions
  BY RollAssumption DEF Versions, Nothing, RollInv, OverlayTypes, Tree
<1>3. QED
  BY <1>1, <1>2 DEF View, InBase

\* A removed name that gets no deleted row is on no archive of the mount.
LEMMA NotHidden ==
  ASSUME RollInv, mounted, pc = "idle", NEW n \in Names, n \notin Hides(n)
  PROVE  /\ base = "series" => \A g \in Live : source[g][n] = Nothing
         /\ ~Behind => Newest(files, content, n) = Nothing
<1>1. InBase(n) = Nothing
  BY DEF Hides
<1>2. base = "series" => \A g \in Live : source[g][n] = Nothing
  <2>1. Live \subseteq Gens
    BY ActiveIs
  <2>2. base = "series" => Newest(Live, source, n) = Nothing
    BY <1>1 DEF InBase
  <2>3. QED
    BY <2>1, <2>2, NewestNothing DEF RollInv, HostTypes
<1>3. ASSUME ~Behind PROVE Newest(files, content, n) = Nothing
  <2>1. base = "series" /\ source[Active] = content[Active]
    BY <1>3 DEF Behind, RollInv, CommitTypes
  <2>2. QED
    BY <1>1, <2>1, BaseOnDisk
<1>4. QED
  BY <1>2, <1>3

\* No sealed file holds a name the mount may remove.
LEMMA SealedNone ==
  ASSUME RollInv, mounted, NEW n \in Names, ~SealedContains(n)
  PROVE  \A g \in Sealed : source[g][n] = Nothing /\ content[g][n] = Nothing
BY DEF SealedContains, RollInv, SourceInv

\* What AcceptedCommits says of a running mount.
LEMMA AcceptedMounted ==
  ASSUME RollInv, mounted, ~unopened
  PROVE  \A n \in tomb \cup {m \in attrs : upper[m] = Nothing}, g \in Sealed :
           content[g][n] = Nothing
BY LaterSealed DEF RollInv, AcceptedCommits

\* A commit runs on the archive on disk, so no name is loose.
LEMMA CommitLoose ==
  ASSUME RollInv, pc # "idle"
  PROVE  mounted /\ ~disabled /\ loose = {}
BY DEF RollInv, CommitTypes, PlanInv, LooseInv

\* A mount that ends.
LEMMA UnmountedIs ==
  ASSUME RollInv, Unmounted
  PROVE  /\ ~mounted' /\ mounted' \in BOOLEAN /\ empty' \in BOOLEAN /\ ~disabled' /\ disabled' \in BOOLEAN
         /\ members' \subseteq Gens /\ source' \in [Gens -> Tree] /\ base' = "series"
         /\ pc' = "idle" /\ plan' \in Plans
BY Blank DEF Unmounted

\* A commit that is given up, with the mount when it was the exit commit.
LEMMA EndsIs ==
  ASSUME RollInv, Ends
  PROVE  /\ mounted' \in BOOLEAN /\ empty' \in BOOLEAN /\ disabled' \in BOOLEAN
         /\ members' \subseteq Gens /\ source' \in [Gens -> Tree] /\ base' \in {"series", "failed"}
         /\ pc' = "idle" /\ plan' \in Plans
         /\ mounted' => mounted /\ UNCHANGED <<members, source, base,
                                               disabled>>
         /\ ~mounted' => base' = "series" /\ ~disabled'
<1>1. CASE plan.exit
  BY <1>1, UnmountedIs DEF Ends
<1>2. CASE ~plan.exit
  <2>1. pc' = "idle" /\ plan' = NoPlan
        /\ UNCHANGED <<mounted, members, source, empty, base, disabled>>
    BY <1>2 DEF Ends, Gives, series, flags
  <2>2. QED
    BY <2>1, Blank DEF RollInv, HostTypes, CommitTypes, RestInv
<1>3. QED
  BY <1>1, <1>2

\* A mount reads the files there are, and a first one starts an empty series:
\* what a remount shows is unchanged.
LEMMA MountInv ==
  ASSUME RollInv, Mount
  PROVE  RollInv'
<1>1. /\ files' = (IF files = {} THEN {1} ELSE files) /\ members' = files' /\ content' = content
      /\ source' = [g \in Gens |-> IF g \in files THEN content[g] ELSE Empty]
      /\ mounted' = TRUE /\ files' \subseteq Gens /\ files' # {} /\ files \subseteq files'
      /\ UNCHANGED <<upper, tomb, attrs, base, disabled, pc, plan, unopened>>
      /\ tree' = [n \in Names |-> IF n \in loose THEN Newest(files, content, n) ELSE tree[n]]
  BY RollAssumption DEF Mount, RollInv, HostTypes, Gens, overlay, flags,
    commit
<1>2. /\ \A g \in Gens : source'[g] = content[g]
      /\ Active' \in files' /\ Live' = files'
  <2>1. \A g \in Gens : source'[g] = content[g]
    BY <1>1 DEF RollInv, MembersInv
  <2>2. QED
    BY <1>1, <2>1, MaxOfGens DEF Active, Live
<1>3. HostTypes'
  BY <1>1, Blank DEF RollInv, HostTypes
<1>4. OverlayTypes'
  <2>1. \A n \in Names : Newest(files, content, n) \in Versions
    BY NewestType DEF RollInv, HostTypes
  <2>2. tree' \in Tree
    BY <1>1, <2>1 DEF RollInv, OverlayTypes, Tree
  <2>3. QED
    BY <2>2 DEF Mount, RollInv, OverlayTypes, overlay
<1>5. CommitTypes'
  BY DEF Mount, RollInv, CommitTypes, flags, commit
<1>6. MembersInv'
  BY <1>1, <1>2 DEF RollInv, MembersInv
<1>7. RestInv'
  BY DEF Mount, RestInv
<1>8. SourceInv'
  <2>1. base = "series"
    BY DEF Mount, RollInv, RestInv
  <2>2. QED
    BY <1>1, <1>2, <2>1 DEF SourceInv, Sealed
<1>9. PlanInv'
  BY <1>1 DEF Mount, RollInv, CommitTypes, PlanInv
<1>10. RemountShowsLatest'
  <2>1. \A n \in Names : Newest(files', content, n) = Newest(files, content, n)
    <3>1. TAKE n \in Names
    <3>2. \A g \in files' \ files : content[g][n] = Nothing
      BY <1>1, Blank DEF RollInv, MembersInv
    <3>3. QED
      BY <1>1, <3>2, NewestSame DEF RollInv, HostTypes
  <2>2. \A n \in loose : Remounted(n) = Newest(files, content, n)
    BY DEF RollInv, LooseInv, Covered, Remounted
  <2>3. QED
    BY <1>1, <2>1, <2>2 DEF RollInv, RemountShowsLatest, Remounted
<1>11. AcceptedCommits'
  <2>1. CASE files = {}
    <3>1. \A g \in files' : \A n \in Names : content[g][n] = Nothing
      BY <1>1, <2>1, Blank DEF RollInv, MembersInv
    <3>2. QED
      BY <1>1, <3>1 DEF AcceptedCommits, RollInv, OverlayTypes
  <2>2. CASE files # {}
    BY <1>1, <2>2 DEF AcceptedCommits, RollInv
  <2>3. QED
    BY <2>1, <2>2
<1>12. LooseInv'
  BY DEF Mount, LooseInv
<1>13. QED
  BY <1>3, <1>4, <1>5, <1>6, <1>7, <1>8, <1>9, <1>10, <1>11, <1>12 DEF RollInv

\* A write covers its name in the overlay.
LEMMA WriteInv ==
  ASSUME RollInv, NEW n \in Names, Write(n)
  PROVE  RollInv'
<1>1. /\ UNCHANGED <<files, content, attrs, mounted, members, source, base,
                     disabled, pc, plan, unopened>>
      /\ fresh + 1 \in Versions /\ fresh + 1 # Nothing /\ tomb' = tomb \ {n}
      /\ loose' = loose \ {n}
      /\ \A m \in Names : IF m = n THEN upper'[m] = fresh + 1 /\ tree'[m] = fresh + 1
                          ELSE upper'[m] = upper[m] /\ tree'[m] = tree[m]
  <2>1. fresh + 1 \in Versions /\ fresh + 1 # Nothing
    BY RollAssumption DEF Write, RollInv, OverlayTypes, Versions, Nothing
  <2>2. QED
    BY <2>1 DEF Write, RollInv, OverlayTypes, Tree, host, series, flags,
      commit
<1>2. HostTypes'
  BY DEF Write, RollInv, HostTypes, host, series
<1>3. OverlayTypes'
  BY <1>1 DEF Write, RollInv, OverlayTypes, Tree
<1>4. CommitTypes'
  BY DEF Write, RollInv, CommitTypes, series, flags, commit
<1>5. MembersInv'
  BY DEF Write, RollInv, MembersInv, Active, host, series
<1>6. RestInv'
  BY DEF Write, Idle, RestInv
<1>7. SourceInv'
  BY <1>1 DEF RollInv, SourceInv, Covered, Active, Live, Sealed
<1>8. PlanInv'
  BY DEF Write, Idle, PlanInv, commit
<1>9. RemountShowsLatest'
  BY <1>1 DEF RollInv, RemountShowsLatest, Remounted
<1>10. AcceptedCommits'
  BY <1>1 DEF RollInv, OverlayTypes, AcceptedCommits
<1>11. LooseInv'
  BY <1>1 DEF RollInv, OverlayTypes, LooseInv, Covered, Live
<1>12. QED
  BY <1>2, <1>3, <1>4, <1>5, <1>6, <1>7, <1>8, <1>9, <1>10, <1>11 DEF RollInv

\* An unlink is refused for a name of a sealed archive; a name that gets no
\* deleted row is on no archive (NotHidden).
LEMMA UnlinkInv ==
  ASSUME RollInv, NEW n \in Names, Unlink(n)
  PROVE  RollInv'
<1>1. /\ UNCHANGED <<files, content, mounted, members, source, base,
                     disabled, pc, plan, fresh, unopened>>
      /\ mounted /\ pc = "idle" /\ ~SealedContains(n)
      /\ tomb' = (tomb \ {n}) \cup Hides(n) /\ attrs' = attrs \ {n}
      /\ loose' = loose \cup (IF Behind THEN {n} \ tomb' ELSE {}) /\ n \notin loose
      /\ \A m \in Names : IF m = n THEN upper'[m] = Nothing /\ tree'[m] = Nothing
                          ELSE upper'[m] = upper[m] /\ tree'[m] = tree[m]
  BY LooseUnseen DEF Unlink, Idle, RollInv, OverlayTypes, Tree, host, series,
    flags, commit
<1>2. Hides(n) \subseteq {n} /\ Nothing \in Versions
  BY RollAssumption DEF Hides, Versions, Nothing
<1>3. HostTypes'
  BY DEF Unlink, RollInv, HostTypes, host, series
<1>4. OverlayTypes'
  BY <1>1, <1>2 DEF Unlink, RollInv, OverlayTypes, Tree
<1>5. CommitTypes'
  BY DEF Unlink, RollInv, CommitTypes, series, flags, commit
<1>6. MembersInv'
  BY DEF Unlink, RollInv, MembersInv, Active, host, series
<1>7. RestInv'
  BY DEF Unlink, Idle, RestInv
<1>8. SourceInv'
  <2>1. \A m \in Names : source[Active][m] # content[Active][m] => Behind
    BY DEF Behind
  <2>2. Active' = Active /\ Live' = Live /\ Sealed' = Sealed
    BY <1>1 DEF Active, Live, Sealed
  <2>3. QED
    BY <1>1, <2>1, <2>2 DEF RollInv, SourceInv, Covered
<1>9. PlanInv'
  BY DEF Unlink, Idle, PlanInv, commit
<1>10. RemountShowsLatest'
  BY <1>1, <1>2, NotHidden DEF RollInv, OverlayTypes, RemountShowsLatest,
    Remounted
<1>11. AcceptedCommits'
  <2>1. ~unopened => \A g \in files \ {MaxOf(files)} : content[g][n] = Nothing
    BY <1>1, LaterSealed, SealedNone
  <2>2. QED
    BY <1>1, <1>2, <2>1 DEF RollInv, OverlayTypes, AcceptedCommits
<1>12. LooseInv'
  <2>1. Behind => disabled
    BY <1>1 DEF Behind, RollInv, SourceInv
  <2>2. n \notin tomb' /\ base = "series" => \A g \in Live : source[g][n] = Nothing
    BY <1>1, NotHidden
  <2>3. Live' = Live /\ \A m \in loose' : m \in Names /\ m \notin tomb' /\ upper'[m] = Nothing
    BY <1>1, <1>2 DEF Live, RollInv, OverlayTypes, LooseInv, Covered
  <2>4. QED
    BY <1>1, <2>1, <2>2, <2>3 DEF RollInv, LooseInv, Covered
<1>13. QED
  BY <1>3, <1>4, <1>5, <1>6, <1>7, <1>8, <1>9, <1>10, <1>11, <1>12 DEF RollInv

\* A rename takes the content it shows, which is the newest one, and removes
\* the old name as Unlink does.
LEMMA RenameInv ==
  ASSUME RollInv, NEW from \in Names, NEW to \in Names, Rename(from, to)
  PROVE  RollInv'
<1>1. /\ UNCHANGED <<files, content, mounted, members, source, base,
                     disabled, pc, plan, fresh, unopened>>
      /\ mounted /\ pc = "idle" /\ ~SealedContains(from) /\ from # to /\ View(from) # Nothing
      /\ tomb' = (tomb \ {from, to}) \cup Hides(from) /\ attrs' = (attrs \ {from}) \cup {to}
      /\ loose' = (loose \ {to}) \cup (IF Behind THEN {from} \ tomb' ELSE {}) /\ from \notin loose
      /\ upper'[from] = Nothing /\ tree'[from] = Nothing
      /\ upper'[to] = View(from) /\ tree'[to] = tree[from]
      /\ \A m \in Names \ {from, to} : upper'[m] = upper[m] /\ tree'[m] = tree[m]
  BY LooseUnseen DEF Rename, Idle, RollInv, OverlayTypes, Tree, host, series,
    flags, commit
<1>2. Hides(from) \subseteq {from} /\ Nothing \in Versions
  BY RollAssumption DEF Hides, Versions, Nothing
<1>3. HostTypes'
  BY DEF Rename, RollInv, HostTypes, host, series
<1>4. OverlayTypes'
  <2>1. View(from) \in Versions
    BY <1>1, ViewType
  <2>2. upper' \in Tree /\ tree' \in Tree
    BY <1>2, <2>1 DEF Rename, RollInv, OverlayTypes, Tree
  <2>3. QED
    BY <1>1, <1>2, <2>2 DEF RollInv, OverlayTypes
<1>5. CommitTypes'
  BY DEF Rename, RollInv, CommitTypes, series, flags, commit
<1>6. MembersInv'
  BY DEF Rename, RollInv, MembersInv, Active, host, series
<1>7. RestInv'
  BY DEF Rename, Idle, RestInv
<1>8. SourceInv'
  <2>1. \A m \in Names : source[Active][m] # content[Active][m] => Behind
    BY DEF Behind
  <2>2. Active' = Active /\ Live' = Live /\ Sealed' = Sealed
    BY <1>1 DEF Active, Live, Sealed
  <2>3. QED
    BY <1>1, <2>1, <2>2 DEF RollInv, SourceInv, Covered
<1>9. PlanInv'
  BY DEF Rename, Idle, PlanInv, commit
<1>10. RemountShowsLatest'
  <2>1. View(from) = tree[from]
    BY <1>1, ViewIsTree
  <2>2. from \notin tomb' /\ from \notin loose' => Newest(files, content, from) = Nothing
    BY <1>1, NotHidden
  <2>3. QED
    BY <1>1, <1>2, <2>1, <2>2 DEF RollInv, OverlayTypes, RemountShowsLatest,
      Remounted
<1>11. AcceptedCommits'
  <2>1. ~unopened => \A g \in files \ {MaxOf(files)} : content[g][from] = Nothing
    BY <1>1, LaterSealed, SealedNone
  <2>2. QED
    BY <1>1, <1>2, <2>1 DEF RollInv, OverlayTypes, AcceptedCommits
<1>12. LooseInv'
  <2>1. Behind => disabled
    BY <1>1 DEF Behind, RollInv, SourceInv
  <2>2. from \notin tomb' /\ base = "series" => \A g \in Live : source[g][from] = Nothing
    BY <1>1, NotHidden
  <2>3. Live' = Live /\ \A m \in loose' : m \in Names /\ m \notin tomb' /\ upper'[m] = Nothing
    BY <1>1, <1>2 DEF Live, RollInv, OverlayTypes, LooseInv, Covered
  <2>4. QED
    BY <1>1, <2>1, <2>2, <2>3 DEF RollInv, LooseInv, Covered
<1>13. QED
  BY <1>3, <1>4, <1>5, <1>6, <1>7, <1>8, <1>9, <1>10, <1>11, <1>12 DEF RollInv

\* Attribute rows of a name without a file in the overlay are refused when a
\* sealed archive holds it.
LEMMA SetXattrInv ==
  ASSUME RollInv, NEW n \in Names, SetXattr(n)
  PROVE  RollInv'
<1>1. HostTypes'
  BY DEF SetXattr, seen, RollInv, HostTypes, host, series
<1>2. OverlayTypes'
  BY DEF SetXattr, seen, RollInv, OverlayTypes
<1>3. CommitTypes'
  BY DEF SetXattr, seen, RollInv, CommitTypes, series, flags, commit
<1>4. MembersInv'
  BY DEF SetXattr, seen, RollInv, MembersInv, Active, host, series
<1>5. RestInv'
  BY DEF SetXattr, seen, Idle, RestInv
<1>6. SourceInv'
  BY DEF SetXattr, seen, RollInv, SourceInv, Covered, Active, Live, Sealed, host,
    series, flags, commit
<1>7. PlanInv'
  BY DEF SetXattr, seen, Idle, PlanInv, commit
<1>8. RemountShowsLatest'
  BY DEF SetXattr, seen, RollInv, RemountShowsLatest, Remounted, host
<1>9. AcceptedCommits'
  <2>1. /\ UNCHANGED <<files, content, upper, tomb,
                       unopened>> /\ attrs' = attrs \cup {n} /\ mounted
        /\ upper[n] # Nothing \/ ~SealedContains(n)
    BY DEF SetXattr, seen, Idle, host
  <2>2. ~unopened /\ upper[n] = Nothing
          => \A g \in files \ {MaxOf(files)} : content[g][n] = Nothing
    BY <2>1, LaterSealed, SealedNone
  <2>3. QED
    BY <2>1, <2>2 DEF RollInv, OverlayTypes, AcceptedCommits
<1>10. LooseInv'
  BY DEF SetXattr, seen, RollInv, LooseInv, Covered, Active, Live, host, overlay,
    series, flags, commit
<1>11. QED
  BY <1>1, <1>2, <1>3, <1>4, <1>5, <1>6, <1>7, <1>8, <1>9, <1>10 DEF RollInv

\* The host's deletion of a sealed archive changes what a remount shows only
\* for the names that archive showed.
LEMMA DeleteSealedInv ==
  ASSUME RollInv, NEW g \in Gens, DeleteSealed(g)
  PROVE  RollInv'
<1>1. /\ UNCHANGED <<upper, tomb, attrs, fresh, mounted, members, source,
                     base, disabled, pc, plan, unopened, loose>>
      /\ g \in files /\ g # MaxOf(files) /\ (mounted => g # Active)
      /\ files' = files \ {g} /\ content' = [content EXCEPT ![g] = Empty]
      /\ tree' = [n \in Names |->
           IF upper[n] = Nothing /\ n \notin tomb \cup loose /\ Newest(files, content, n) = content[g][n]
           THEN Newest(files', content, n) ELSE tree[n]]
  BY DEF DeleteSealed, overlay, series, flags, commit
<1>2. /\ \A h \in Gens : content'[h] = IF h = g THEN Empty ELSE content[h]
      /\ Active' = Active /\ Live' = Live \ {g} /\ Sealed' = Sealed \ {g}
  BY <1>1 DEF RollInv, HostTypes, Active, Live, Sealed
<1>3. HostTypes'
  BY <1>1, Blank DEF RollInv, HostTypes
<1>4. OverlayTypes'
  <2>1. files' \subseteq Gens /\ content \in [Gens -> Tree]
    BY <1>1 DEF RollInv, HostTypes
  <2>2. \A n \in Names : Newest(files', content, n) \in Versions
    BY <2>1, NewestType
  <2>3. tree' \in Tree
    BY <1>1, <2>2 DEF RollInv, OverlayTypes, Tree
  <2>4. QED
    BY <1>1, <2>3 DEF RollInv, OverlayTypes
<1>5. CommitTypes'
  BY DEF DeleteSealed, RollInv, CommitTypes, series, flags, commit
<1>6. MembersInv'
  BY <1>1, <1>2 DEF RollInv, MembersInv, HostTypes
<1>7. RestInv'
  BY DEF DeleteSealed, RollInv, RestInv, flags
<1>8. SourceInv'
  <2>1. SUFFICES ASSUME mounted PROVE SourceInv'
    BY <1>1 DEF SourceInv
  <2>2. /\ content'[Active] = content[Active]
        /\ \A h \in Sealed' : h \in Sealed /\ content'[h] = content[h]
    BY <1>1, <1>2, <2>1, ActiveIs
  <2>3. /\ \A h \in Sealed : source[h] = content[h]
        /\ source[Active] # content[Active] => pc = "reopen" \/ disabled
        /\ base = "failed" => disabled
        /\ base = "series" => \A n \in Names :
             source[Active][n] # content[Active][n] => Covered(n) \/ n \in loose
    BY <2>1 DEF RollInv, SourceInv
  <2>4. \A n : Covered(n)' <=> Covered(n)
    BY <1>1 DEF Covered
  <2>5. QED
    BY <1>1, <1>2, <2>2, <2>3, <2>4 DEF SourceInv
<1>9. PlanInv'
  BY <1>1, <1>2, ActiveIs DEF RollInv, CommitTypes, PlanInv
<1>10. RemountShowsLatest'
  <2>1. SUFFICES ASSUME NEW n \in Names \ loose
                 PROVE  Remounted(n)' = tree'[n]
    BY <1>1 DEF RemountShowsLatest
  <2>2. CASE upper[n] # Nothing \/ n \in tomb
    BY <1>1, <2>1, <2>2 DEF RollInv, RemountShowsLatest, Remounted
  <2>3. CASE upper[n] = Nothing /\ n \notin tomb
    <3>1. files \in SUBSET Gens /\ g \in files /\ content \in [Gens -> Tree]
      BY <1>1 DEF RollInv, HostTypes
    <3>2. \A h \in files \ {g} : content'[h][n] = content[h][n]
      BY <1>2, <3>1
    <3>3. Newest(files \ {g}, content', n) = Newest(files \ {g}, content, n)
      BY <3>1, <3>2, NewestCleared
    <3>4. Remounted(n)' = Newest(files \ {g}, content, n)
      BY <1>1, <2>3, <3>3 DEF Remounted
    <3>5. CASE Newest(files, content, n) = content[g][n]
      BY <1>1, <2>3, <3>4, <3>5
    <3>6. CASE Newest(files, content, n) # content[g][n]
      <4>1. Newest(files \ {g}, content, n) = Newest(files, content, n)
        BY <3>1, <3>6, NewestShrink
      <4>2. tree'[n] = tree[n]
        BY <1>1, <3>6
      <4>3. QED
        BY <2>1, <2>3, <3>4, <4>1, <4>2 DEF RollInv, RemountShowsLatest,
          Remounted
    <3>7. QED
      BY <3>5, <3>6
  <2>4. QED
    BY <2>2, <2>3
<1>11. AcceptedCommits'
  <2>1. files' # {} /\ MaxOf(files') = MaxOf(files)
    <3>1. files \subseteq Gens /\ files # {}
      BY <1>1 DEF RollInv, HostTypes
    <3>2. MaxOf(files) \in files' /\ files' \subseteq Gens /\ \A h \in files' : h <= MaxOf(files)
      BY <1>1, <3>1, MaxOfGens
    <3>3. QED
      BY <3>2, MaxOfIs
  <2>2. \A h \in files' : content'[h] = content[h] /\ h \in files
    BY <1>1, <1>2 DEF RollInv, HostTypes
  <2>3. QED
    BY <1>1, <2>1, <2>2 DEF RollInv, AcceptedCommits
<1>12. LooseInv'
  <2>1. \A n \in loose : n \in Names /\ tree'[n] = tree[n]
    BY <1>1 DEF RollInv, OverlayTypes
  <2>2. QED
    BY <1>1, <1>2, <2>1 DEF RollInv, LooseInv, Covered
<1>13. QED
  BY <1>3, <1>4, <1>5, <1>6, <1>7, <1>8, <1>9, <1>10, <1>11, <1>12 DEF RollInv

\* The plan holds no deletion and no bare attribute that a sealed archive
\* would have to take, and tells whether the active one must.
LEMMA BeginCommitInv ==
  ASSUME RollInv, NEW exit \in BOOLEAN, NEW settled \in SUBSET Names, BeginCommit(exit, settled)
  PROVE  RollInv'
<1>1. /\ UNCHANGED <<files, content, upper, tomb, attrs, mounted, members,
                     source, base, disabled, tree, loose, unopened>>
      /\ mounted /\ pc = "idle" /\ ~disabled /\ pc' = "prepare"
      /\ \A n \in settled : upper[n] # Nothing
      /\ ~Refused(MakePlan(exit, settled))
      /\ plan' = [MakePlan(exit, settled) EXCEPT !.defer = Defers(MakePlan(exit, settled))]
  BY DEF BeginCommit, seen, Idle, host, overlay, series, flags
<1> DEFINE p == MakePlan(exit, settled)
<1>2. /\ p.append = settled /\ p.delete = tomb \cup settled
      /\ p.attrs = attrs \ ({n \in Names : upper[n] # Nothing} \ settled)
      /\ plan' = [exit |-> exit, append |-> settled, delete |-> tomb \cup settled,
                  attrs |-> p.attrs, defer |-> Defers(p)]
  BY <1>1 DEF MakePlan
<1>3. /\ plan'.append = settled /\ plan'.delete = tomb \cup settled /\ plan'.attrs = p.attrs
      /\ ~plan'.defer => ~Defers(p)
  BY <1>2
<1>4. HostTypes'
  BY DEF BeginCommit, seen, RollInv, HostTypes, host, series
<1>5. OverlayTypes'
  BY DEF BeginCommit, seen, RollInv, OverlayTypes, overlay
<1>6. CommitTypes'
  <2>1. Defers(p) \in BOOLEAN
    BY DEF Defers
  <2>2. plan' \in Plans
    BY <1>2, <2>1 DEF Plans, RollInv, OverlayTypes
  <2>3. QED
    BY <1>1, <2>2 DEF BeginCommit, seen, RollInv, CommitTypes, Steps, series
<1>7. MembersInv'
  BY DEF BeginCommit, seen, RollInv, MembersInv, Active, host, series
<1>8. RestInv'
  BY DEF BeginCommit, seen, Idle, RestInv
<1>9. SourceInv'
  BY DEF BeginCommit, seen, Idle, RollInv, SourceInv, Active, Live, Sealed, host,
    series, flags
<1>10. PlanInv'
  <2>1. tomb \cap settled = {}
    BY <1>1 DEF RollInv, OverlayTypes
  <2>2. \A n \in (tomb \cup settled) \ settled : \A g \in Sealed : source[g][n] = Nothing
    BY <1>1, <1>2 DEF Refused, Bare, SealedContains
  <2>3. \A n \in attrs : n \in p.attrs \/ (n \notin settled /\ upper[n] # Nothing)
    BY <1>2
  <2>4. ~Defers(p) => /\ p.attrs \subseteq settled
                      /\ \A n \in (tomb \cup settled) \ settled : source[Active][n] = Nothing
    BY <1>2 DEF Defers
  <2>5. Active' = Active /\ Sealed' = Sealed
    BY <1>1 DEF Active, Sealed, Live
  <2>6. QED
    BY <1>1, <1>3, <2>1, <2>2, <2>3, <2>4, <2>5 DEF PlanInv
<1>11. RemountShowsLatest'
  BY DEF BeginCommit, seen, RollInv, RemountShowsLatest, Remounted, host, overlay
<1>12. AcceptedCommits'
  BY DEF BeginCommit, seen, RollInv, AcceptedCommits, host, overlay
<1>13. LooseInv'
  BY DEF BeginCommit, seen, RollInv, LooseInv, Covered, Active, Live, host, overlay,
    series, flags, commit
<1>14. QED
  BY <1>4, <1>5, <1>6, <1>7, <1>8, <1>9, <1>10, <1>11, <1>12, <1>13 DEF RollInv

\* Without a rotation the commit goes on with its plan.
LEMMA StayActiveInv ==
  ASSUME RollInv, StayActive
  PROVE  RollInv'
<1>1. HostTypes'
  BY DEF StayActive, seen, RollInv, HostTypes, host, series
<1>2. OverlayTypes'
  BY DEF StayActive, seen, RollInv, OverlayTypes, overlay
<1>3. CommitTypes'
  BY DEF StayActive, seen, RollInv, CommitTypes, Steps, series, flags
<1>4. MembersInv'
  BY DEF StayActive, seen, RollInv, MembersInv, Active, host, series
<1>5. RestInv'
  BY DEF StayActive, seen, RollInv, CommitTypes, RestInv
<1>6. SourceInv'
  BY DEF StayActive, seen, RollInv, SourceInv, Covered, Active, Live, Sealed, host,
    overlay, series, flags
<1>7. PlanInv'
  BY DEF StayActive, seen, RollInv, PlanInv, Active, Live, Sealed, host, overlay,
    series, flags
<1>8. RemountShowsLatest'
  BY DEF StayActive, seen, RollInv, RemountShowsLatest, Remounted, host, overlay
<1>9. AcceptedCommits'
  BY DEF StayActive, seen, RollInv, AcceptedCommits, host, overlay
<1>10. LooseInv'
  BY DEF StayActive, seen, RollInv, LooseInv, Covered, Active, Live, host, overlay,
    series, flags, commit
<1>11. QED
  BY <1>1, <1>2, <1>3, <1>4, <1>5, <1>6, <1>7, <1>8, <1>9, <1>10 DEF RollInv

\* A rotation seals the archive that was active; the plan was not deferred,
\* so it removes nothing from it.
LEMMA RotateInv ==
  ASSUME RollInv, Rotate
  PROVE  RollInv'
<1> DEFINE a == Active + 1
<1>1. /\ a \in Gens \ files /\ files' = files \cup {a} /\ members' = members \cup {a}
      /\ pc = "prepare" /\ pc' = "persist" /\ mounted /\ ~disabled /\ ~plan.defer
      /\ UNCHANGED <<content, source, upper, tomb, attrs, mounted, base,
                     disabled, plan, tree, loose,
                     fresh, unopened>>
  BY DEF Rotate, seen, MayRotate, RollInv, CommitTypes, PlanInv, overlay, flags
<1>2. /\ a \notin members /\ Active' = a /\ Live' = Live \cup {a} /\ Sealed' = Live
      /\ Live = Sealed \cup {Active}
  <2>1. Active \in Nat /\ Active \in Live /\ Sealed = Live \ {Active} /\ \A g \in members : g <= Active
    BY <1>1, ActiveIs
  <2>2. a \notin members
    BY <2>1
  <2>3. members' \subseteq Gens /\ \A g \in members' : g <= a
    <3>1. members \subseteq Gens /\ Gens \subseteq Int
      BY DEF RollInv, HostTypes, Gens
    <3>2. QED
      BY <1>1, <2>1, <3>1
  <2>4. Active' = a
    BY <1>1, <2>3, MaxOfIs DEF Active
  <2>5. QED
    BY <1>1, <2>1, <2>2, <2>4 DEF Live, Sealed
<1>3. /\ content[a] = Empty /\ source[a] = Empty
      /\ \A g \in Live : source[g] = content[g]
  BY <1>1, <1>2 DEF RollInv, MembersInv, SourceInv
<1>4. HostTypes'
  BY DEF Rotate, seen, RollInv, HostTypes
<1>5. OverlayTypes'
  BY DEF Rotate, seen, RollInv, OverlayTypes, overlay
<1>6. CommitTypes'
  BY DEF Rotate, seen, MayRotate, RollInv, CommitTypes, Steps, flags
<1>7. MembersInv'
  BY <1>1, <1>2, <1>3 DEF RollInv, MembersInv
<1>8. RestInv'
  BY DEF Rotate, seen, MayRotate, RollInv, CommitTypes, RestInv
<1>9. SourceInv'
  BY <1>1, <1>2, <1>3 DEF RollInv, SourceInv
<1>10. PlanInv'
  <2>1. \A n \in plan.delete \ plan.append, g \in Live : source[g][n] = Nothing
    BY <1>1, <1>2 DEF RollInv, PlanInv
  <2>2. QED
    BY <1>1, <1>2, <2>1 DEF RollInv, PlanInv
<1>11. RemountShowsLatest'
  <2>1. \A n \in Names : Newest(files \cup {a}, content, n) = Newest(files, content, n)
    BY <1>1, <1>3, Blank, NewestGrow DEF RollInv, HostTypes
  <2>2. QED
    BY <1>1, <2>1 DEF RollInv, RemountShowsLatest, Remounted
<1>12. AcceptedCommits'
  <2>1. SUFFICES ASSUME ~unopened PROVE AcceptedCommits'
    BY <1>1 DEF AcceptedCommits
  <2>2. MaxOf(files') = a
    <3>1. files' \subseteq Gens /\ \A g \in files : g <= Active
      BY <1>1, <2>1, ActiveIs DEF RollInv, HostTypes, MembersInv
    <3>2. Active \in Nat /\ Gens \subseteq Int
      BY <1>1, ActiveIs DEF Gens
    <3>3. \A g \in files' : g <= a
      BY <1>1, <3>1, <3>2
    <3>4. QED
      BY <1>1, <3>1, <3>3, MaxOfIs
  <2>3. files' \ {a} = Live
    BY <1>1, <2>1 DEF Live, RollInv, MembersInv
  <2>4. \A n \in tomb \cup {m \in attrs : upper[m] = Nothing}, g \in Sealed : content[g][n] = Nothing
    BY <1>1, <2>1, AcceptedMounted
  <2>5. \A n \in attrs : upper[n] # Nothing
    BY <1>1 DEF RollInv, PlanInv
  <2>6. \A n \in tomb : content[Active][n] = Nothing
    BY <1>1, <1>2, <1>3 DEF RollInv, PlanInv
  <2>7. QED
    BY <1>1, <1>2, <2>2, <2>3, <2>4, <2>5, <2>6 DEF AcceptedCommits
<1>13. LooseInv'
  BY CommitLoose DEF Rotate, MayRotate, seen, LooseInv
<1>14. QED
  BY <1>4, <1>5, <1>6, <1>7, <1>8, <1>9, <1>10, <1>11, <1>12, <1>13 DEF RollInv

\* The next archive is created empty and the commit is given up.
LEMMA RotateUnopenedInv ==
  ASSUME RollInv, RotateUnopened
  PROVE  RollInv'
<1> DEFINE a == Active + 1
<1>1. /\ a \in Gens \ files /\ files' = files \cup {a} /\ Ends
      /\ pc = "prepare" /\ mounted /\ ~disabled
      /\ UNCHANGED <<content, upper, tomb, attrs, tree, loose, fresh>>
      /\ unopened' = TRUE
  BY DEF RotateUnopened, seen, MayRotate, RollInv, CommitTypes, PlanInv, overlay
<1>2. loose = {}
  BY <1>1, CommitLoose
<1>3. HostTypes'
  BY <1>1, EndsIs DEF RollInv, HostTypes
<1>4. OverlayTypes'
  BY DEF RotateUnopened, seen, RollInv, OverlayTypes, overlay
<1>5. CommitTypes'
  BY <1>1, <1>2, EndsIs DEF CommitTypes, Steps
<1>6. MembersInv'
  BY DEF RotateUnopened, seen, MayRotate, Ends, Gives, Unmounted, RollInv,
    CommitTypes, MembersInv, Active, host, overlay, series, flags, commit
<1>7. RestInv'
  BY DEF RotateUnopened, seen, MayRotate, Ends, Gives, Unmounted, RollInv,
    CommitTypes, RestInv, host, overlay, series, flags, commit
<1>8. SourceInv'
  <2>1. SUFFICES ASSUME mounted' PROVE SourceInv'
    BY DEF SourceInv
  <2>2. pc' = "idle" /\ UNCHANGED <<members, source, base, disabled>>
    BY <1>1, <2>1, EndsIs
  <2>3. a \notin members
    BY <1>1, ActiveIs
  <2>4. Active' = Active /\ Live' = Live /\ Sealed' = Sealed
    BY <1>1, <2>2, <2>3 DEF Active, Live, Sealed
  <2>5. QED
    BY <1>1, <2>2, <2>4 DEF RollInv, SourceInv
<1>9. PlanInv'
  BY DEF RotateUnopened, seen, MayRotate, Ends, Gives, Unmounted, RollInv,
    CommitTypes, PlanInv, Active, Live, Sealed, host, overlay, series, flags,
    commit
<1>10. RemountShowsLatest'
  <2>1. \A n \in Names : Newest(files \cup {a}, content, n) = Newest(files, content, n)
    <3>1. a \in Gens /\ files \subseteq Gens /\ content[a] = Empty
      BY <1>1 DEF RollInv, HostTypes, MembersInv
    <3>2. QED
      BY <3>1, Blank, NewestGrow
  <2>2. QED
    BY <1>1, <1>2, <2>1 DEF RollInv, RemountShowsLatest, Remounted
<1>11. AcceptedCommits'
  BY DEF RotateUnopened, seen, AcceptedCommits
<1>12. LooseInv'
  BY CommitLoose DEF RotateUnopened, MayRotate, seen, LooseInv
<1>13. QED
  BY <1>3, <1>4, <1>5, <1>6, <1>7, <1>8, <1>9, <1>10, <1>11, <1>12 DEF RollInv

\* No next archive can be made, and the commit is given up.
LEMMA RotateRefusedInv ==
  ASSUME RollInv, RotateRefused
  PROVE  RollInv'
<1>1. HostTypes'
  BY EndsIs DEF RotateRefused, seen, RollInv, HostTypes, host
<1>2. OverlayTypes'
  BY DEF RotateRefused, seen, RollInv, OverlayTypes, overlay
<1>3. CommitTypes'
  BY EndsIs DEF RotateRefused, seen, RollInv, CommitTypes, Steps
<1>4. MembersInv'
  BY DEF RotateRefused, seen, MayRotate, Ends, Gives, Unmounted, RollInv,
    CommitTypes, MembersInv, Active, host, overlay, series, flags, commit
<1>5. RestInv'
  BY DEF RotateRefused, seen, MayRotate, Ends, Gives, Unmounted, RollInv,
    CommitTypes, RestInv, host, overlay, series, flags, commit
<1>6. SourceInv'
  BY DEF RotateRefused, seen, MayRotate, Ends, Unmounted, RollInv, CommitTypes,
    SourceInv, Covered, Active, Live, Sealed, host, overlay, series, flags
<1>7. PlanInv'
  BY DEF RotateRefused, seen, MayRotate, Ends, Gives, Unmounted, RollInv,
    CommitTypes, PlanInv, Active, Live, Sealed, host, overlay, series, flags,
    commit
<1>8. RemountShowsLatest'
  BY DEF RotateRefused, seen, RollInv, RemountShowsLatest, Remounted, host, overlay
<1>9. AcceptedCommits'
  BY DEF RotateRefused, seen, RollInv, AcceptedCommits, host, overlay
<1>10. LooseInv'
  BY CommitLoose DEF RotateRefused, MayRotate, seen, LooseInv
<1>11. QED
  BY <1>1, <1>2, <1>3, <1>4, <1>5, <1>6, <1>7, <1>8, <1>9, <1>10 DEF RollInv

\* The write of the active archive touches the names of the plan only, and
\* the overlay still covers each of them.
LEMMA PersistInv ==
  ASSUME RollInv, Persist
  PROVE  RollInv'
<1>1. /\ pc = "persist" /\ mounted /\ ~disabled /\ base = "series"
      /\ content' = [content EXCEPT ![Active] = Written]
      /\ UNCHANGED <<files, upper, tomb, attrs, tree, loose, fresh, unopened>>
  BY DEF Persist, seen, RollInv, CommitTypes, PlanInv, SourceInv, overlay
<1>2. \/ plan.exit /\ Unmounted
      \/ pc' = "reopen" /\ UNCHANGED <<mounted, members, source, empty,
                                       base, disabled, plan>>
  BY DEF Persist, seen, series, flags
<1>3. Active \in Gens /\ Active \in members /\ Active \in files /\ Sealed = Live \ {Active}
      /\ source[Active] = content[Active]
  BY <1>1, ActiveIs DEF Live, RollInv, SourceInv
<1>4. /\ \A g \in Gens : content'[g] = IF g = Active THEN Written ELSE content[g]
      /\ \A n \in Names : Written[n] = IF n \in plan.append THEN upper[n]
                                       ELSE IF n \in plan.delete THEN Nothing ELSE content[Active][n]
  <2>1. \A n \in Names : Written[n] = IF n \in plan.append THEN upper[n]
                                      ELSE IF n \in plan.delete THEN Nothing ELSE content[Active][n]
    BY <1>3 DEF Written
  <2>2. QED
    BY <1>1, <1>3, <2>1 DEF RollInv, HostTypes
<1>5. /\ \A n \in plan.append : upper[n] # Nothing
      /\ plan.delete \subseteq tomb \cup plan.append
      /\ plan.append \subseteq Names /\ plan.delete \subseteq Names
  BY <1>1 DEF RollInv, PlanInv, CommitTypes, Plans
<1>6. HostTypes'
  <2>1. Written \in Tree
    BY <1>3, RollAssumption DEF Written, Tree, Versions, Nothing, RollInv,
      HostTypes, OverlayTypes
  <2>2. content' \in [Gens -> Tree]
    BY <1>1, <2>1 DEF RollInv, HostTypes
  <2>3. QED
    BY <1>1, <1>2, <2>2, UnmountedIs DEF RollInv, HostTypes
<1>7. OverlayTypes'
  BY DEF Persist, seen, RollInv, OverlayTypes, overlay
<1>8. CommitTypes'
  BY <1>1, <1>2, UnmountedIs DEF RollInv, CommitTypes, Steps
<1>9. MembersInv'
  <2>1. \A g \in (Gens \ files) \cup (files \ members) : content'[g] = Empty
    BY <1>1, <1>3, <1>4 DEF RollInv, HostTypes, MembersInv
  <2>2. mounted' => UNCHANGED <<members, source>> /\ Active' = Active
    BY <1>2, UnmountedIs DEF Active
  <2>3. QED
    BY <1>1, <2>1, <2>2 DEF RollInv, MembersInv
<1>10. RestInv'
  BY DEF Persist, seen, Unmounted, RollInv, CommitTypes, RestInv, host, overlay,
    series, flags, commit
<1>11. SourceInv'
  <2>1. SUFFICES ASSUME mounted' PROVE SourceInv'
    BY DEF SourceInv
  <2>2. pc' = "reopen" /\ UNCHANGED <<members, source, base, disabled>>
    BY <1>2, <2>1, UnmountedIs
  <2>3. Active' = Active /\ Live' = Live /\ Sealed' = Sealed /\ \A n : Covered(n)' <=> Covered(n)
    BY <1>1, <2>2 DEF Active, Live, Sealed, Covered
  <2>4. \A g \in Sealed : source[g] = content'[g]
    BY <1>1, <1>3, <1>4 DEF RollInv, SourceInv, Live, HostTypes
  <2>5. \A n \in Names : source[Active][n] # content'[Active][n] => Covered(n)
    BY <1>3, <1>4, <1>5 DEF Covered
  <2>6. QED
    BY <1>1, <2>2, <2>3, <2>4, <2>5 DEF SourceInv
<1>12. PlanInv'
  <2>1. SUFFICES ASSUME pc' # "idle" PROVE PlanInv'
    BY DEF PlanInv
  <2>2. pc' = "reopen" /\ UNCHANGED <<members, source, disabled, plan>>
    BY <1>2, <2>1, UnmountedIs
  <2>3. Active' = Active /\ Sealed' = Sealed
    BY <1>1, <2>2 DEF Active, Live, Sealed
  <2>4. /\ \A n \in plan.append : content'[Active][n] = upper[n]
        /\ \A n \in plan.delete \ plan.append : content'[Active][n] = Nothing
    BY <1>3, <1>4, <1>5
  <2>5. QED
    BY <1>1, <2>2, <2>3, <2>4 DEF RollInv, PlanInv
<1>13. RemountShowsLatest'
  <2>1. ASSUME NEW n \in Names, ~Covered(n)
        PROVE  Newest(files, content', n) = Newest(files, content, n)
    <3>1. n \notin plan.append /\ n \notin plan.delete
      BY <1>5, <2>1 DEF Covered
    <3>2. \A g \in files : content'[g][n] = content[g][n]
      BY <1>4, <3>1 DEF RollInv, HostTypes
    <3>3. files \subseteq Gens
      BY DEF RollInv, HostTypes
    <3>4. QED
      BY <3>2, <3>3, NewestCleared
  <2>2. QED
    BY <1>1, <2>1 DEF RollInv, RemountShowsLatest, Remounted, Covered
<1>14. AcceptedCommits'
  <2>1. SUFFICES ASSUME ~unopened PROVE AcceptedCommits'
    BY <1>1 DEF AcceptedCommits
  <2>2. MaxOf(files) = Active /\ files # {}
    BY <1>1, <2>1, LaterSealed
  <2>3. \A g \in files \ {MaxOf(files)} : content'[g] = content[g]
    BY <1>4, <2>2 DEF RollInv, HostTypes
  <2>4. QED
    BY <1>1, <2>1, <2>2, <2>3 DEF RollInv, AcceptedCommits
<1>15. LooseInv'
  BY CommitLoose DEF Persist, seen, LooseInv
<1>16. QED
  BY <1>6, <1>7, <1>8, <1>9, <1>10, <1>11, <1>12, <1>13, <1>14, <1>15 DEF RollInv

\* A failed write leaves the archive and the overlay as they were.
LEMMA PersistFailsInv ==
  ASSUME RollInv, PersistFails
  PROVE  RollInv'
<1>1. HostTypes'
  BY EndsIs DEF PersistFails, seen, RollInv, HostTypes, host
<1>2. OverlayTypes'
  BY DEF PersistFails, seen, RollInv, OverlayTypes, overlay
<1>3. CommitTypes'
  BY EndsIs DEF PersistFails, seen, RollInv, CommitTypes, Steps
<1>4. MembersInv'
  BY DEF PersistFails, seen, Ends, Gives, Unmounted, RollInv, CommitTypes,
    MembersInv, Active, host, overlay, series, flags, commit
<1>5. RestInv'
  BY DEF PersistFails, seen, Ends, Gives, Unmounted, RollInv, CommitTypes, RestInv,
    host, overlay, series, flags, commit
<1>6. SourceInv'
  BY DEF PersistFails, seen, Ends, Unmounted, RollInv, CommitTypes, SourceInv,
    Covered, Active, Live, Sealed, host, overlay, series, flags
<1>7. PlanInv'
  BY DEF PersistFails, seen, Ends, Gives, Unmounted, RollInv, CommitTypes, PlanInv,
    Active, Live, Sealed, host, overlay, series, flags, commit
<1>8. RemountShowsLatest'
  BY DEF PersistFails, seen, RollInv, RemountShowsLatest, Remounted, host, overlay
<1>9. AcceptedCommits'
  BY DEF PersistFails, seen, RollInv, AcceptedCommits, host, overlay
<1>10. LooseInv'
  BY CommitLoose DEF PersistFails, seen, LooseInv
<1>11. QED
  BY <1>1, <1>2, <1>3, <1>4, <1>5, <1>6, <1>7, <1>8, <1>9, <1>10 DEF RollInv

\* A write after which the base is refused may or may not have reached the
\* archive; the overlay still covers every name of the plan.
LEMMA PersistRefusedInv ==
  ASSUME RollInv, PersistRefused
  PROVE  RollInv'
<1>1. /\ pc = "persist" /\ mounted /\ ~disabled /\ base = "series" /\ loose = {}
      /\ content' \in {content, [content EXCEPT ![Active] = Written]}
      /\ UNCHANGED <<files, upper, tomb, attrs, tree, fresh, unopened, loose>>
  BY CommitLoose DEF PersistRefused, seen, RollInv, CommitTypes, SourceInv,
    overlay
<1>2. /\ pc' = "idle" /\ plan' \in Plans /\ disabled' \in BOOLEAN /\ empty' \in BOOLEAN
      /\ members' \subseteq Gens /\ source' \in [Gens -> Tree] /\ mounted' \in BOOLEAN
      /\ mounted' => base' = "failed" /\ disabled' /\ UNCHANGED <<members, source>>
      /\ ~mounted' => base' = "series" /\ ~disabled'
  <2>1. CASE plan.exit
    BY <2>1, UnmountedIs DEF PersistRefused
  <2>2. CASE ~plan.exit
    BY <1>1, <2>2, Blank DEF PersistRefused, Gives, series, RollInv, HostTypes,
      CommitTypes
  <2>3. QED
    BY <2>1, <2>2
<1>3. Active \in Gens /\ Active \in members /\ Active \in files /\ Sealed = Live \ {Active}
      /\ source[Active] = content[Active]
  BY <1>1, ActiveIs DEF Live, RollInv, SourceInv
<1>4. /\ \A g \in Gens \ {Active} : content'[g] = content[g]
      /\ \A n \in Names : n \notin plan.append /\ n \notin plan.delete
                            => content'[Active][n] = content[Active][n]
  <2>1. \A n \in Names : n \notin plan.append /\ n \notin plan.delete
                           => Written[n] = content[Active][n]
    BY DEF Written
  <2>2. QED
    BY <1>1, <1>3, <2>1 DEF RollInv, HostTypes
<1>5. HostTypes'
  <2>1. Written \in Tree
    BY <1>3, RollAssumption DEF Written, Tree, Versions, Nothing, RollInv,
      HostTypes, OverlayTypes
  <2>2. content' \in [Gens -> Tree]
    BY <1>1, <2>1 DEF RollInv, HostTypes
  <2>3. QED
    BY <1>1, <1>2, <2>2 DEF RollInv, HostTypes
<1>6. OverlayTypes'
  BY <1>1 DEF RollInv, OverlayTypes
<1>7. CommitTypes'
  BY <1>1, <1>2 DEF RollInv, CommitTypes, Steps
<1>8. MembersInv'
  <2>1. \A g \in (Gens \ files) \cup (files \ members) : content'[g] = Empty
    BY <1>1, <1>3, <1>4 DEF RollInv, HostTypes, MembersInv
  <2>2. mounted' => UNCHANGED <<members, source>> /\ Active' = Active
    BY <1>2 DEF Active
  <2>3. QED
    BY <1>1, <2>1, <2>2 DEF RollInv, MembersInv
<1>9. RestInv'
  BY <1>2 DEF RestInv
<1>10. SourceInv'
  <2>1. SUFFICES ASSUME mounted' PROVE SourceInv'
    BY DEF SourceInv
  <2>2. base' = "failed" /\ disabled' /\ UNCHANGED <<members, source>>
    BY <1>2, <2>1
  <2>3. Active' = Active /\ Live' = Live /\ Sealed' = Sealed
    BY <1>1, <2>2 DEF Active, Live, Sealed
  <2>4. \A g \in Sealed : source[g] = content'[g]
    BY <1>1, <1>3, <1>4 DEF RollInv, SourceInv, Live, HostTypes
  <2>5. QED
    BY <2>2, <2>3, <2>4 DEF SourceInv
<1>11. PlanInv'
  BY <1>2 DEF PlanInv
<1>12. RemountShowsLatest'
  <2>1. ASSUME NEW n \in Names, ~Covered(n)
        PROVE  Newest(files, content', n) = Newest(files, content, n)
    <3>1. n \notin plan.append /\ n \notin plan.delete
      BY <1>1, <2>1 DEF Covered, RollInv, PlanInv
    <3>2. \A g \in files : content'[g][n] = content[g][n]
      BY <1>4, <3>1 DEF RollInv, HostTypes
    <3>3. files \subseteq Gens
      BY DEF RollInv, HostTypes
    <3>4. QED
      BY <3>2, <3>3, NewestCleared
  <2>2. QED
    BY <1>1, <2>1 DEF RollInv, RemountShowsLatest, Remounted, Covered
<1>13. AcceptedCommits'
  <2>1. SUFFICES ASSUME ~unopened PROVE AcceptedCommits'
    BY <1>1 DEF AcceptedCommits
  <2>2. MaxOf(files) = Active /\ files # {}
    BY <1>1, <2>1, LaterSealed
  <2>3. \A g \in files \ {MaxOf(files)} : content'[g] = content[g]
    BY <1>4, <2>2 DEF RollInv, HostTypes
  <2>4. QED
    BY <1>1, <2>1, <2>2, <2>3 DEF RollInv, AcceptedCommits
<1>14. LooseInv'
  BY <1>1 DEF LooseInv
<1>15. QED
  BY <1>5, <1>6, <1>7, <1>8, <1>9, <1>10, <1>11, <1>12, <1>13, <1>14 DEF
    RollInv

\* A recovery that fails refuses the base; the archives are as they were.
LEMMA RecoveryFailsInv ==
  ASSUME RollInv, RecoveryFails
  PROVE  RollInv'
<1>1. HostTypes'
  BY DEF RecoveryFails, RollInv, HostTypes, host, series
<1>2. OverlayTypes'
  BY DEF RecoveryFails, seen, RollInv, OverlayTypes, overlay
<1>3. CommitTypes'
  BY DEF RecoveryFails, Idle, RollInv, CommitTypes, series, commit
<1>4. MembersInv'
  BY DEF RecoveryFails, RollInv, MembersInv, Active, host, series
<1>5. RestInv'
  BY DEF RecoveryFails, Idle, RestInv
<1>6. SourceInv'
  BY DEF RecoveryFails, Idle, RollInv, SourceInv, Active, Live, Sealed, host,
    series
<1>7. PlanInv'
  BY DEF RecoveryFails, Idle, PlanInv, commit
<1>8. RemountShowsLatest'
  BY DEF RecoveryFails, seen, RollInv, RemountShowsLatest, Remounted, host,
    overlay
<1>9. AcceptedCommits'
  BY DEF RecoveryFails, RollInv, AcceptedCommits, host, overlay
<1>10. LooseInv'
  BY DEF RecoveryFails, Idle, seen, RollInv, LooseInv, Covered, overlay
<1>11. QED
  BY <1>1, <1>2, <1>3, <1>4, <1>5, <1>6, <1>7, <1>8, <1>9, <1>10 DEF RollInv

\* The reopened archive is what the mount serves from then on.
LEMMA ReopenInv ==
  ASSUME RollInv, Reopen
  PROVE  RollInv'
<1>1. HostTypes'
  BY RollAssumption DEF Reopen, seen, RollInv, HostTypes, host, overlay, series,
    flags, commit
<1>2. OverlayTypes'
  BY DEF Reopen, seen, RollInv, OverlayTypes, overlay
<1>3. CommitTypes'
  BY DEF Reopen, seen, RollInv, CommitTypes, NoPlan, Plans, Steps, host, overlay,
    series, flags, commit
<1>4. MembersInv'
  BY DEF Reopen, seen, RollInv, MembersInv, Active, host
<1>5. RestInv'
  BY DEF Reopen, seen, RollInv, CommitTypes, RestInv
<1>6. SourceInv'
  <2>1. /\ UNCHANGED <<files, content, members, upper, tomb, base, disabled,
                       mounted, tree, loose, unopened>>
        /\ source' = [source EXCEPT ![Active] = content[Active]] /\ mounted /\ ~disabled
    BY DEF Reopen, seen, RollInv, CommitTypes, PlanInv, host, overlay, flags
  <2>2. Active' = Active /\ Live' = Live /\ Sealed' = Sealed
    BY <2>1 DEF Active, Live, Sealed
  <2>3. Active \in Gens /\ Sealed = Live \ {Active}
    BY <2>1, ActiveIs
  <2>4. source'[Active] = content[Active] /\ \A g \in Sealed : source'[g] = source[g]
    BY <2>1, <2>3 DEF RollInv, HostTypes
  <2>5. QED
    BY <2>1, <2>2, <2>4 DEF RollInv, SourceInv
<1>7. PlanInv'
  BY DEF Reopen, seen, RollInv, PlanInv, Active, Live, Sealed, host, overlay, flags
<1>8. RemountShowsLatest'
  BY DEF Reopen, seen, RollInv, RemountShowsLatest, Remounted, host, overlay
<1>9. AcceptedCommits'
  BY DEF Reopen, seen, RollInv, AcceptedCommits, host, overlay
<1>10. LooseInv'
  BY CommitLoose DEF Reopen, seen, LooseInv
<1>11. QED
  BY <1>1, <1>2, <1>3, <1>4, <1>5, <1>6, <1>7, <1>8, <1>9, <1>10 DEF RollInv

\* An archive that does not open again disables the commits; the overlay
\* still covers its names.
LEMMA ReopenFailedInv ==
  ASSUME RollInv, ReopenFailed
  PROVE  RollInv'
<1>1. HostTypes'
  BY DEF ReopenFailed, seen, RollInv, HostTypes, host, series
<1>2. OverlayTypes'
  BY DEF ReopenFailed, seen, RollInv, OverlayTypes, overlay
<1>3. CommitTypes'
  BY DEF ReopenFailed, seen, Gives, RollInv, CommitTypes, NoPlan, Plans, Steps,
    host, overlay, series, flags, commit
<1>4. MembersInv'
  BY DEF ReopenFailed, seen, RollInv, MembersInv, Active, host, series
<1>5. RestInv'
  BY DEF ReopenFailed, seen, RollInv, CommitTypes, RestInv
<1>6. SourceInv'
  BY DEF ReopenFailed, seen, RollInv, SourceInv, Covered, Active, Live, Sealed,
    host, overlay, series
<1>7. PlanInv'
  BY DEF ReopenFailed, seen, Gives, PlanInv
<1>8. RemountShowsLatest'
  BY DEF ReopenFailed, seen, RollInv, RemountShowsLatest, Remounted, host, overlay
<1>9. AcceptedCommits'
  BY DEF ReopenFailed, seen, RollInv, AcceptedCommits, host, overlay
<1>10. LooseInv'
  BY DEF ReopenFailed, seen, RollInv, LooseInv, Covered, Active, Live, host, overlay,
    series, flags, commit
<1>11. QED
  BY <1>1, <1>2, <1>3, <1>4, <1>5, <1>6, <1>7, <1>8, <1>9, <1>10 DEF RollInv

\* The attribute rows of the plan are removed.
LEMMA ForgetAttrsInv ==
  ASSUME RollInv, ForgetAttrs
  PROVE  RollInv'
<1>1. HostTypes'
  BY DEF ForgetAttrs, seen, RollInv, HostTypes, host, series
<1>2. OverlayTypes'
  BY DEF ForgetAttrs, seen, RollInv, OverlayTypes
<1>3. CommitTypes'
  BY DEF ForgetAttrs, seen, RollInv, CommitTypes, series, flags, commit
<1>4. MembersInv'
  BY DEF ForgetAttrs, seen, RollInv, MembersInv, Active, host, series
<1>5. RestInv'
  BY DEF ForgetAttrs, seen, RollInv, CommitTypes, RestInv
<1>6. SourceInv'
  BY DEF ForgetAttrs, seen, RollInv, SourceInv, Covered, Active, Live, Sealed,
    host, series, flags
<1>7. PlanInv'
  BY DEF ForgetAttrs, seen, RollInv, PlanInv, Active, Live, Sealed, host, series,
    flags, commit
<1>8. RemountShowsLatest'
  BY DEF ForgetAttrs, seen, RollInv, RemountShowsLatest, Remounted, host
<1>9. AcceptedCommits'
  BY DEF ForgetAttrs, seen, RollInv, AcceptedCommits, host
<1>10. LooseInv'
  BY DEF ForgetAttrs, seen, RollInv, LooseInv, Covered, Active, Live, host, overlay,
    series, flags, commit
<1>11. QED
  BY <1>1, <1>2, <1>3, <1>4, <1>5, <1>6, <1>7, <1>8, <1>9, <1>10 DEF RollInv

\* A file of the overlay is removed once the active archive holds it, where
\* it is the newest copy on disk.
LEMMA ForgetFileInv ==
  ASSUME RollInv, NEW n \in Names, ForgetFile(n)
  PROVE  RollInv'
<1>1. /\ UNCHANGED <<files, content, tomb, attrs, members, source, base,
                     disabled, mounted, tree, loose,
                     unopened, fresh, pc, plan>>
      /\ mounted /\ ~disabled /\ base = "series" /\ pc = "forget" /\ attrs \cap plan.attrs = {}
      /\ n \in plan.append /\ upper[n] # Nothing
      /\ \A m \in Names : upper'[m] = IF m = n THEN Nothing ELSE upper[m]
  BY DEF ForgetFile, seen, RollInv, CommitTypes, OverlayTypes, Tree, PlanInv,
    SourceInv, host, series, flags, commit
<1>2. source[Active] = content[Active]
  BY <1>1 DEF RollInv, SourceInv
<1>3. HostTypes'
  BY DEF ForgetFile, seen, RollInv, HostTypes, host, series
<1>4. OverlayTypes'
  <2>1. Nothing \in Versions
    BY RollAssumption DEF Versions, Nothing
  <2>2. upper' \in Tree
    BY <2>1 DEF ForgetFile, seen, RollInv, OverlayTypes, Tree
  <2>3. QED
    BY <1>1, <2>2 DEF RollInv, OverlayTypes
<1>5. CommitTypes'
  BY DEF ForgetFile, seen, RollInv, CommitTypes, series, flags, commit
<1>6. MembersInv'
  BY DEF ForgetFile, seen, RollInv, MembersInv, Active, host, series
<1>7. RestInv'
  BY DEF ForgetFile, seen, RollInv, CommitTypes, RestInv
<1>8. SourceInv'
  BY <1>1, <1>2 DEF RollInv, SourceInv, Active, Live, Sealed
<1>9. PlanInv'
  BY DEF ForgetFile, seen, RollInv, PlanInv, Active, Live, Sealed, host, series,
    flags, commit
<1>10. RemountShowsLatest'
  <2>1. content[Active][n] = upper[n]
    BY <1>1 DEF RollInv, PlanInv
  <2>2. Newest(files, content, n) = upper[n]
    BY <1>1, <2>1, DiskTop
  <2>3. n \notin tomb
    BY <1>1 DEF RollInv, OverlayTypes
  <2>4. QED
    BY <1>1, <2>2, <2>3 DEF RollInv, RemountShowsLatest, Remounted
<1>11. AcceptedCommits'
  <2>1. n \notin attrs
    BY <1>1 DEF RollInv, PlanInv
  <2>2. QED
    BY <1>1, <2>1 DEF RollInv, OverlayTypes, AcceptedCommits
<1>12. LooseInv'
  BY DEF ForgetFile, seen, RollInv, LooseInv, Covered, Active, Live, host, overlay,
    series, flags, commit
<1>13. QED
  BY <1>3, <1>4, <1>5, <1>6, <1>7, <1>8, <1>9, <1>10, <1>11, <1>12 DEF RollInv

\* A deleted row is removed once no archive holds its name.
LEMMA ForgetTombstoneInv ==
  ASSUME RollInv, NEW n \in Names, ForgetTombstone(n)
  PROVE  RollInv'
<1>1. /\ UNCHANGED <<files, content, upper, attrs, members, source, base,
                     disabled, mounted, tree, loose,
                     unopened, fresh, pc, plan>>
      /\ mounted /\ ~disabled /\ base = "series" /\ pc = "forget"
      /\ n \in tomb /\ n \in plan.delete \ plan.append /\ tomb' = tomb \ {n}
  BY DEF ForgetTombstone, seen, FilesForgotten, RollInv, CommitTypes, PlanInv,
    SourceInv, host, series, flags, commit
<1>2. source[Active] = content[Active]
  BY <1>1 DEF RollInv, SourceInv
<1>3. HostTypes'
  BY DEF ForgetTombstone, seen, RollInv, HostTypes, host, series
<1>4. OverlayTypes'
  BY DEF ForgetTombstone, seen, RollInv, OverlayTypes
<1>5. CommitTypes'
  BY DEF ForgetTombstone, seen, RollInv, CommitTypes, series, flags, commit
<1>6. MembersInv'
  BY DEF ForgetTombstone, seen, RollInv, MembersInv, Active, host, series
<1>7. RestInv'
  BY DEF ForgetTombstone, seen, FilesForgotten, RollInv, CommitTypes, RestInv
<1>8. SourceInv'
  BY <1>1, <1>2 DEF RollInv, SourceInv, Active, Live, Sealed
<1>9. PlanInv'
  BY DEF ForgetTombstone, seen, FilesForgotten, RollInv, PlanInv, Active, Live,
    Sealed, host, series, flags, commit
<1>10. RemountShowsLatest'
  <2>1. \A g \in Live : content[g][n] = Nothing
    BY <1>1, ActiveIs DEF RollInv, PlanInv, SourceInv
  <2>2. Newest(files, content, n) = Nothing
    BY <1>1, <2>1, DiskNone
  <2>3. QED
    BY <1>1, <2>2 DEF RollInv, RemountShowsLatest, Remounted
<1>11. AcceptedCommits'
  BY DEF ForgetTombstone, seen, RollInv, AcceptedCommits, host
<1>12. LooseInv'
  BY DEF ForgetTombstone, seen, RollInv, LooseInv, Covered, Active, Live, host, overlay,
    series, flags, commit
<1>13. QED
  BY <1>3, <1>4, <1>5, <1>6, <1>7, <1>8, <1>9, <1>10, <1>11, <1>12 DEF RollInv

\* A commit that has forgotten everything is over.
LEMMA CommitDoneInv ==
  ASSUME RollInv, CommitDone
  PROVE  RollInv'
<1>1. HostTypes'
  BY DEF CommitDone, seen, RollInv, HostTypes, host, series
<1>2. OverlayTypes'
  BY DEF CommitDone, seen, RollInv, OverlayTypes, overlay
<1>3. CommitTypes'
  BY DEF CommitDone, seen, Gives, RollInv, CommitTypes, NoPlan, Plans, Steps,
    series, flags
<1>4. MembersInv'
  BY DEF CommitDone, seen, RollInv, MembersInv, Active, host, series
<1>5. RestInv'
  BY DEF CommitDone, seen, FilesForgotten, RollInv, CommitTypes, RestInv
<1>6. SourceInv'
  BY DEF CommitDone, seen, FilesForgotten, RollInv, SourceInv, Covered, Active,
    Live, Sealed, host, overlay, series, flags
<1>7. PlanInv'
  BY DEF CommitDone, seen, Gives, PlanInv
<1>8. RemountShowsLatest'
  BY DEF CommitDone, seen, RollInv, RemountShowsLatest, Remounted, host, overlay
<1>9. AcceptedCommits'
  BY DEF CommitDone, seen, RollInv, AcceptedCommits, host, overlay
<1>10. LooseInv'
  BY DEF CommitDone, seen, RollInv, LooseInv, Covered, Active, Live, host, overlay,
    series, flags, commit
<1>11. QED
  BY <1>1, <1>2, <1>3, <1>4, <1>5, <1>6, <1>7, <1>8, <1>9, <1>10 DEF RollInv

\* A commit that fails on the overlay's database is over, and is the last.
LEMMA ForgetFailsInv ==
  ASSUME RollInv, ForgetFails
  PROVE  RollInv'
<1>1. HostTypes'
  BY DEF ForgetFails, seen, RollInv, HostTypes, host, series
<1>2. OverlayTypes'
  BY DEF ForgetFails, seen, RollInv, OverlayTypes, overlay
<1>3. CommitTypes'
  BY DEF ForgetFails, seen, Gives, RollInv, CommitTypes, NoPlan, Plans, Steps,
    series
<1>4. MembersInv'
  BY DEF ForgetFails, seen, RollInv, MembersInv, Active, host, series
<1>5. RestInv'
  BY DEF ForgetFails, seen, RollInv, CommitTypes, RestInv
<1>6. SourceInv'
  BY DEF ForgetFails, seen, RollInv, SourceInv, Covered, Active, Live, Sealed,
    host, overlay, series
<1>7. PlanInv'
  BY DEF ForgetFails, seen, Gives, PlanInv
<1>8. RemountShowsLatest'
  BY DEF ForgetFails, seen, RollInv, RemountShowsLatest, Remounted, host, overlay
<1>9. AcceptedCommits'
  BY DEF ForgetFails, seen, RollInv, AcceptedCommits, host, overlay
<1>10. LooseInv'
  BY DEF ForgetFails, seen, RollInv, LooseInv, Covered, Active, Live, host, overlay,
    series, flags, commit
<1>11. QED
  BY <1>1, <1>2, <1>3, <1>4, <1>5, <1>6, <1>7, <1>8, <1>9, <1>10 DEF RollInv

\* A crash loses the state of the mount only.
LEMMA CrashInv ==
  ASSUME RollInv, Crash
  PROVE  RollInv'
<1>1. HostTypes'
  BY UnmountedIs DEF Crash, seen, RollInv, HostTypes, host
<1>2. OverlayTypes'
  BY DEF Crash, seen, RollInv, OverlayTypes, overlay
<1>3. CommitTypes'
  BY UnmountedIs DEF Crash, seen, RollInv, CommitTypes, Steps
<1>4. MembersInv'
  BY DEF Crash, seen, Unmounted, RollInv, MembersInv, host
<1>5. RestInv'
  BY DEF Crash, seen, Unmounted, RestInv
<1>6. SourceInv'
  BY DEF Crash, seen, Unmounted, SourceInv
<1>7. PlanInv'
  BY DEF Crash, seen, Unmounted, PlanInv
<1>8. RemountShowsLatest'
  BY DEF Crash, seen, RollInv, RemountShowsLatest, Remounted, host, overlay
<1>9. AcceptedCommits'
  BY DEF Crash, seen, RollInv, AcceptedCommits, host, overlay
<1>10. LooseInv'
  BY DEF Crash, seen, Unmounted, RollInv, LooseInv, Covered, overlay
<1>11. QED
  BY <1>1, <1>2, <1>3, <1>4, <1>5, <1>6, <1>7, <1>8, <1>9, <1>10 DEF RollInv

\* So does an exit without a commit.
LEMMA ExitInv ==
  ASSUME RollInv, Exit
  PROVE  RollInv'
<1>1. HostTypes'
  BY UnmountedIs DEF Exit, seen, RollInv, HostTypes, host
<1>2. OverlayTypes'
  BY DEF Exit, seen, RollInv, OverlayTypes, overlay
<1>3. CommitTypes'
  BY UnmountedIs DEF Exit, seen, RollInv, CommitTypes, Steps
<1>4. MembersInv'
  BY DEF Exit, seen, Unmounted, RollInv, MembersInv, host
<1>5. RestInv'
  BY DEF Exit, seen, Unmounted, RestInv
<1>6. SourceInv'
  BY DEF Exit, seen, Unmounted, SourceInv
<1>7. PlanInv'
  BY DEF Exit, seen, Unmounted, PlanInv
<1>8. RemountShowsLatest'
  BY DEF Exit, seen, RollInv, RemountShowsLatest, Remounted, host, overlay
<1>9. AcceptedCommits'
  BY DEF Exit, seen, RollInv, AcceptedCommits, host, overlay
<1>10. LooseInv'
  BY DEF Exit, seen, Unmounted, RollInv, LooseInv, Covered, overlay
<1>11. QED
  BY <1>1, <1>2, <1>3, <1>4, <1>5, <1>6, <1>7, <1>8, <1>9, <1>10 DEF RollInv

-----------------------------------------------------------------------------
\* A series starts with an empty folder.
LEMMA InitInv == Init => RollInv
<1> SUFFICES ASSUME Init PROVE RollInv
  OBVIOUS
<1>1. HostTypes /\ OverlayTypes /\ CommitTypes
  <2>1. Nothing \in Versions
    BY RollAssumption DEF Versions, Nothing
  <2>2. QED
    BY <2>1, Blank DEF Init, HostTypes, OverlayTypes, CommitTypes, Steps
<1>2. MembersInv /\ RestInv /\ SourceInv /\ LooseInv /\ PlanInv /\ AcceptedCommits
  BY DEF Init, MembersInv, RestInv, SourceInv, LooseInv, PlanInv,
    AcceptedCommits
<1>3. RemountShowsLatest
  <2>1. \A n \in Names : Newest({}, content, n) = Nothing
    BY NewestNone
  <2>2. QED
    BY <2>1, Blank DEF Init, RemountShowsLatest, Remounted
<1>4. QED
  BY <1>1, <1>2, <1>3 DEF RollInv

\* Each action by its lemma.
LEMMA NextInv == RollInv /\ [Next]_rollVars => RollInv'
<1> SUFFICES ASSUME RollInv, [Next]_rollVars PROVE RollInv'
  OBVIOUS
<1>1. CASE Mount
  BY <1>1, MountInv
<1>2. ASSUME NEW n \in Names, Write(n) \/ Unlink(n) \/ SetXattr(n) PROVE RollInv'
  BY <1>2, WriteInv, UnlinkInv, SetXattrInv
<1>3. ASSUME NEW from \in Names, NEW to \in Names, Rename(from, to) PROVE RollInv'
  BY <1>3, RenameInv
<1>4. ASSUME NEW g \in Gens, DeleteSealed(g) PROVE RollInv'
  BY <1>4, DeleteSealedInv
<1>5. ASSUME NEW exit \in BOOLEAN, NEW settled \in SUBSET Names, BeginCommit(exit, settled)
      PROVE  RollInv'
  BY <1>5, BeginCommitInv
<1>6. CASE StayActive \/ Rotate \/ RotateUnopened \/ RotateRefused
  BY <1>6, StayActiveInv, RotateInv, RotateUnopenedInv, RotateRefusedInv
<1>7. CASE \/ Persist \/ PersistFails \/ PersistRefused \/ RecoveryFails
          \/ Reopen \/ ReopenFailed
  BY <1>7, PersistInv, PersistFailsInv, PersistRefusedInv, RecoveryFailsInv, ReopenInv,
    ReopenFailedInv
<1>8. ASSUME NEW n \in Names, ForgetFile(n) \/ ForgetTombstone(n) PROVE RollInv'
  BY <1>8, ForgetFileInv, ForgetTombstoneInv
<1>9. CASE ForgetAttrs \/ CommitDone \/ ForgetFails
  BY <1>9, ForgetAttrsInv, CommitDoneInv, ForgetFailsInv
<1>10. CASE Crash \/ Exit
  BY <1>10, CrashInv, ExitInv
<1>11. CASE UNCHANGED rollVars
  BY <1>11 DEF rollVars, RollInv, HostTypes, OverlayTypes, CommitTypes,
    MembersInv, RestInv, SourceInv, LooseInv, PlanInv, RemountShowsLatest,
    AcceptedCommits, Active, Live, Sealed, Covered, Remounted
<1>12. QED
  BY <1>1, <1>2, <1>3, <1>4, <1>5, <1>6, <1>7, <1>8, <1>9, <1>10, <1>11 DEF
    Next

(* RollInv holds in every state of a rolling series.                        *)
THEOREM RollInvariance == RollSpec => []RollInv
<1>1. QED
  BY InitInv, NextInv, PTL DEF RollSpec

(* Whenever the mount of a series dies, the next one shows the newest       *)
(* content of every name, but for names removed while its base was not the  *)
(* archive on disk: no commit, rotation, deletion by the host, failure to   *)
(* open or base refused after a failed write loses one                      *)
(* (rolling_commit_target, refuse_sealed_delete,                            *)
(* refuse_base_after_commit_failure, forget_committed_overlay).             *)
THEOREM RemountShowsLatestHolds == RollSpec => []RemountShowsLatest
<1>1. RollInv => RemountShowsLatest
  BY DEF RollInv
<1>2. QED
  BY <1>1, RollInvariance, PTL

(* What the overlay of a series accepted, a later commit can write.         *)
THEOREM AcceptedCommitsHolds == RollSpec => []AcceptedCommits
<1>1. RollInv => AcceptedCommits
  BY DEF RollInv
<1>2. QED
  BY <1>1, RollInvariance, PTL

(* The running mount shows the newest contents, between the steps of a      *)
(* commit and on an archive it could not reopen, unless its base was        *)
(* refused (RollingMountSource::view, rescan, committed).                   *)
THEOREM MountShowsLatestHolds == RollSpec => []MountShowsLatest
<1>1. RollInv => MountShowsLatest
  BY ViewIsTree DEF MountShowsLatest
<1>2. QED
  BY <1>1, RollInvariance, PTL

\* Only a fault counts as one.
LEMMA FaultsBound == faults \in 0 .. MaxFaults /\ [Next]_rollVars => (faults \in 0 .. MaxFaults)'
<1> SUFFICES ASSUME faults \in 0 .. MaxFaults, [Next]_rollVars PROVE faults' = faults \/ Fault
  BY RollAssumption DEF Fault
<1>1. CASE Mount \/ StayActive \/ Rotate \/ RotateUnopened \/ RotateRefused
  BY <1>1 DEF Mount, StayActive, Rotate, RotateUnopened, RotateRefused
<1>2. ASSUME NEW n \in Names, NEW m \in Names,
             \/ Write(n) \/ Unlink(n) \/ SetXattr(n) \/ Rename(n, m)
             \/ ForgetFile(n) \/ ForgetTombstone(n)
      PROVE  faults' = faults
  BY <1>2 DEF Write, Unlink, SetXattr, Rename, ForgetFile, ForgetTombstone
<1>3. ASSUME NEW g \in Gens, DeleteSealed(g) PROVE faults' = faults
  BY <1>3 DEF DeleteSealed
<1>4. ASSUME NEW exit \in BOOLEAN, NEW settled \in SUBSET Names, BeginCommit(exit, settled)
      PROVE  faults' = faults
  BY <1>4 DEF BeginCommit
<1>5. CASE \/ Persist \/ PersistFails \/ PersistRefused \/ RecoveryFails
          \/ Reopen \/ ReopenFailed
  BY <1>5 DEF Persist, PersistFails, PersistRefused, RecoveryFails, Reopen, ReopenFailed
<1>6. CASE ForgetAttrs \/ CommitDone \/ ForgetFails \/ Crash \/ Exit
  BY <1>6 DEF ForgetAttrs, CommitDone, ForgetFails, Crash, Exit
<1>7. CASE UNCHANGED rollVars
  BY <1>7 DEF rollVars
<1>8. QED
  BY <1>1, <1>2, <1>3, <1>4, <1>5, <1>6, <1>7 DEF Next

(* The state of a series keeps its types, and the faults their bound.       *)
THEOREM RollTypeCorrect == RollSpec => []RollTypeOK
<1>1. Init => faults \in 0 .. MaxFaults
  BY RollAssumption DEF Init
<1>2. RollInv /\ faults \in 0 .. MaxFaults => RollTypeOK
  BY DEF RollInv, HostTypes, OverlayTypes, CommitTypes, Plans, RollTypeOK
<1>3. QED
  BY <1>1, <1>2, FaultsBound, RollInvariance, PTL DEF RollSpec

=============================================================================
