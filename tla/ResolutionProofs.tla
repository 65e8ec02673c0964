-------------------------- MODULE ResolutionProofs --------------------------
(***************************************************************************)
(* Theorems about resolutions.  Resolution: whichever way a run found its  *)
(* plan, the plan meets its requirements and each collection comes from    *)
(* its own server.  Lockfiles: what is locked is what a frozen run takes.  *)
(*                                                                         *)
(* Two facts carry the first part.  Servers only ever add versions, so     *)
(* that what a cache holds of a server says for good that the server has   *)
(* the collection: every walk that is answered, by whatever cache or       *)
(* request, is answered by the first candidate that has it.  And a saved   *)
(* plan meets the requirements that its hash names.  The second part rests *)
(* on what each kind of entry says of the resolution it was written for.   *)
(***************************************************************************)
EXTENDS Resolution, Lockfiles, WellFoundedInduction, TLAPS

Flags == {"refresh", "no-cache", "offline", "no-deps"}
Specs == [Collections -> [want : SUBSET Versions, source : Servers \cup {None}] \cup {None}]
Plans == [resolved : [Collections -> [version : Versions, source : Servers] \cup {None}],
          graph : [Collections -> SUBSET Collections]]
Documents == [Servers -> [Collections -> [versions : SUBSET Versions, fresh : BOOLEAN] \cup {None}]]
Snapshots ==
  [root : Documents,
   doc : SUBSET [s : Servers, c : Collections, v : Versions],
   deps : SUBSET [base : Servers, c : Collections, v : Versions, from : Servers],
   saved : Plans, spec : Specs,
   hash : [spec : Specs, noDeps : BOOLEAN, list : Seq(Servers)] \cup {None}]
Runs == [pc : {"idle", "choose", "prewarm", "solve", "done"}, mode : SUBSET Flags, list : Seq(Servers),
         spec : Specs, roots : SUBSET Collections, how : {None, "replayed", "solved", "merged"}]
Answers == [versions : [Collections -> (SUBSET Versions) \cup {None}],
            bound : [Collections -> Servers \cup {None}],
            deps : SUBSET [c : Collections, v : Versions, from : Servers]]
TypeOK ==
  /\ serves \in [Servers -> [Collections -> SUBSET Versions]]
  /\ disk \in Snapshots /\ st \in Snapshots
  /\ run \in Runs /\ run.roots \subseteq Required(run.spec)
  /\ run.pc # "idle" => run.list # <<>>
  /\ asked \in Answers /\ result \in Plans

-----------------------------------------------------------------------------
\* The inductive invariant

\* The plan r meets spec on the roots, with nothing left out or over.
DepsIn(r, c, bare) ==
  IF bare THEN NoSpec ELSE Needs[r.resolved[c].source][c][r.resolved[c].version]
MeetsRoots(r, spec, roots) == \A c \in roots : c \in In(r) /\ r.resolved[c].version \in spec[c].want
MeetsDeps(r, bare) ==
  \A c \in In(r) :
    /\ r.graph[c] = {e \in Collections : DepsIn(r, c, bare)[e] # None}
    /\ \A e \in r.graph[c] : e \in In(r) /\ r.resolved[e].version \in DepsIn(r, c, bare)[e]
NoneOver(r, roots) == \A e \in In(r) \ roots : \E c \in In(r) : e \in r.graph[c]
Meets(r, spec, roots, bare) == MeetsRoots(r, spec, roots) /\ MeetsDeps(r, bare) /\ NoneOver(r, roots)

\* What is cached of a server is what the server has, under the server's
\* name; and the plan on record meets the requirements its hash names.
Backed(root) == \A s \in Servers, c \in Collections : root[s][c] # None => serves[s][c] # {}
Sourced(snapshot) ==
  /\ Backed(snapshot.root)
  /\ \A d \in snapshot.doc : d.v \in serves[d.s][d.c]
  /\ \A d \in snapshot.deps : d.from = d.base /\ d.v \in serves[d.base][d.c]
Recording(snapshot) ==
  In(snapshot.saved) # {} =>
    Meets(snapshot.saved, snapshot.hash.spec, Required(snapshot.hash.spec), snapshot.hash.noDeps)
Sound(snapshot) == Sourced(snapshot) /\ Recording(snapshot)

\* s is the first of c's candidates to have it; nobody has it.
First(s, c) ==
  \E i \in DOMAIN serverCandidates(c) :
    /\ serverCandidates(c)[i] = s /\ serves[s][c] # {}
    /\ \A j \in 1 .. (i - 1) : serves[serverCandidates(c)[j]][c] = {}
Nowhere(c) == \A i \in DOMAIN serverCandidates(c) : serves[serverCandidates(c)[i]][c] = {}

\* A collection is bound to the first of its candidates that has it, and what
\* the solver was told comes from there.
BoundToFirst == \A c \in Collections : asked.bound[c] # None => First(asked.bound[c], c)
Bindings ==
  /\ run.pc \in {"idle", "choose", "prewarm"} => asked = NoAnswers
  /\ BoundToFirst
  /\ \A d \in asked.deps : asked.bound[d.c] = d.from
  /\ \A c \in Collections : asked.versions[c] # None =>
       IF asked.bound[c] = None THEN asked.versions[c] = {} /\ Nowhere(c)
       ELSE Vetoed => asked.versions[c] = serves[asked.bound[c]][c]

\* What is solved in part is the rest of a plan on record.
Planned ==
  /\ Working => \/ run.roots = Required(run.spec)
                \/ Incremental /\ ~Vetoed /\ run.roots = Changed
  /\ run.pc = "done" => /\ Meets(result, run.spec, Required(run.spec), Has("no-deps"))
                        /\ Vetoed => run.how = "solved"

IInv == TypeOK /\ Sound(st) /\ Sound(disk) /\ Bindings /\ Planned /\ AnsweredByItsServer /\ RefreshSeesTheCurrent

-----------------------------------------------------------------------------
\* Who answers a walk

LEMMA CandidatesAreServers ==
  ASSUME TypeOK, run.pc # "idle", NEW c \in Collections
  PROVE  /\ serverCandidates(c) \in Seq(Servers)
         /\ Len(serverCandidates(c)) \in Nat \ {0}
         /\ DOMAIN serverCandidates(c) = 1 .. Len(serverCandidates(c))
         /\ SourceOf(c) \in Servers \cup {None}
<1>1. SourceOf(c) \in Servers \cup {None}
  <2>1. CASE c \in run.roots
    <3>1. run.spec[c] # None /\ run.spec \in Specs  BY <2>1 DEF TypeOK, Required, Runs
    <3>2. run.spec[c] \in [want : SUBSET Versions, source : Servers \cup {None}]  BY <3>1 DEF Specs
    <3> QED  BY <2>1, <3>2 DEF SourceOf
  <2>2. CASE c \notin run.roots  BY <2>2 DEF SourceOf
  <2> QED  BY <2>1, <2>2
<1>2. run.list \in Seq(Servers) /\ run.list # <<>>  BY DEF TypeOK, Runs
<1>3. CASE SourceOf(c) # None
  <2>1. serverCandidates(c) = <<SourceOf(c)>> /\ SourceOf(c) \in Servers  BY <1>1, <1>3 DEF serverCandidates
  <2> QED  BY <1>1, <2>1
<1>4. CASE SourceOf(c) = None
  <2>1. serverCandidates(c) = run.list  BY <1>4 DEF serverCandidates
  <2> QED  BY <1>1, <1>2, <2>1
<1> QED  BY <1>3, <1>4

\* There is one first.
LEMMA FirstIsOne ==
  ASSUME TypeOK, run.pc # "idle", NEW c \in Collections, NEW s, First(s, c)
  PROVE  /\ ~Nowhere(c) /\ s \in Servers
         /\ \A t : First(t, c) => t = s
<1> DEFINE list == serverCandidates(c)
<1>1. list \in Seq(Servers) /\ DOMAIN list = 1 .. Len(list) /\ Len(list) \in Nat  BY CandidatesAreServers
<1>2. PICK i \in DOMAIN list : list[i] = s /\ serves[s][c] # {} /\ \A j \in 1 .. (i - 1) : serves[list[j]][c] = {}
  BY DEF First
<1>3. ~Nowhere(c)  BY <1>2 DEF Nowhere
<1>4. s \in Servers  BY <1>1, <1>2
<1>5. ASSUME NEW t, First(t, c)  PROVE t = s
  <2>1. PICK k \in DOMAIN list : list[k] = t /\ serves[t][c] # {} /\ \A j \in 1 .. (k - 1) : serves[list[j]][c] = {}
    BY <1>5 DEF First
  <2>2. i \in Nat \ {0} /\ k \in Nat \ {0}  BY <1>1
  <2>3. ~(i < k)
    <3>1. SUFFICES ASSUME i < k  PROVE FALSE  OBVIOUS
    <3>2. i \in 1 .. (k - 1)  BY <2>2, <3>1
    <3> QED  BY <1>2, <2>1, <3>2
  <2>4. ~(k < i)
    <3>1. SUFFICES ASSUME k < i  PROVE FALSE  OBVIOUS
    <3>2. k \in 1 .. (i - 1)  BY <2>2, <3>1
    <3> QED  BY <1>2, <2>1, <3>2
  <2>5. i = k  BY <2>2, <2>3, <2>4
  <2> QED  BY <1>2, <2>1, <2>5
<1> HIDE DEF list
<1> QED  BY <1>3, <1>4, <1>5

LEMMA Smallest ==
  ASSUME NEW S \in SUBSET Nat, S # {}
  PROVE  \E i \in S : \A j \in S : i <= j
<1> DEFINE Below == OpToRel(<, Nat)
<1>1. IsWellFoundedOn(Below, Nat)  BY NatLessThanWellFounded, Zenon
<1>2. \A i, j \in Nat : i < j => <<i, j>> \in Below
  <2>1. Below = {ss \in Nat \X Nat : ss[1] < ss[2]}  BY Zenon DEF OpToRel
  <2> HIDE DEF Below
  <2> QED  BY <2>1
<1> HIDE DEF Below
<1>3. PICK i \in S : \A j \in S : ~(<<j, i>> \in Below)  BY <1>1, WFMin, Zenon
<1>4. \A j \in S : ~(j < i)  BY <1>2, <1>3
<1> QED  BY <1>4

\* A walk that is answered is answered by the first candidate that has the
\* collection, from its cache or by itself; it is told that nobody has it
\* only if so.
LEMMA WalkEnds ==
  ASSUME TypeOK, run.pc # "idle", Backed(st.root), NEW c \in Collections, NEW exact \in BOOLEAN, NEW down
  PROVE  LET w == Walk(c, exact, down) IN
         \/ w.answer = "unknown" /\ w.base = None /\ Nowhere(c)
         \/ w.answer = "failed" /\ w.base \in Servers
         \/ w.answer = "cached" /\ w.base \in Servers /\ First(w.base, c) /\ Served(w.base, c, exact)
         \/ w.answer = "fetched" /\ w.base \in Servers /\ First(w.base, c)
<1> DEFINE list == serverCandidates(c)
           Left == {i \in DOMAIN list : ~NotFound(list[i], c, exact, down)}
           k == CHOOSE i \in Left : \A j \in Left : i <= j
           w == Walk(c, exact, down)
<1>1. list \in Seq(Servers) /\ DOMAIN list = 1 .. Len(list) /\ Len(list) \in Nat  BY CandidatesAreServers
<1>2. CASE Left = {}
  <2>1. w = [answer |-> "unknown", base |-> None]  BY <1>2 DEF Walk
  <2>2. Nowhere(c)  BY <1>2 DEF Nowhere, NotFound
  <2> QED  BY <2>1, <2>2
<1>3. CASE Left # {}
  <2>1. k \in Left /\ \A j \in Left : k <= j
    <3>1. Left \in SUBSET Nat  BY <1>1
    <3>2. \E i \in Left : \A j \in Left : i <= j  BY <1>3, <3>1, Smallest
    <3> HIDE DEF Left
    <3> QED  BY <3>2
  <2> DEFINE s == list[k]
  <2>2. w = [base |-> s,
             answer |-> CASE Served(s, c, exact) -> "cached"
                          [] ~Served(s, c, exact) /\ Fails(s, down) -> "failed"
                          [] OTHER -> "fetched"]
    BY <1>3 DEF Walk
  <2>3. k \in DOMAIN list /\ ~NotFound(s, c, exact, down)  BY <2>1
  <2>4. s \in Servers  BY <1>1, <2>3
  <2>5. \A j \in 1 .. (k - 1) : serves[list[j]][c] = {}
    <3>1. SUFFICES ASSUME NEW j \in 1 .. (k - 1)  PROVE serves[list[j]][c] = {}  OBVIOUS
    <3>2. j \in DOMAIN list /\ j < k  BY <1>1, <2>3
    <3>3. j \notin Left  BY <1>1, <2>1, <3>2
    <3> QED  BY <3>2, <3>3 DEF NotFound
  <2>6. serves[s][c] # {} => First(s, c)  BY <2>3, <2>5 DEF First
  <2>7. Served(s, c, exact) => serves[s][c] # {}  BY <2>4 DEF Served, Backed
  <2> HIDE DEF k, s, Left, list
  <2>8. CASE Served(s, c, exact)  BY <2>2, <2>4, <2>6, <2>7, <2>8
  <2>9. CASE ~Served(s, c, exact) /\ Fails(s, down)  BY <2>2, <2>4, <2>9
  <2>10. CASE ~Served(s, c, exact) /\ ~Fails(s, down)
    <3>1. First(s, c)  BY <2>3, <2>6, <2>10 DEF NotFound
    <3> QED  BY <2>2, <2>4, <2>10, <3>1
  <2> QED  BY <2>8, <2>9, <2>10
<1> QED  BY <1>2, <1>3

\* What a walk tells of a collection.
LEMMA ToldOfIt ==
  ASSUME TypeOK, run.pc # "idle", Backed(st.root), NEW c \in Collections, NEW exact \in BOOLEAN, NEW down
  PROVE  LET w == Walk(c, exact, down) IN
         /\ Told(w, c) \in SUBSET Versions
         /\ w.answer = "unknown" => Told(w, c) = {}
         /\ w.answer \in {"cached", "fetched"} /\ ~exact /\ Vetoed => Told(w, c) = serves[w.base][c]
<1> DEFINE w == Walk(c, exact, down)
<1>1. \/ w.answer = "unknown"
      \/ w.answer = "failed"
      \/ w.answer = "cached" /\ w.base \in Servers /\ Served(w.base, c, exact)
      \/ w.answer = "fetched" /\ w.base \in Servers  BY WalkEnds
<1> SUFFICES
      /\ Told(w, c) \in SUBSET Versions
      /\ w.answer = "unknown" => Told(w, c) = {}
      /\ w.answer \in {"cached", "fetched"} /\ ~exact /\ Vetoed => Told(w, c) = serves[w.base][c]
    OBVIOUS
<1> HIDE DEF w
<1>2. CASE w.answer = "cached" /\ w.base \in Servers /\ Served(w.base, c, exact)
  <2>1. Told(w, c) = st.root[w.base][c].versions  BY <1>2 DEF Told
  <2>2. st.root[w.base][c] # None  BY <1>2 DEF Served
  <2>3. st.root \in Documents  BY DEF TypeOK, Snapshots
  <2>4. st.root[w.base][c] \in [versions : SUBSET Versions, fresh : BOOLEAN]  BY <1>2, <2>2, <2>3 DEF Documents
  <2>5. Served(w.base, c, exact) => exact \/ ~Vetoed  BY DEF Served, Policy, Vetoed
  <2>6. Told(w, c) \in SUBSET Versions  BY <2>1, <2>4
  <2> QED  BY <1>2, <2>5, <2>6
<1>3. CASE w.answer = "fetched" /\ w.base \in Servers
  <2>1. Told(w, c) = serves[w.base][c]  BY <1>3 DEF Told
  <2>2. Told(w, c) \in SUBSET Versions  BY <1>3, <2>1 DEF TypeOK
  <2> QED  BY <1>3, <2>1, <2>2
<1>4. CASE w.answer \in {"unknown", "failed"}
  <2>1. Told(w, c) = {}  BY <1>4 DEF Told
  <2>2. Told(w, c) \in SUBSET Versions  BY <2>1
  <2> QED  BY <1>4, <2>1, <2>2
<1> QED  BY <1>1, <1>2, <1>3, <1>4

-----------------------------------------------------------------------------
\* What is cached

\* What a walk fetched is cached as the server's.
LEMMA KeptIsSourced ==
  ASSUME TypeOK, run.pc # "idle", Backed(st.root), NEW c \in Collections, NEW exact \in BOOLEAN, NEW down,
         NEW snapshot \in Snapshots, Sourced(snapshot)
  PROVE  LET kept == Kept(snapshot, Walk(c, exact, down), c, exact) IN
         /\ kept \in Snapshots /\ Sourced(kept)
         /\ \A f \in {"doc", "deps", "saved", "spec", "hash"} : kept[f] = snapshot[f]
<1> DEFINE w == Walk(c, exact, down)
           document == [versions |-> serves[w.base][c], fresh |-> TRUE]
           kept == Kept(snapshot, w, c, exact)
<1>1. CASE w.answer = "fetched" /\ Policy(exact).write
  <2>1. w.base \in Servers /\ First(w.base, c)  BY <1>1, WalkEnds
  <2>2. serves[w.base][c] # {}  BY <2>1 DEF First
  <2>3. document \in [versions : SUBSET Versions, fresh : BOOLEAN]  BY <2>1 DEF TypeOK
  <2>4. kept = [snapshot EXCEPT !.root[w.base][c] = document]  BY <1>1 DEF Kept
  <2> HIDE DEF document, kept, w
  <2>5. snapshot.root \in Documents  BY DEF Snapshots
  <2>6. kept.root = [snapshot.root EXCEPT ![w.base][c] = document]
        /\ \A f \in {"doc", "deps", "saved", "spec", "hash"} : kept[f] = snapshot[f]
    BY <2>4 DEF Snapshots
  <2>7. kept.root \in Documents  BY <2>1, <2>3, <2>5, <2>6 DEF Documents
  <2>8. kept \in Snapshots  BY <2>4, <2>6, <2>7 DEF Snapshots
  <2>9. Backed(kept.root)
    <3>1. SUFFICES ASSUME NEW t \in Servers, NEW e \in Collections, kept.root[t][e] # None
                   PROVE  serves[t][e] # {}  BY DEF Backed
    <3>2. CASE t = w.base /\ e = c  BY <2>2, <3>2
    <3>3. CASE ~(t = w.base /\ e = c)
      <4>1. kept.root[t][e] = snapshot.root[t][e]  BY <2>1, <2>5, <2>6, <3>3 DEF Documents
      <4> QED  BY <3>1, <4>1 DEF Sourced, Backed
    <3> QED  BY <3>2, <3>3
  <2>10. Sourced(kept)  BY <2>6, <2>9 DEF Sourced
  <2> QED  BY <2>6, <2>8, <2>10 DEF kept, w
<1>2. CASE ~(w.answer = "fetched" /\ Policy(exact).write)
  <2>1. kept = snapshot  BY <1>2 DEF Kept
  <2> QED  BY <2>1
<1> QED  BY <1>1, <1>2

\* A collection's dependencies are filed, and read back, under the first of
\* its candidates that has it; what a question caches, it caches as its own.
LEMMA DependenciesAreItsOwn ==
  ASSUME TypeOK, run.pc # "idle", Sourced(st), BoundToFirst,
         NEW c \in Collections, NEW v \in Versions, NEW down
  PROVE  LET d == Dependencies(c, v, down) IN
         /\ d.kept \in Snapshots /\ Sourced(d.kept)
         /\ \A f \in {"saved", "spec", "hash"} : d.kept[f] = st[f]
         /\ ~d.failed => d.base \in Servers /\ d.from = d.base /\ First(d.base, c)
<1> DEFINE at == boundBaseFor(c, down)
           known == {d \in at.kept.deps : d.base = at.base /\ d.c = c /\ d.v = v}
           cached == Policy(TRUE).read /\ known # {}
           walk == Walk(c, TRUE, down)
           s == walk.base
           lost == walk.answer \in {"unknown", "failed"}
           kept == Kept(at.kept, walk, c, TRUE)
           list == serverCandidates(c)
           filed == [kept EXCEPT !.doc = @ \cup {[s |-> s, c |-> c, v |-> v]},
                                 !.deps = @ \cup {[base |-> at.base, c |-> c, v |-> v, from |-> s]}]
           d == Dependencies(c, v, down)
<1>0. st \in Snapshots /\ Backed(st.root)  BY DEF TypeOK, Sourced
<1>1. \A x \in Snapshots : Sourced(x) =>
        /\ Kept(x, walk, c, TRUE) \in Snapshots /\ Sourced(Kept(x, walk, c, TRUE))
        /\ \A f \in {"doc", "deps", "saved", "spec", "hash"} : Kept(x, walk, c, TRUE)[f] = x[f]
  BY <1>0, KeptIsSourced
<1>a. \/ Len(list) = 1 /\ at.base = list[1] /\ at.kept = st
      \/ asked.bound[c] # None /\ at.base = asked.bound[c] /\ at.kept = st
      \/ at.base = s /\ at.kept = Kept(st, walk, c, TRUE) /\ (~at.failed => ~lost)
  BY DEF boundBaseFor
<1>w. ~lost => s \in Servers /\ First(s, c)
  BY <1>0, WalkEnds
<1>2. at.kept \in Snapshots /\ Sourced(at.kept) /\ \A f \in {"saved", "spec", "hash"} : at.kept[f] = st[f]
  <2> HIDE DEF at, lost, walk
  <2>1. at.kept = st \/ at.kept = Kept(st, walk, c, TRUE)  BY <1>a
  <2> QED  BY <1>0, <1>1, <2>1
<1>3. /\ kept \in Snapshots /\ Sourced(kept)
      /\ \A f \in {"doc", "deps", "saved", "spec", "hash"} : kept[f] = at.kept[f]
  <2> HIDE DEF at, lost, walk
  <2> QED  BY <1>1, <1>2
<1>4. list \in Seq(Servers) /\ DOMAIN list = 1 .. Len(list) /\ Len(list) \in Nat  BY CandidatesAreServers
<1>5. d = IF cached THEN [failed |-> at.failed, base |-> at.base, from |-> (CHOOSE x \in known : TRUE).from, kept |-> at.kept]
          ELSE IF at.failed \/ lost \/ ~Document(s, c, v, down)
          THEN [failed |-> TRUE, base |-> None, from |-> None, kept |-> at.kept]
          ELSE [failed |-> FALSE, base |-> s, from |-> s, kept |-> IF Policy(TRUE).write THEN filed ELSE kept]
  BY Zenon DEF Dependencies
<1> SUFFICES
      /\ d.kept \in Snapshots /\ Sourced(d.kept)
      /\ \A f \in {"saved", "spec", "hash"} : d.kept[f] = st[f]
      /\ ~d.failed => d.base \in Servers /\ d.from = d.base /\ First(d.base, c)
    OBVIOUS
<1>6. CASE cached
  <2>1. d = [failed |-> at.failed, base |-> at.base, from |-> (CHOOSE x \in known : TRUE).from, kept |-> at.kept]
    BY <1>5, <1>6
  <2>2. PICK x \in known : x = (CHOOSE y \in known : TRUE)  BY <1>6
  <2>3. x.base = at.base /\ x.from = at.base /\ x.base \in Servers /\ v \in serves[at.base][c]
    BY <1>2, <2>2 DEF Sourced, Snapshots
  <2>4. ~at.failed => First(at.base, c)
    <3>1. CASE Len(list) = 1 /\ at.base = list[1] /\ at.kept = st
      <4>1. 1 \in DOMAIN list /\ list[1] = at.base  BY <1>4, <3>1
      <4>2. \A j \in 1 .. (1 - 1) : serves[list[j]][c] = {}  OBVIOUS
      <4> QED  BY <2>3, <4>1, <4>2 DEF First
    <3>2. CASE asked.bound[c] # None /\ at.base = asked.bound[c] /\ at.kept = st
      BY <3>2 DEF BoundToFirst
    <3>3. CASE at.base = s /\ at.kept = Kept(st, walk, c, TRUE) /\ (~at.failed => ~lost)
      <4> HIDE DEF at, lost, walk
      <4> QED  BY <1>w, <3>3
    <3> HIDE DEF at, lost, walk, list
    <3> QED  BY <1>a, <3>1, <3>2, <3>3
  <2> HIDE DEF d, at, known, cached
  <2> QED  BY <1>2, <2>1, <2>2, <2>3, <2>4
<1>7. CASE ~cached /\ (at.failed \/ lost \/ ~Document(s, c, v, down))
  <2> HIDE DEF at, lost, walk, known, cached, kept, filed, d
  <2>1. d = [failed |-> TRUE, base |-> None, from |-> None, kept |-> at.kept]  BY <1>5, <1>7
  <2> QED  BY <1>2, <2>1
<1>8. CASE ~cached /\ ~at.failed /\ ~lost /\ Document(s, c, v, down)
  <2>1. s \in Servers /\ First(s, c)
    <3> HIDE DEF lost, walk
    <3> QED  BY <1>w, <1>8
  <2>2. at.base = s
    <3> HIDE DEF at, lost, walk, list
    <3>1. CASE Len(list) = 1 /\ at.base = list[1] /\ at.kept = st
      <4>1. PICK i \in DOMAIN list : list[i] = s  BY <2>1 DEF First, list
      <4>2. i = 1  BY <1>4, <3>1
      <4> QED  BY <3>1, <4>1, <4>2
    <3>2. CASE asked.bound[c] # None /\ at.base = asked.bound[c] /\ at.kept = st
      <4>1. First(asked.bound[c], c)  BY <3>2 DEF BoundToFirst
      <4> QED  BY <2>1, <3>2, <4>1, FirstIsOne
    <3>3. CASE at.base = s /\ at.kept = Kept(st, walk, c, TRUE) /\ (~at.failed => ~lost)
      BY <3>3
    <3> QED  BY <1>a, <3>1, <3>2, <3>3
  <2>3. v \in serves[s][c]  BY <1>8 DEF Document, Sourced
  <2>4. filed \in Snapshots /\ Sourced(filed)
    <3> DEFINE document == [s |-> s, c |-> c, v |-> v]
               filing == [base |-> at.base, c |-> c, v |-> v, from |-> s]
    <3>1. document \in [s : Servers, c : Collections, v : Versions]
          /\ filing \in [base : Servers, c : Collections, v : Versions, from : Servers]
      BY <2>1, <2>2
    <3>2. document.v \in serves[document.s][document.c]
          /\ filing.from = filing.base /\ filing.v \in serves[filing.base][filing.c]
      BY <2>2, <2>3
    <3> HIDE DEF document, filing, kept, at, walk
    <3>3. filed = [kept EXCEPT !.doc = @ \cup {document}, !.deps = @ \cup {filing}]  BY DEF document, filing
    <3> HIDE DEF filed
    <3>4. filed \in Snapshots  BY <1>3, <3>1, <3>3 DEF Snapshots
    <3>5. filed.root = kept.root /\ filed.doc = kept.doc \cup {document} /\ filed.deps = kept.deps \cup {filing}
      BY <1>3, <3>3 DEF Snapshots
    <3> QED  BY <1>3, <3>2, <3>4, <3>5 DEF Sourced
  <2>5. \A f \in {"saved", "spec", "hash"} : filed[f] = kept[f] /\ kept[f] = st[f]
    <3> HIDE DEF kept, at, walk
    <3> QED  BY <1>2, <1>3 DEF Snapshots
  <2> HIDE DEF at, lost, walk, known, cached, kept, filed, d
  <2>6. d = [failed |-> FALSE, base |-> s, from |-> s, kept |-> IF Policy(TRUE).write THEN filed ELSE kept]
    BY <1>5, <1>8
  <2> QED  BY <1>3, <2>1, <2>4, <2>5, <2>6
<1> HIDE DEF at, lost, walk, known, cached, kept, filed, d
<1> QED  BY <1>6, <1>7, <1>8
-----------------------------------------------------------------------------
\* What a selection makes of the answers

LEMMA SourceForIsServer ==
  ASSUME TypeOK, run.pc # "idle", NEW c \in Collections
  PROVE  /\ sourceFor(c) \in Servers
         /\ asked.bound[c] # None => sourceFor(c) = asked.bound[c]
         /\ asked.bound[c] = None =>
              \E i \in DOMAIN serverCandidates(c) : serverCandidates(c)[i] = sourceFor(c)
<1>1. asked.bound[c] \in Servers \cup {None}  BY DEF TypeOK, Answers
<1>2. SourceOf(c) \in Servers \cup {None}  BY CandidatesAreServers
<1>3. run.list \in Seq(Servers) /\ run.list # <<>>  BY DEF TypeOK, Runs
<1>4. run.list[1] \in Servers /\ 1 \in DOMAIN run.list  BY <1>3
<1>5. CASE asked.bound[c] # None
  <2>1. sourceFor(c) = asked.bound[c]  BY <1>5 DEF sourceFor
  <2> QED  BY <1>1, <1>5, <2>1
<1>6. CASE asked.bound[c] = None /\ SourceOf(c) # None
  <2>1. sourceFor(c) = SourceOf(c)  BY <1>6 DEF sourceFor
  <2>2. serverCandidates(c) = <<SourceOf(c)>>  BY <1>6 DEF serverCandidates
  <2>3. 1 \in DOMAIN serverCandidates(c) /\ serverCandidates(c)[1] = SourceOf(c)  BY <2>2
  <2> QED  BY <1>2, <1>6, <2>1, <2>3
<1>7. CASE asked.bound[c] = None /\ SourceOf(c) = None
  <2>1. sourceFor(c) = run.list[1]  BY <1>7 DEF sourceFor
  <2>2. serverCandidates(c) = run.list  BY <1>7 DEF serverCandidates
  <2> QED  BY <1>4, <1>7, <2>1, <2>2
<1> QED  BY <1>5, <1>6, <1>7

\* The needs a version was learnt to have are those its source declares.
LEMMA NeedsAreTheSources ==
  ASSUME TypeOK, Bindings, run.pc # "idle", NEW c \in Collections, NEW v,
         ~Has("no-deps"), Learnt(c, v)
  PROVE  NeedsOf(c, v) = Needs[sourceFor(c)][c][v] /\ asked.bound[c] # None
<1> DEFINE d == CHOOSE x \in asked.deps : x.c = c /\ x.v = v
<1>1. d \in asked.deps /\ d.c = c /\ d.v = v  BY DEF Learnt
<1>2. NeedsOf(c, v) = Needs[d.from][c][v]  BY DEF NeedsOf
<1> HIDE DEF d
<1>3. d.from \in Servers  BY <1>1 DEF TypeOK, Answers
<1>4. asked.bound[c] = d.from  BY <1>1 DEF Bindings
<1>5. asked.bound[c] # None  BY <1>3, <1>4, ConstantsAssumption
<1> QED  BY <1>2, <1>4, <1>5, SourceForIsServer

\* A selection is a plan for the roots that were solved.
LEMMA ResolvedMeets ==
  ASSUME TypeOK, Bindings, run.pc # "idle", NEW sel \in Selections
  PROVE  /\ Resolved(sel) \in Plans
         /\ Meets(Resolved(sel), run.spec, run.roots, Has("no-deps"))
<1> DEFINE new == Resolved(sel)
           chosen == {c \in Collections : sel[c] # None}
           bare == Has("no-deps")
<1>1. /\ sel \in [Collections -> Versions \cup {None}]
      /\ run.roots \subseteq chosen
      /\ \A c \in chosen : bare \/ Learnt(c, sel[c])
      /\ \A c \in run.roots : sel[c] \in run.spec[c].want
      /\ \A c \in chosen, e \in Collections :
           NeedsOf(c, sel[c])[e] # None => e \in chosen /\ sel[e] \in NeedsOf(c, sel[c])[e]
      /\ \A e \in chosen \ run.roots : \E c \in chosen : NeedsOf(c, sel[c])[e] # None
  BY DEF Selections
<1>2. /\ new.resolved = [c \in Collections |-> IF sel[c] = None THEN None ELSE [version |-> sel[c], source |-> sourceFor(c)]]
      /\ new.graph = [c \in Collections |-> IF sel[c] = None THEN {}
                                            ELSE {e \in Collections : NeedsOf(c, sel[c])[e] # None}]
      /\ new = [resolved |-> new.resolved, graph |-> new.graph]
  BY DEF Resolved
<1> HIDE DEF new
<1>3. ASSUME NEW c \in chosen
      PROVE  /\ new.resolved[c].version = sel[c] /\ new.resolved[c].source = sourceFor(c)
             /\ new.resolved[c] \in [version : Versions, source : Servers] /\ new.resolved[c] # None
  <2>1. new.resolved[c] = [version |-> sel[c], source |-> sourceFor(c)]  BY <1>2
  <2>2. sel[c] \in Versions  BY <1>1
  <2>3. sourceFor(c) \in Servers  BY SourceForIsServer
  <2>4. new.resolved[c] \in [version : Versions, source : Servers]  BY <2>1, <2>2, <2>3
  <2>5. new.resolved[c] # None  BY <2>4, ConstantsAssumption
  <2> QED  BY <2>1, <2>4, <2>5
<1>4. \A c \in chosen : new.graph[c] = {e \in Collections : NeedsOf(c, sel[c])[e] # None}  BY <1>2
<1>5. \A c \in Collections \ chosen : new.resolved[c] = None /\ new.graph[c] = {}  BY <1>2
<1>6. In(new) = chosen
  <2>1. \A c \in chosen : c \in Collections /\ new.resolved[c] # None  BY <1>3
  <2>2. \A c \in Collections \ chosen : new.resolved[c] = None  BY <1>5
  <2> HIDE DEF chosen
  <2> QED  BY <2>1, <2>2 DEF In
<1>7. new \in Plans
  <2>1. new.resolved \in [Collections -> [version : Versions, source : Servers] \cup {None}]
    <3>1. \A c \in Collections : new.resolved[c] \in [version : Versions, source : Servers] \cup {None}
      <4> HIDE DEF chosen
      <4> QED  BY <1>3, <1>5
    <3>2. new.resolved = [c \in Collections |-> new.resolved[c]]  BY <1>2
    <3> QED  BY <3>1, <3>2
  <2>2. new.graph \in [Collections -> SUBSET Collections]
    <3>1. \A c \in Collections : new.graph[c] \in SUBSET Collections
      <4> HIDE DEF chosen
      <4> QED  BY <1>4, <1>5
    <3>2. new.graph = [c \in Collections |-> new.graph[c]]  BY <1>2
    <3> QED  BY <3>1, <3>2
  <2> QED  BY <1>2, <2>1, <2>2 DEF Plans
<1>8. \A c \in chosen : c \in Collections  OBVIOUS
<1> HIDE DEF chosen
<1>9. ASSUME NEW c \in chosen  PROVE DepsIn(new, c, bare) = NeedsOf(c, sel[c])
  <2>1. CASE bare  BY <2>1 DEF DepsIn, NeedsOf
  <2>2. CASE ~bare
    <3>1. Learnt(c, sel[c]) /\ c \in Collections  BY <1>1, <1>8, <2>2
    <3>2. NeedsOf(c, sel[c]) = Needs[sourceFor(c)][c][sel[c]]  BY <2>2, <3>1, NeedsAreTheSources
    <3>3. DepsIn(new, c, bare) = Needs[sourceFor(c)][c][sel[c]]  BY <1>3, <2>2 DEF DepsIn
    <3> QED  BY <3>2, <3>3
  <2> QED  BY <2>1, <2>2
<1>10. MeetsRoots(new, run.spec, run.roots)
  <2>1. \A c \in run.roots : c \in chosen /\ new.resolved[c].version = sel[c]  BY <1>1, <1>3
  <2> QED  BY <1>1, <1>6, <2>1 DEF MeetsRoots
<1>11. MeetsDeps(new, bare)
  <2> HIDE DEF bare
  <2>1. SUFFICES ASSUME NEW c \in chosen
                 PROVE  /\ new.graph[c] = {e \in Collections : DepsIn(new, c, bare)[e] # None}
                        /\ \A e \in new.graph[c] : e \in chosen /\ new.resolved[e].version \in DepsIn(new, c, bare)[e]
    BY <1>6 DEF MeetsDeps
  <2>2. new.graph[c] = {e \in Collections : DepsIn(new, c, bare)[e] # None}  BY <1>4, <1>9
  <2>3. ASSUME NEW e \in new.graph[c]  PROVE e \in chosen /\ new.resolved[e].version \in DepsIn(new, c, bare)[e]
    <3>1. e \in Collections /\ NeedsOf(c, sel[c])[e] # None  BY <1>4, <2>3
    <3>2. e \in chosen /\ sel[e] \in NeedsOf(c, sel[c])[e]  BY <1>1, <3>1
    <3>3. new.resolved[e].version = sel[e]  BY <1>3, <3>2
    <3> QED  BY <1>9, <3>2, <3>3
  <2> QED  BY <2>2, <2>3
<1>12. NoneOver(new, run.roots)
  <2>1. SUFFICES ASSUME NEW e \in chosen \ run.roots  PROVE \E c \in chosen : e \in new.graph[c]
    BY <1>6 DEF NoneOver
  <2>2. PICK c \in chosen : NeedsOf(c, sel[c])[e] # None  BY <1>1
  <2>3. e \in new.graph[c]  BY <1>4, <1>8, <2>2
  <2> QED  BY <2>3
<1> QED  BY <1>7, <1>10, <1>11, <1>12 DEF Meets, new

-----------------------------------------------------------------------------
\* What a merge makes of a plan on record

LEMMA ClosureIsLeast ==
  ASSUME TypeOK, NEW from \in SUBSET Collections
  PROVE  /\ from \subseteq Closure(from) /\ Closed(Closure(from))
         /\ \A S \in SUBSET Collections : from \subseteq S /\ Closed(S) => Closure(from) \subseteq S
         /\ \A e \in Closure(from) \ from : \E c \in Closure(from) : e \in st.saved.graph[c]
<1> DEFINE C == Closure(from)
<1>1. C \subseteq Collections /\ from \subseteq C  BY DEF Closure
<1>2. \A S \in SUBSET Collections : from \subseteq S /\ Closed(S) => C \subseteq S  BY DEF Closure
<1>3. \A c \in Collections : st.saved.graph[c] \subseteq Collections  BY DEF TypeOK, Snapshots, Plans
<1>4. Closed(C)
  <2>1. SUFFICES ASSUME NEW c \in C, NEW e \in st.saved.graph[c]  PROVE e \in C  BY DEF Closed
  <2>2. e \in Collections  BY <1>1, <1>3
  <2>3. ASSUME NEW S \in SUBSET Collections, from \subseteq S, Closed(S)  PROVE e \in S
    <3>1. c \in S  BY <1>2, <2>3
    <3> QED  BY <2>3, <3>1 DEF Closed
  <2> QED  BY <2>2, <2>3 DEF Closure
<1>5. ASSUME NEW e \in C \ from, \A c \in C : e \notin st.saved.graph[c]  PROVE FALSE
  <2> DEFINE S == C \ {e}
  <2>1. S \in SUBSET Collections /\ from \subseteq S  BY <1>1, <1>5
  <2>2. Closed(S)  BY <1>4, <1>5 DEF Closed
  <2>3. C \subseteq S  BY <1>2, <2>1, <2>2
  <2> QED  BY <1>5, <2>3
<1> QED  BY <1>1, <1>2, <1>4, <1>5
\* What is kept of a plan on record and what was solved beside it make a plan
\* for both parts of the requirements.
LEMMA MergedMeets ==
  ASSUME TypeOK, Recording(st), Incremental,
         NEW new \in Plans, Meets(new, run.spec, Changed, Has("no-deps")), Mergeable(new)
  PROVE  /\ Merged(new) \in Plans
         /\ Meets(Merged(new), run.spec, Required(run.spec), Has("no-deps"))
<1> DEFINE S == Closure(Unchanged)
           saved == st.saved
           M == Merged(new)
           bare == Has("no-deps")
<1>1. saved \in Plans /\ Unchanged \in SUBSET Collections  BY DEF TypeOK, Snapshots, Unchanged, Required
<1>2. Meets(saved, st.spec, Required(st.spec), bare)
  <2>1. In(saved) # {}  BY DEF Incremental
  <2>2. st.hash = [spec |-> st.spec, noDeps |-> bare, list |-> run.list]  BY DEF Incremental, Signature
  <2>3. st.hash.spec = st.spec /\ st.hash.noDeps = bare  BY <2>2
  <2> QED  BY <2>1, <2>3 DEF Recording
<1>3. /\ Unchanged \subseteq S
      /\ \A e \in S \ Unchanged : \E c \in S : e \in saved.graph[c]
      /\ \A c \in S : saved.graph[c] \subseteq S
  BY <1>1, ClosureIsLeast DEF Closed
<1>4. S \subseteq In(saved)
  <2>1. Closed(In(saved))  BY <1>2 DEF Closed, Meets, MeetsDeps
  <2>2. In(saved) \in SUBSET Collections /\ Unchanged \subseteq In(saved)  BY DEF In, Incremental
  <2> QED  BY <1>1, <2>1, <2>2, ClosureIsLeast
<1> HIDE DEF S, saved
<1>5. In(saved) \subseteq Collections /\ In(new) \subseteq Collections  BY DEF In
<1>6. /\ Preserved.resolved = [c \in Collections |-> IF c \in S THEN saved.resolved[c] ELSE None]
      /\ Preserved.graph = [c \in Collections |-> IF c \in S THEN saved.graph[c] ELSE {}]
  BY DEF Preserved, S, saved
<1>7. In(Preserved) = S
  <2>1. \A c \in S : c \in Collections /\ Preserved.resolved[c] # None  BY <1>4, <1>6 DEF In
  <2>2. \A c \in Collections \ S : Preserved.resolved[c] = None  BY <1>6
  <2> QED  BY <2>1, <2>2 DEF In
<1>8. /\ M.resolved = [c \in Collections |-> IF c \in In(new) THEN new.resolved[c] ELSE Preserved.resolved[c]]
      /\ M.graph = [c \in Collections |-> IF c \in In(new) THEN new.graph[c] ELSE Preserved.graph[c]]
      /\ M = [resolved |-> M.resolved, graph |-> M.graph]
  BY DEF Merged
<1>9. \A c \in In(new) : M.resolved[c] = new.resolved[c] /\ M.graph[c] = new.graph[c]  BY <1>5, <1>8
<1>10. \A c \in S \ In(new) : M.resolved[c] = saved.resolved[c] /\ M.graph[c] = saved.graph[c]
  BY <1>4, <1>5, <1>6, <1>8
<1>11. \A c \in S : M.resolved[c].version = saved.resolved[c].version /\ M.graph[c] = saved.graph[c]
  <2>1. SUFFICES ASSUME NEW c \in S \cap In(new)
                 PROVE  M.resolved[c].version = saved.resolved[c].version /\ M.graph[c] = saved.graph[c]
    BY <1>10
  <2>2. Preserved.resolved[c].version = new.resolved[c].version /\ Preserved.graph[c] = new.graph[c]
    BY <1>7 DEF Mergeable
  <2>3. Preserved.resolved[c] = saved.resolved[c] /\ Preserved.graph[c] = saved.graph[c]  BY <1>4, <1>5, <1>6
  <2> QED  BY <1>9, <2>2, <2>3
<1>12. \A c \in Collections \ (S \cup In(new)) : M.resolved[c] = None /\ M.graph[c] = {}  BY <1>6, <1>8
<1>13. In(M) = S \cup In(new)
  <2>1. \A c \in In(new) : M.resolved[c] # None  BY <1>9 DEF In
  <2>2. \A c \in S \ In(new) : M.resolved[c] # None  BY <1>4, <1>10 DEF In
  <2> HIDE DEF M
  <2> QED  BY <1>4, <1>5, <1>12, <2>1, <2>2 DEF In
<1> HIDE DEF M
<1>14. M \in Plans
  <2>1. \A c \in Collections : M.resolved[c] \in [version : Versions, source : Servers] \cup {None}
    BY <1>1, <1>4, <1>5, <1>9, <1>10, <1>12 DEF Plans, saved
  <2>2. \A c \in Collections : M.graph[c] \in SUBSET Collections
    BY <1>1, <1>4, <1>5, <1>9, <1>10, <1>12 DEF Plans, saved
  <2>3. M.resolved = [c \in Collections |-> M.resolved[c]]  BY <1>8
  <2>4. M.graph = [c \in Collections |-> M.graph[c]]  BY <1>8
  <2>5. M.resolved \in [Collections -> [version : Versions, source : Servers] \cup {None}]  BY <2>1, <2>3
  <2>6. M.graph \in [Collections -> SUBSET Collections]  BY <2>2, <2>4
  <2> QED  BY <1>8, <2>5, <2>6 DEF Plans
<1>15. MeetsRoots(M, run.spec, Required(run.spec))
  <2>1. SUFFICES ASSUME NEW c \in Required(run.spec)
                 PROVE  c \in In(M) /\ M.resolved[c].version \in run.spec[c].want
    BY DEF MeetsRoots
  <2>2. CASE c \in Changed
    <3>1. c \in In(new) /\ new.resolved[c].version \in run.spec[c].want  BY <2>2 DEF Meets, MeetsRoots
    <3> QED  BY <1>9, <1>13, <3>1
  <2>3. CASE c \in Unchanged
    <3>1. c \in S /\ run.spec[c] = st.spec[c] /\ c \in Required(st.spec)  BY <1>3, <2>3 DEF Unchanged, Required
    <3>2. saved.resolved[c].version \in st.spec[c].want  BY <1>2, <3>1 DEF Meets, MeetsRoots
    <3> QED  BY <1>11, <1>13, <3>1, <3>2
  <2> QED  BY <2>2, <2>3 DEF Changed
<1>16. MeetsDeps(M, bare)
  <2> HIDE DEF bare
  <2>1. SUFFICES ASSUME NEW c \in In(M)
                 PROVE  /\ M.graph[c] = {e \in Collections : DepsIn(M, c, bare)[e] # None}
                        /\ \A e \in M.graph[c] : e \in In(M) /\ M.resolved[e].version \in DepsIn(M, c, bare)[e]
    BY DEF MeetsDeps
  <2>2. CASE c \in In(new)
    <3>1. DepsIn(M, c, bare) = DepsIn(new, c, bare)  BY <1>9, <2>2 DEF DepsIn
    <3>2. /\ new.graph[c] = {e \in Collections : DepsIn(new, c, bare)[e] # None}
          /\ \A e \in new.graph[c] : e \in In(new) /\ new.resolved[e].version \in DepsIn(new, c, bare)[e]
      BY <2>2 DEF Meets, MeetsDeps, bare
    <3>3. M.graph[c] = new.graph[c]  BY <1>9, <2>2
    <3>4. ASSUME NEW e \in M.graph[c]  PROVE e \in In(M) /\ M.resolved[e].version \in DepsIn(M, c, bare)[e]
      BY <1>9, <1>13, <3>1, <3>2, <3>3, <3>4
    <3> QED  BY <3>1, <3>2, <3>3, <3>4
  <2>3. CASE c \in S \ In(new)
    <3>1. DepsIn(M, c, bare) = DepsIn(saved, c, bare)  BY <1>10, <2>3 DEF DepsIn
    <3>2. /\ saved.graph[c] = {e \in Collections : DepsIn(saved, c, bare)[e] # None}
          /\ \A e \in saved.graph[c] : saved.resolved[e].version \in DepsIn(saved, c, bare)[e]
      BY <1>2, <1>4, <2>3 DEF Meets, MeetsDeps
    <3>3. M.graph[c] = saved.graph[c] /\ saved.graph[c] \subseteq S  BY <1>3, <1>10, <2>3
    <3>4. ASSUME NEW e \in M.graph[c]  PROVE e \in In(M) /\ M.resolved[e].version \in DepsIn(M, c, bare)[e]
      BY <1>11, <1>13, <3>1, <3>2, <3>3, <3>4
    <3> QED  BY <3>1, <3>2, <3>3, <3>4
  <2> QED  BY <1>13, <2>2, <2>3
<1>17. NoneOver(M, Required(run.spec))
  <2>1. SUFFICES ASSUME NEW e \in In(M) \ Required(run.spec)  PROVE \E c \in In(M) : e \in M.graph[c]
    BY DEF NoneOver
  <2>2. CASE e \in In(new)
    <3>1. e \notin Changed  BY <2>1 DEF Changed
    <3>2. PICK c \in In(new) : e \in new.graph[c]  BY <2>2, <3>1 DEF Meets, NoneOver
    <3> QED  BY <1>9, <1>13, <3>2
  <2>3. CASE e \in S
    <3>1. e \notin Unchanged  BY <2>1 DEF Unchanged
    <3>2. PICK c \in S : e \in saved.graph[c]  BY <1>3, <2>3, <3>1
    <3> QED  BY <1>11, <1>13, <3>2
  <2> QED  BY <1>13, <2>2, <2>3
<1> QED  BY <1>14, <1>15, <1>16, <1>17 DEF Meets, M
-----------------------------------------------------------------------------
\* The invariant is inductive

LEMMA EmptyTypes ==
  /\ Idle \in Runs /\ NoAnswers \in Answers /\ NoResult \in Plans /\ Empty \in Snapshots
  /\ Sourced(Empty) /\ Recording(Empty)
<1>1. NoSpec \in Specs  BY DEF NoSpec, Specs
<1>2. [c \in Collections |-> {}] \in [Collections -> SUBSET Collections]  OBVIOUS
<1>3. NoSpec \in [Collections -> [version : Versions, source : Servers] \cup {None}]  BY DEF NoSpec
<1>4. NoResult \in Plans  BY <1>2, <1>3 DEF NoResult, Plans
<1>5. Idle \in Runs  BY <1>1 DEF Idle, Runs
<1>6. NoAnswers \in Answers  BY DEF NoAnswers, Answers
<1>7. Empty.root \in Documents  BY DEF Empty, Documents
<1>8. Empty \in Snapshots  BY <1>1, <1>4, <1>7 DEF Empty, Snapshots
<1>9. Sourced(Empty)  BY DEF Empty, Sourced, Backed
<1>10. In(Empty.saved) = {}  BY DEF Empty, In, NoResult, NoSpec
<1> QED  BY <1>4, <1>5, <1>6, <1>8, <1>9, <1>10 DEF Recording

\* A snapshot that was sound is, as long as servers only add versions.
LEMMA SoundIf ==
  ASSUME TypeOK, NEW x, x \in Snapshots, Sourced(x), Recording(x),
         serves' \in [Servers -> [Collections -> SUBSET Versions]],
         \A s \in Servers, c \in Collections : serves[s][c] \subseteq serves'[s][c]
  PROVE  /\ st' = x => Sound(st)'
         /\ disk' = x => Sound(disk)'
<1>1. /\ \A s \in Servers, c \in Collections : x.root[s][c] # None => serves'[s][c] # {}
      /\ \A d \in x.doc : d.v \in serves'[d.s][d.c]
      /\ \A d \in x.deps : d.from = d.base /\ d.v \in serves'[d.base][d.c]
  <2>1. /\ \A d \in x.doc : d.s \in Servers /\ d.c \in Collections
        /\ \A d \in x.deps : d.base \in Servers /\ d.c \in Collections
    BY DEF Snapshots
  <2>2. ASSUME NEW s \in Servers, NEW c \in Collections, x.root[s][c] # None  PROVE serves'[s][c] # {}
    BY <2>2 DEF Sourced, Backed
  <2> QED  BY <2>1, <2>2 DEF Sourced
<1>2. ASSUME st' = x  PROVE Sound(st)'
  <2>1. Sourced(st)'  BY <1>1, <1>2 DEF Sourced, Backed
  <2>2. Recording(st)'  BY <1>2
  <2> QED  BY <2>1, <2>2 DEF Sound
<1>3. ASSUME disk' = x  PROVE Sound(disk)'
  <2>1. Sourced(disk)'  BY <1>1, <1>3 DEF Sourced, Backed
  <2>2. Recording(disk)'  BY <1>3
  <2> QED  BY <2>1, <2>2 DEF Sound
<1> QED  BY <1>2, <1>3

LEMMA InitInv == Init => IInv
<1> SUFFICES ASSUME Init  PROVE IInv  OBVIOUS
<1> USE EmptyTypes
<1>1. TypeOK  BY ConstantsAssumption DEF Init, TypeOK, Idle
<1>2. Sound(st) /\ Sound(disk)  BY DEF Init, Sound
<1>3. Bindings  BY DEF Init, Bindings, BoundToFirst, NoAnswers
<1>4. Planned /\ AnsweredByItsServer /\ RefreshSeesTheCurrent
  BY DEF Init, Idle, Planned, Working, AnsweredByItsServer, RefreshSeesTheCurrent
<1> QED  BY <1>1, <1>2, <1>3, <1>4 DEF IInv

\* Between runs there is nothing to say of a plan or of answers.
LEMMA OverInv ==
  ASSUME IInv, run'.pc = "idle", asked' = NoAnswers, TypeOK', Sound(st)', Sound(disk)'
  PROVE  IInv'
<1>1. Bindings'  BY DEF Bindings, BoundToFirst, NoAnswers
<1>2. Planned' /\ AnsweredByItsServer' /\ RefreshSeesTheCurrent'
  BY DEF Planned, Working, AnsweredByItsServer, RefreshSeesTheCurrent
<1> QED  BY <1>1, <1>2 DEF IInv

LEMMA EndInv == ASSUME IInv, Save \/ Fail  PROVE IInv'
<1>1. st' \in {st, disk} /\ disk' \in {st, disk}  BY DEF Save, Fail
<1>2. run' = Idle /\ asked' = NoAnswers /\ result' = NoResult /\ UNCHANGED serves  BY DEF Save, Fail, Over
<1>3. TypeOK'  BY <1>1, <1>2, EmptyTypes DEF IInv, TypeOK, Idle
<1>4. TypeOK /\ st \in Snapshots /\ disk \in Snapshots /\ serves' \in [Servers -> [Collections -> SUBSET Versions]]
  BY <1>2 DEF IInv, TypeOK
<1>5. \A s \in Servers, c \in Collections : serves[s][c] \subseteq serves'[s][c]  BY <1>2
<1>6. Sourced(st) /\ Recording(st) /\ Sourced(disk) /\ Recording(disk)  BY DEF IInv, Sound
<1>7. Sound(st)' /\ Sound(disk)'  BY <1>1, <1>4, <1>5, <1>6, SoundIf
<1> QED  BY <1>2, <1>3, <1>7, OverInv DEF Idle

LEMMA PublishInv ==
  ASSUME IInv, NEW s \in Servers, NEW c \in Collections, NEW v \in Versions, Publish(s, c, v)
  PROVE  IInv'
<1>1. serves \in [Servers -> [Collections -> SUBSET Versions]] /\ st \in Snapshots /\ disk \in Snapshots /\ TypeOK
  BY DEF IInv, TypeOK
<1>2. serves' = [serves EXCEPT ![s][c] = @ \cup {v}] /\ UNCHANGED <<st, disk, run, asked, result>> /\ run.pc = "idle"
  BY DEF Publish
<1>3. serves' \in [Servers -> [Collections -> SUBSET Versions]]  BY <1>1, <1>2
<1>4. \A t \in Servers, e \in Collections : serves[t][e] \subseteq serves'[t][e]  BY <1>1, <1>2
<1>5. TypeOK'  BY <1>2, <1>3 DEF IInv, TypeOK, Required
<1>6. Sourced(st) /\ Recording(st) /\ Sourced(disk) /\ Recording(disk)  BY DEF IInv, Sound
<1>7. Sound(st)' /\ Sound(disk)'  BY <1>1, <1>2, <1>3, <1>4, <1>6, SoundIf
<1>8. asked' = NoAnswers  BY <1>2 DEF IInv, Bindings
<1> QED  BY <1>2, <1>5, <1>7, <1>8, OverInv

LEMMA AgeInv == ASSUME IInv, Age  PROVE IInv'
<1> DEFINE old == [s \in Servers |-> [c \in Collections |->
                     IF disk.root[s][c] = None THEN None ELSE [disk.root[s][c] EXCEPT !.fresh = FALSE]]]
           olderDisk == [disk EXCEPT !.root = old]
           olderSt == [st EXCEPT !.root = old]
<1>1. serves \in [Servers -> [Collections -> SUBSET Versions]] /\ st \in Snapshots /\ disk \in Snapshots /\ TypeOK
  BY DEF IInv, TypeOK
<1>2. disk' = olderDisk /\ st' = olderSt /\ UNCHANGED <<serves, run, asked, result>> /\ run.pc = "idle"
  BY DEF Age
<1>3. Sourced(st) /\ Recording(st) /\ Sourced(disk) /\ Recording(disk)  BY DEF IInv, Sound
<1>4. disk.root \in Documents  BY <1>1 DEF Snapshots
<1>5. old \in Documents
  <2>1. ASSUME NEW s \in Servers, NEW c \in Collections
        PROVE  old[s][c] \in [versions : SUBSET Versions, fresh : BOOLEAN] \cup {None}
    <3>1. disk.root[s][c] \in [versions : SUBSET Versions, fresh : BOOLEAN] \cup {None}  BY <1>4 DEF Documents
    <3>2. CASE disk.root[s][c] = None  BY <3>2
    <3>3. CASE disk.root[s][c] # None
      <4>1. old[s][c] = [disk.root[s][c] EXCEPT !.fresh = FALSE]  BY <3>3
      <4> QED  BY <3>1, <3>3, <4>1
    <3> QED  BY <3>2, <3>3
  <2>2. old = [s \in Servers |-> [c \in Collections |-> old[s][c]]]  OBVIOUS
  <2> HIDE DEF old
  <2> QED  BY <2>1, <2>2 DEF Documents
<1>6. \A s \in Servers, c \in Collections : old[s][c] # None => disk.root[s][c] # None  OBVIOUS
<1> HIDE DEF old
<1>7. Backed(old)  BY <1>3, <1>6 DEF Sourced, Backed
<1>8. olderDisk \in Snapshots /\ Sourced(olderDisk) /\ Recording(olderDisk)
  <2>1. olderDisk \in Snapshots  BY <1>1, <1>5 DEF Snapshots
  <2>2. olderDisk.root = old /\ \A f \in {"doc", "deps", "saved", "hash"} : olderDisk[f] = disk[f]  BY <1>1 DEF Snapshots
  <2> QED  BY <1>3, <1>7, <2>1, <2>2 DEF Sourced, Recording
<1>9. olderSt \in Snapshots /\ Sourced(olderSt) /\ Recording(olderSt)
  <2>1. olderSt \in Snapshots  BY <1>1, <1>5 DEF Snapshots
  <2>2. olderSt.root = old /\ \A f \in {"doc", "deps", "saved", "hash"} : olderSt[f] = st[f]  BY <1>1 DEF Snapshots
  <2> QED  BY <1>3, <1>7, <2>1, <2>2 DEF Sourced, Recording
<1> HIDE DEF olderDisk, olderSt
<1>10. Sound(st)' /\ Sound(disk)'
  <2>1. \A s \in Servers, c \in Collections : serves[s][c] \subseteq serves'[s][c]  BY <1>2
  <2>2. serves' \in [Servers -> [Collections -> SUBSET Versions]]  BY <1>1, <1>2
  <2> QED  BY <1>1, <1>2, <1>8, <1>9, <2>1, <2>2, SoundIf
<1>11. TypeOK'  BY <1>2, <1>8, <1>9 DEF IInv, TypeOK, Required
<1>12. asked' = NoAnswers  BY <1>2 DEF IInv, Bindings
<1> QED  BY <1>2, <1>10, <1>11, <1>12, OverInv
\* While a run asks and solves, its requirements and what they are judged by
\* stay as they are.
SameRun == UNCHANGED <<serves, run>>
SamePlan == \A f \in {"saved", "spec", "hash"} : st'[f] = st[f]

LEMMA SameFirst ==
  ASSUME SameRun
  PROVE  /\ \A s, c : First(s, c)' <=> First(s, c)
         /\ \A c : Nowhere(c)' <=> Nowhere(c)
BY DEF SameRun, First, Nowhere, serverCandidates, SourceOf

LEMMA SamePartial ==
  ASSUME SamePlan, UNCHANGED run
  PROVE  (Incremental' <=> Incremental) /\ Changed' = Changed
<1>1. st'.saved = st.saved /\ st'.spec = st.spec /\ st'.hash = st.hash  BY DEF SamePlan
<1>2. Unchanged' = Unchanged /\ Changed' = Changed  BY <1>1 DEF Changed, Unchanged, Required
<1> QED  BY <1>1, <1>2 DEF Incremental, Signature, Has, In, Required

LEMMA BeginInv ==
  ASSUME IInv, NEW spec \in Requirements, NEW flags \in Configs, Begin(spec, flags)
  PROVE  IInv'
<1>1. /\ run' = [Idle EXCEPT !.pc = "choose", !.mode = flags.mode, !.list = flags.list, !.spec = spec, !.roots = Required(spec)]
      /\ UNCHANGED <<serves, disk, st, asked, result>> /\ run.pc = "idle"
  BY DEF Begin
<1>2. spec \in Specs  BY ConstantsAssumption DEF Specs
<1>3. flags.list \in Seq(Servers) /\ flags.list # <<>> /\ flags.mode \in SUBSET Flags
  BY ConstantsAssumption DEF Flags
<1>4. run'.pc = "choose" /\ run'.list = flags.list /\ run'.spec = spec /\ run'.roots = Required(spec)  BY <1>1 DEF Idle
<1>5. run' \in Runs  BY <1>1, <1>2, <1>3 DEF Idle, Runs, Required
<1>6. TypeOK'  BY <1>1, <1>3, <1>4, <1>5 DEF IInv, TypeOK
<1>7. asked' = NoAnswers  BY <1>1 DEF IInv, Bindings
<1>8. Bindings'  BY <1>7 DEF Bindings, BoundToFirst, NoAnswers
<1>9. Sound(st)' /\ Sound(disk)'  BY <1>1 DEF IInv, Sound, Sourced, Backed
<1>10. Planned' /\ AnsweredByItsServer' /\ RefreshSeesTheCurrent'
  BY <1>4 DEF Planned, Working, AnsweredByItsServer, RefreshSeesTheCurrent
<1> QED  BY <1>6, <1>8, <1>9, <1>10 DEF IInv

LEMMA ReplayInv == ASSUME IInv, Replay  PROVE IInv'
<1>1. /\ run.pc = "choose" /\ ~Vetoed /\ Replayable
      /\ result' = st.saved /\ run' = [run EXCEPT !.pc = "done", !.how = "replayed"]
      /\ UNCHANGED <<serves, disk, st, asked>>
  BY DEF Replay
<1>2. run \in Runs /\ st \in Snapshots  BY DEF IInv, TypeOK
<1>3. /\ run'.pc = "done" /\ run'.how = "replayed"
      /\ \A f \in {"mode", "list", "spec", "roots"} : run'[f] = run[f]
      /\ run' \in Runs
  BY <1>1, <1>2 DEF Runs
<1>4. TypeOK'  BY <1>1, <1>2, <1>3 DEF IInv, TypeOK, Snapshots
<1>5. asked' = NoAnswers  BY <1>1 DEF IInv, Bindings
<1>6. Bindings'  BY <1>5 DEF Bindings, BoundToFirst, NoAnswers
<1>7. Sound(st)' /\ Sound(disk)'  BY <1>1 DEF IInv, Sound, Sourced, Backed
<1>8. Meets(st.saved, run.spec, Required(run.spec), Has("no-deps"))
  <2>1. st.hash = [spec |-> run.spec, noDeps |-> Has("no-deps"), list |-> run.list] /\ In(st.saved) # {}
    BY <1>1 DEF Replayable, Signature
  <2>2. st.hash.spec = run.spec /\ st.hash.noDeps = Has("no-deps")  BY <2>1
  <2> QED  BY <2>1, <2>2 DEF IInv, Sound, Recording
<1>9. (Has("no-deps")' <=> Has("no-deps")) /\ (Vetoed' <=> Vetoed)  BY <1>3 DEF Has, Vetoed
<1>10. Meets(result', run'.spec, Required(run'.spec), Has("no-deps")')
  <2>1. Has("no-deps")' = Has("no-deps")  BY <1>3 DEF Has
  <2> QED  BY <1>1, <1>3, <1>8, <2>1
<1>11. Planned'  BY <1>1, <1>3, <1>9, <1>10 DEF Planned, Working
<1>12. AnsweredByItsServer' /\ RefreshSeesTheCurrent'
  BY <1>1, <1>3, <1>9 DEF AnsweredByItsServer, RefreshSeesTheCurrent, Vetoed
<1> QED  BY <1>4, <1>6, <1>7, <1>11, <1>12 DEF IInv

LEMMA ChooseInv == ASSUME IInv, Choose  PROVE IInv'
<1> DEFINE roots == IF ~Vetoed /\ Incremental THEN Changed ELSE Required(run.spec)
<1>1. /\ run.pc = "choose" /\ run' = [run EXCEPT !.pc = "prewarm", !.roots = roots]
      /\ UNCHANGED <<serves, disk, st, asked, result>>
  BY DEF Choose
<1>2. run \in Runs  BY DEF IInv, TypeOK
<1>3. roots \in SUBSET Required(run.spec)  BY DEF Changed
<1>4. \/ roots = Required(run.spec)
      \/ Incremental /\ ~Vetoed /\ roots = Changed
  OBVIOUS
<1> HIDE DEF roots
<1>5. /\ run'.pc = "prewarm" /\ run'.roots = roots
      /\ \A f \in {"mode", "list", "spec"} : run'[f] = run[f]
      /\ run' \in Runs
  <2>1. roots \in SUBSET Collections  BY <1>3 DEF Required
  <2> QED  BY <1>1, <1>2, <2>1 DEF Runs
<1>6. TypeOK'  BY <1>1, <1>3, <1>5 DEF IInv, TypeOK
<1>7. asked' = NoAnswers  BY <1>1 DEF IInv, Bindings
<1>8. Bindings'  BY <1>7 DEF Bindings, BoundToFirst, NoAnswers
<1>9. Sound(st)' /\ Sound(disk)'  BY <1>1 DEF IInv, Sound, Sourced, Backed
<1>10. Planned'
  <2>1. (Vetoed' <=> Vetoed) /\ Unchanged' = Unchanged /\ Changed' = Changed
    BY <1>1, <1>5 DEF Has, Vetoed, Changed, Unchanged, Required
  <2>2. Incremental' <=> Incremental  BY <1>1, <1>5, <2>1 DEF Incremental, Signature, Has, In, Required
  <2> QED  BY <1>4, <1>5, <2>1, <2>2 DEF Planned, Working
<1>11. AnsweredByItsServer' /\ RefreshSeesTheCurrent'  BY <1>5 DEF AnsweredByItsServer, RefreshSeesTheCurrent
<1> QED  BY <1>6, <1>8, <1>9, <1>10, <1>11 DEF IInv

LEMMA PrewarmedInv == ASSUME IInv, Prewarmed  PROVE IInv'
<1>1. /\ run.pc = "prewarm" /\ run' = [run EXCEPT !.pc = "solve"]
      /\ UNCHANGED <<serves, disk, st, asked, result>>
  BY DEF Prewarmed
<1>2. run \in Runs  BY DEF IInv, TypeOK
<1>3. /\ run'.pc = "solve"
      /\ \A f \in {"mode", "list", "spec", "roots", "how"} : run'[f] = run[f]
      /\ run' \in Runs
  BY <1>1, <1>2 DEF Runs
<1>4. TypeOK'  BY <1>1, <1>3 DEF IInv, TypeOK
<1>5. asked' = NoAnswers  BY <1>1 DEF IInv, Bindings
<1>6. Bindings'  BY <1>5 DEF Bindings, BoundToFirst, NoAnswers
<1>7. Sound(st)' /\ Sound(disk)'  BY <1>1 DEF IInv, Sound, Sourced, Backed
<1>8. Planned'
  <2>1. (Vetoed' <=> Vetoed) /\ Unchanged' = Unchanged /\ Changed' = Changed
    BY <1>1, <1>3 DEF Has, Vetoed, Changed, Unchanged, Required
  <2>2. Incremental' <=> Incremental  BY <1>1, <1>3, <2>1 DEF Incremental, Signature, Has, In, Required
  <2> QED  BY <1>1, <1>3, <2>1, <2>2 DEF IInv, Planned, Working
<1>9. AnsweredByItsServer' /\ RefreshSeesTheCurrent'  BY <1>3 DEF AnsweredByItsServer, RefreshSeesTheCurrent
<1> QED  BY <1>4, <1>6, <1>7, <1>8, <1>9 DEF IInv
\* A question changes the caches and what was answered, and nothing else.
LEMMA QuestionInv ==
  ASSUME IInv, Working, SameRun, UNCHANGED <<disk, result>>,
         NEW x \in Snapshots, Sourced(x), \A f \in {"saved", "spec", "hash"} : x[f] = st[f],
         st' = x, asked' \in Answers, Bindings'
  PROVE  IInv'
<1>1. TypeOK /\ serves \in [Servers -> [Collections -> SUBSET Versions]] /\ disk \in Snapshots  BY DEF IInv, TypeOK
<1>2. TypeOK'  BY <1>1 DEF IInv, TypeOK, SameRun
<1>3. Recording(x)
  <2>1. x.saved = st.saved /\ x.hash = st.hash  OBVIOUS
  <2> QED  BY <2>1 DEF IInv, Sound, Recording
<1>4. Sound(st)' /\ Sound(disk)'
  <2>1. \A s \in Servers, c \in Collections : serves[s][c] \subseteq serves'[s][c]  BY DEF SameRun
  <2>2. serves' \in [Servers -> [Collections -> SUBSET Versions]]  BY <1>1 DEF SameRun
  <2>3. Sourced(disk) /\ Recording(disk)  BY DEF IInv, Sound
  <2> QED  BY <1>1, <1>3, <2>1, <2>2, <2>3, SoundIf
<1>5. SamePlan  BY DEF SamePlan
<1>6. Planned'
  BY <1>5, SamePartial DEF IInv, Planned, Working, SameRun, Vetoed, Has
<1>7. AnsweredByItsServer' /\ RefreshSeesTheCurrent'
  BY DEF Working, SameRun, AnsweredByItsServer, RefreshSeesTheCurrent
<1> QED  BY <1>2, <1>4, <1>6, <1>7 DEF IInv

LEMMA PrewarmInv ==
  ASSUME IInv, NEW c \in Collections, NEW down, Prewarm(c, down)
  PROVE  IInv'
<1> DEFINE exact == Exact(c) # {}
           v == CHOOSE v \in Versions : v \in Exact(c)
           kept == Kept(st, Walk(c, FALSE, down), c, FALSE)
           d == Dependencies(c, v, down)
<1>1. /\ run.pc = "prewarm" /\ SameRun /\ UNCHANGED <<disk, result, asked>>
      /\ exact => st' = d.kept
      /\ ~exact => st' = kept
  BY DEF Prewarm, SameRun
<1>2. TypeOK /\ Sourced(st) /\ BoundToFirst /\ st \in Snapshots /\ Backed(st.root) /\ asked = NoAnswers /\ run.pc # "idle"
  BY <1>1 DEF IInv, Sound, Sourced, Bindings, TypeOK
<1>3. asked' \in Answers  BY <1>1 DEF IInv, TypeOK
<1>4. Bindings'  BY <1>1, <1>2 DEF Bindings, BoundToFirst, NoAnswers
<1>5. CASE exact
  <2>1. v \in Versions  BY <1>5 DEF Exact
  <2> HIDE DEF v
  <2>2. d.kept \in Snapshots /\ Sourced(d.kept) /\ \A f \in {"saved", "spec", "hash"} : d.kept[f] = st[f]
    BY <1>2, <2>1, DependenciesAreItsOwn
  <2>3. st' = d.kept  BY <1>1, <1>5
  <2> HIDE DEF d
  <2> QED  BY <1>1, <1>3, <1>4, <2>2, <2>3, QuestionInv DEF Working
<1>6. CASE ~exact
  <2>1. kept \in Snapshots /\ Sourced(kept) /\ \A f \in {"doc", "deps", "saved", "spec", "hash"} : kept[f] = st[f]
    BY <1>2, KeptIsSourced
  <2>2. st' = kept  BY <1>1, <1>6
  <2> HIDE DEF kept
  <2>3. \A f \in {"saved", "spec", "hash"} : kept[f] = st[f]  BY <2>1
  <2> QED  BY <1>1, <1>3, <1>4, <2>1, <2>2, <2>3, QuestionInv DEF Working
<1> QED  BY <1>5, <1>6

LEMMA AskInv ==
  ASSUME IInv, NEW c \in Collections, NEW down, Ask(c, down)
  PROVE  IInv'
<1> DEFINE walk == Walk(c, FALSE, down)
           kept == Kept(st, walk, c, FALSE)
           told == Told(walk, c)
           base == IF walk.base = None THEN asked.bound[c] ELSE walk.base
<1>1. CASE Fail  BY <1>1, EndInv
<1>2. CASE ~Fail
  <2>1. /\ run.pc = "solve" /\ SameRun /\ UNCHANGED <<disk, result>>
        /\ walk.answer # "failed" /\ asked.versions[c] = None
        /\ st' = kept /\ asked' = [asked EXCEPT !.versions[c] = told, !.bound[c] = base]
    BY <1>2 DEF Ask, SameRun
  <2>2. /\ TypeOK /\ Sourced(st) /\ Bindings /\ st \in Snapshots /\ Backed(st.root) /\ asked \in Answers
        /\ run.pc # "idle"
    BY <2>1 DEF IInv, Sound, Sourced, TypeOK
  <2>3. /\ kept \in Snapshots /\ Sourced(kept)
        /\ \A f \in {"doc", "deps", "saved", "spec", "hash"} : kept[f] = st[f]
    BY <2>2, KeptIsSourced
  <2>4. /\ told \in SUBSET Versions
        /\ walk.answer = "unknown" => told = {}
        /\ walk.answer \in {"cached", "fetched"} /\ ~FALSE /\ Vetoed => told = serves[walk.base][c]
    BY <2>2, ToldOfIt
  <2>5. \/ walk.answer = "unknown" /\ walk.base = None /\ Nowhere(c)
        \/ walk.answer = "failed"
        \/ walk.answer \in {"cached", "fetched"} /\ walk.base \in Servers /\ First(walk.base, c)
    BY <2>2, WalkEnds
  <2>6. asked.bound[c] \in Servers \cup {None} /\ (asked.bound[c] # None => First(asked.bound[c], c))
    BY <2>2 DEF Answers, Bindings, BoundToFirst
  <2>7. /\ ~(walk.answer = "unknown" /\ asked.bound[c] # None)
        /\ walk.answer # "unknown" /\ asked.bound[c] # None => walk.base = asked.bound[c]
    BY <2>1, <2>2, <2>5, <2>6, FirstIsOne
  <2> HIDE DEF walk, kept, told
  <2>8. /\ base \in Servers \cup {None}
        /\ base # None => First(base, c)
        /\ base = None => told = {} /\ Nowhere(c)
        /\ base # None /\ Vetoed => told = serves[base][c]
        /\ asked.bound[c] # None => base = asked.bound[c]
    BY <2>1, <2>4, <2>5, <2>6, <2>7, ConstantsAssumption
  <2> HIDE DEF base
  <2>9. /\ asked' \in Answers
        /\ asked'.deps = asked.deps
        /\ \A e \in Collections : asked'.bound[e] = IF e = c THEN base ELSE asked.bound[e]
        /\ \A e \in Collections : asked'.versions[e] = IF e = c THEN told ELSE asked.versions[e]
    BY <2>1, <2>2, <2>4, <2>8 DEF Answers
  <2>10. Bindings'
    <3>1. run'.pc = "solve"  BY <2>1 DEF SameRun
    <3>2. BoundToFirst'
      <4>1. \A e \in Collections : asked'.bound[e] # None => First(asked'.bound[e], e)
        BY <2>2, <2>8, <2>9 DEF Bindings, BoundToFirst
      <4> QED  BY <2>1, <4>1, SameFirst DEF BoundToFirst
    <3>3. \A d \in asked'.deps : asked'.bound[d.c] = d.from
      <4>1. SUFFICES ASSUME NEW d \in asked.deps  PROVE asked'.bound[d.c] = d.from  BY <2>9
      <4>2. asked.bound[d.c] = d.from  BY <2>2 DEF Bindings
      <4>3. d.c \in Collections /\ d.from # None  BY <2>2, ConstantsAssumption DEF Answers
      <4> QED  BY <2>8, <2>9, <4>2, <4>3
    <3>4. \A e \in Collections : asked'.versions[e] # None =>
            IF asked'.bound[e] = None THEN asked'.versions[e] = {} /\ Nowhere(e)
            ELSE Vetoed => asked'.versions[e] = serves[asked'.bound[e]][e]
      <4>1. SUFFICES ASSUME NEW e \in Collections, asked'.versions[e] # None
                     PROVE  IF asked'.bound[e] = None THEN asked'.versions[e] = {} /\ Nowhere(e)
                            ELSE Vetoed => asked'.versions[e] = serves[asked'.bound[e]][e]
        OBVIOUS
      <4>2. CASE e = c  BY <2>8, <2>9, <4>2
      <4>3. CASE e # c  BY <2>2, <2>9, <4>1, <4>3 DEF Bindings
      <4> QED  BY <4>2, <4>3
    <3>5. Vetoed' <=> Vetoed  BY <2>1 DEF SameRun, Vetoed, Has
    <3>6. serves' = serves  BY <2>1 DEF SameRun
    <3> QED  BY <2>1, <3>1, <3>2, <3>3, <3>4, <3>5, <3>6, SameFirst DEF Bindings
  <2>11. \A f \in {"saved", "spec", "hash"} : kept[f] = st[f]  BY <2>3
  <2> QED  BY <2>1, <2>3, <2>9, <2>10, <2>11, QuestionInv DEF Working
<1> QED  BY <1>1, <1>2
LEMMA LearnInv ==
  ASSUME IInv, NEW c \in Collections, NEW v \in Versions, NEW down, Learn(c, v, down)
  PROVE  IInv'
<1> DEFINE d == Dependencies(c, v, down)
           learnt == [c |-> c, v |-> v, from |-> d.from]
<1>1. CASE Fail  BY <1>1, EndInv
<1>2. CASE ~Fail
  <2>1. /\ run.pc = "solve" /\ SameRun /\ UNCHANGED <<disk, result>> /\ ~d.failed
        /\ st' = d.kept /\ asked' = [asked EXCEPT !.bound[c] = d.base, !.deps = @ \cup {learnt}]
    BY <1>2 DEF Learn, SameRun
  <2>2. TypeOK /\ Sourced(st) /\ Bindings /\ BoundToFirst /\ asked \in Answers /\ run.pc # "idle"
    BY <2>1 DEF IInv, Sound, TypeOK, Bindings
  <2>3. /\ d.kept \in Snapshots /\ Sourced(d.kept) /\ \A f \in {"saved", "spec", "hash"} : d.kept[f] = st[f]
        /\ d.base \in Servers /\ d.from = d.base /\ First(d.base, c)
    BY <2>1, <2>2, DependenciesAreItsOwn
  <2> HIDE DEF d
  <2>4. ~Nowhere(c) /\ \A s : First(s, c) => s = d.base  BY <2>2, <2>3, FirstIsOne
  <2>5. asked.bound[c] # None => asked.bound[c] = d.base  BY <2>2, <2>4 DEF BoundToFirst
  <2>6. learnt \in [c : Collections, v : Versions, from : Servers]  BY <2>3
  <2>7. learnt.c = c /\ learnt.from = d.base  BY <2>3
  <2> HIDE DEF learnt
  <2>8. /\ asked' \in Answers
        /\ asked'.deps = asked.deps \cup {learnt} /\ asked'.versions = asked.versions
        /\ \A e \in Collections : asked'.bound[e] = IF e = c THEN d.base ELSE asked.bound[e]
    BY <2>1, <2>2, <2>3, <2>6 DEF Answers
  <2>9. Bindings'
    <3>1. run'.pc = "solve"  BY <2>1 DEF SameRun
    <3>2. BoundToFirst'
      <4>1. \A e \in Collections : asked'.bound[e] # None => First(asked'.bound[e], e)
        BY <2>2, <2>3, <2>8 DEF BoundToFirst
      <4> QED  BY <2>1, <4>1, SameFirst DEF BoundToFirst
    <3>3. \A x \in asked'.deps : asked'.bound[x.c] = x.from
      <4>1. SUFFICES ASSUME NEW x \in asked.deps  PROVE asked'.bound[x.c] = x.from  BY <2>7, <2>8
      <4>2. asked.bound[x.c] = x.from  BY <2>2 DEF Bindings
      <4>3. x.c \in Collections /\ x.from # None  BY <2>2, ConstantsAssumption DEF Answers
      <4> QED  BY <2>5, <2>8, <4>2, <4>3
    <3>4. \A e \in Collections : asked'.versions[e] # None =>
            IF asked'.bound[e] = None THEN asked'.versions[e] = {} /\ Nowhere(e)
            ELSE Vetoed => asked'.versions[e] = serves[asked'.bound[e]][e]
      <4>1. SUFFICES ASSUME NEW e \in Collections, asked.versions[e] # None
                     PROVE  IF asked'.bound[e] = None THEN asked.versions[e] = {} /\ Nowhere(e)
                            ELSE Vetoed => asked.versions[e] = serves[asked'.bound[e]][e]
        BY <2>8
      <4>2. IF asked.bound[e] = None THEN asked.versions[e] = {} /\ Nowhere(e)
            ELSE Vetoed => asked.versions[e] = serves[asked.bound[e]][e]
        BY <2>2, <4>1 DEF Bindings
      <4>3. CASE e = c
        <5>1. asked.bound[c] = d.base  BY <2>4, <2>5, <4>2, <4>3
        <5> QED  BY <2>8, <4>2, <4>3, <5>1
      <4>4. CASE e # c  BY <2>8, <4>2, <4>4
      <4> QED  BY <4>3, <4>4
    <3>5. Vetoed' <=> Vetoed  BY <2>1 DEF SameRun, Vetoed, Has
    <3>6. serves' = serves  BY <2>1 DEF SameRun
    <3> QED  BY <2>1, <3>1, <3>2, <3>3, <3>4, <3>5, <3>6, SameFirst DEF Bindings
  <2> QED  BY <2>1, <2>3, <2>8, <2>9, QuestionInv DEF Working
<1> QED  BY <1>1, <1>2

\* A collection of a plan that was solved comes from its server, and without
\* caches as that server has it.
FromItsServer(c, s) ==
  IF SourceOf(c) # None THEN s = SourceOf(c)
  ELSE IF asked.bound[c] # None
  THEN \E i \in DOMAIN run.list :
         /\ run.list[i] = s /\ serves[s][c] # {}
         /\ \A j \in 1 .. (i - 1) : serves[run.list[j]][c] = {}
  ELSE Has("no-deps") /\ Exact(c) # {}
AsServed(c, at) ==
  \/ asked.versions[c] = serves[at.source][c]
  \/ asked.versions[c] = None /\ at.version \in Exact(c)

LEMMA SolvedIsItsServers ==
  ASSUME TypeOK, Bindings, run.pc # "idle", NEW sel \in Selections, NEW c \in In(Resolved(sel))
  PROVE  /\ FromItsServer(c, Resolved(sel).resolved[c].source)
         /\ Vetoed => AsServed(c, Resolved(sel).resolved[c])
<1> DEFINE s == sourceFor(c)
           at == Resolved(sel).resolved[c]
<1>1. c \in Collections /\ sel[c] # None /\ at = [version |-> sel[c], source |-> s]
  BY DEF In, Resolved
<1>2. sel[c] \in Offered(c) /\ (Has("no-deps") \/ Learnt(c, sel[c]))  BY <1>1 DEF Selections
<1>3. /\ s \in Servers
      /\ asked.bound[c] # None => s = asked.bound[c]
      /\ asked.bound[c] = None => \E i \in DOMAIN serverCandidates(c) : serverCandidates(c)[i] = s
  BY <1>1, SourceForIsServer
<1>4. asked.bound[c] # None => First(s, c)  BY <1>1, <1>3 DEF Bindings, BoundToFirst
<1>5. asked.versions[c] # None =>
        IF asked.bound[c] = None THEN asked.versions[c] = {} /\ serves[s][c] = {}
        ELSE Vetoed => asked.versions[c] = serves[s][c]
  BY <1>1, <1>3 DEF Bindings, Nowhere
<1>6. at.version = sel[c] /\ at.source = s  BY <1>1
<1> HIDE DEF s, at
<1>7. asked.bound[c] = None => Has("no-deps")  BY <1>1, <1>2, NeedsAreTheSources
<1>8. asked.versions[c] = None \/ asked.versions[c] = {} => sel[c] \in Exact(c)  BY <1>2 DEF Offered
<1>9. FromItsServer(c, s)
  <2>1. CASE SourceOf(c) # None
    <3>1. serverCandidates(c) = <<SourceOf(c)>>  BY <2>1 DEF serverCandidates
    <3>2. s = SourceOf(c)  BY <1>3, <1>4, <3>1 DEF First
    <3> QED  BY <2>1, <3>2 DEF FromItsServer
  <2>2. CASE SourceOf(c) = None /\ asked.bound[c] # None
    <3>1. serverCandidates(c) = run.list  BY <2>2 DEF serverCandidates
    <3> QED  BY <1>4, <2>2, <3>1 DEF First, FromItsServer
  <2>3. CASE SourceOf(c) = None /\ asked.bound[c] = None
    BY <1>5, <1>7, <1>8, <2>3 DEF FromItsServer
  <2> QED  BY <2>1, <2>2, <2>3
<1>10. Vetoed => AsServed(c, at)  BY <1>5, <1>6, <1>8 DEF AsServed
<1> QED  BY <1>6, <1>9, <1>10 DEF at

LEMMA FinishInv ==
  ASSUME IInv, run.pc = "solve", NEW r \in Plans, NEW how \in {"solved", "merged"}, Finish(r, how),
         Meets(r, run.spec, Required(run.spec), Has("no-deps")),
         Vetoed => how = "solved",
         how = "solved" => \A c \in In(r) : /\ FromItsServer(c, r.resolved[c].source)
                                            /\ Vetoed => AsServed(c, r.resolved[c])
  PROVE  IInv'
<1>1. /\ result' = r /\ st' = Recorded(r) /\ run' = [run EXCEPT !.pc = "done", !.how = how]
      /\ UNCHANGED <<serves, disk, asked>>
  BY DEF Finish
<1>2. TypeOK /\ run \in Runs /\ st \in Snapshots /\ Sound(st) /\ Sound(disk) /\ Bindings  BY DEF IInv, TypeOK
<1>3. /\ run'.pc = "done" /\ run'.how = how
      /\ \A f \in {"mode", "list", "spec", "roots"} : run'[f] = run[f]
      /\ run' \in Runs
  BY <1>1, <1>2 DEF Runs
<1>4. Has("no-deps") \in BOOLEAN  BY DEF Has
<1>5. Signature(run.spec) \in [spec : Specs, noDeps : BOOLEAN, list : Seq(Servers)]  BY <1>2, <1>4 DEF Signature, Runs
<1>6. /\ Recorded(r) \in Snapshots
      /\ Recorded(r).saved = r /\ Recorded(r).hash = Signature(run.spec)
      /\ \A f \in {"root", "doc", "deps"} : Recorded(r)[f] = st[f]
  BY <1>2, <1>5 DEF Recorded, Snapshots, Runs
<1>7. Sourced(Recorded(r))  BY <1>2, <1>6 DEF Sound, Sourced
<1>8. Recording(Recorded(r))
  <2>1. Signature(run.spec).spec = run.spec /\ Signature(run.spec).noDeps = Has("no-deps")  BY DEF Signature
  <2> QED  BY <1>6, <2>1 DEF Recording
<1>9. TypeOK'  BY <1>1, <1>2, <1>3, <1>6 DEF TypeOK
<1>10. Sound(st)' /\ Sound(disk)'
  <2>1. serves' \in [Servers -> [Collections -> SUBSET Versions]] /\ disk \in Snapshots  BY <1>1, <1>2 DEF TypeOK
  <2>2. \A s \in Servers, c \in Collections : serves[s][c] \subseteq serves'[s][c]  BY <1>1
  <2>3. Sourced(disk) /\ Recording(disk)  BY <1>2 DEF Sound
  <2> QED  BY <1>1, <1>2, <1>6, <1>7, <1>8, <2>1, <2>2, <2>3, SoundIf
<1>11. /\ \A f : Has(f)' = Has(f)
       /\ Vetoed' <=> Vetoed
       /\ \A c : SourceOf(c)' = SourceOf(c) /\ serverCandidates(c)' = serverCandidates(c) /\ Exact(c)' = Exact(c)
  BY <1>1, <1>3 DEF Has, Vetoed, SourceOf, serverCandidates, Exact, Wants
<1>12. \A s, c : (First(s, c)' <=> First(s, c)) /\ (Nowhere(c)' <=> Nowhere(c))
  BY <1>1, <1>11 DEF First, Nowhere
<1>13. Bindings'  BY <1>1, <1>2, <1>3, <1>11, <1>12 DEF Bindings, BoundToFirst
<1>14. Planned'
  <2>1. Has("no-deps")' = Has("no-deps")  BY <1>11
  <2>2. Meets(result', run'.spec, Required(run'.spec), Has("no-deps")')  BY <1>1, <1>3, <2>1
  <2> QED  BY <1>3, <1>11, <2>2 DEF Planned, Working
<1>15. AnsweredByItsServer'
  <2>1. \A c \in In(r) : how = "solved" => FromItsServer(c, r.resolved[c].source)  OBVIOUS
  <2>2. ASSUME NEW c \in In(r), how = "solved"
        PROVE  LET s == r.resolved[c].source IN
               CASE SourceOf(c) # None -> s = SourceOf(c)
                 [] SourceOf(c) = None /\ asked.bound[c] # None ->
                      \E i \in DOMAIN run.list :
                        /\ run.list[i] = s /\ serves[s][c] # {}
                        /\ \A j \in 1 .. (i - 1) : serves[run.list[j]][c] = {}
                 [] OTHER -> Has("no-deps") /\ Exact(c) # {}
    <3>1. CASE SourceOf(c) # None  BY <2>1, <2>2, <3>1, Zenon DEF FromItsServer
    <3>2. CASE SourceOf(c) = None /\ asked.bound[c] # None  BY <2>1, <2>2, <3>2, Zenon DEF FromItsServer
    <3>3. CASE SourceOf(c) = None /\ asked.bound[c] = None  BY <2>1, <2>2, <3>3, Zenon DEF FromItsServer
    <3> QED  BY <3>1, <3>2, <3>3
  <2>3. In(result)' = In(r)  BY <1>1
  <2> QED  BY <1>1, <1>3, <1>11, <2>2, <2>3, Zenon DEF AnsweredByItsServer
<1>16. RefreshSeesTheCurrent'
  <2>1. Vetoed => \A c \in In(r) : AsServed(c, r.resolved[c])  OBVIOUS
  <2> QED  BY <1>1, <1>3, <1>11, <2>1 DEF RefreshSeesTheCurrent, AsServed, Vetoed
<1> QED  BY <1>9, <1>10, <1>13, <1>14, <1>15, <1>16 DEF IInv

LEMMA SolveInv == ASSUME IInv, Solve  PROVE IInv'
<1> DEFINE bare == Has("no-deps")
<1>1. TypeOK /\ run \in Runs /\ Bindings /\ Planned /\ Sound(st) /\ Sound(disk) /\ run.pc = "solve" /\ Working
  BY DEF IInv, Solve, TypeOK, Working
<1>2. PICK sel \in Selections :
        LET new == Resolved(sel) IN
        \/ ~Partial /\ Finish(new, "solved")
        \/ Partial /\ Mergeable(new) /\ Finish(Merged(new), "merged")
        \/ /\ Partial /\ ~Mergeable(new)
           /\ run' = [run EXCEPT !.pc = "prewarm", !.roots = Required(run.spec)]
           /\ asked' = NoAnswers
           /\ UNCHANGED <<serves, disk, st, result>>
  BY DEF Solve
<1> DEFINE new == Resolved(sel)
<1>3. new \in Plans /\ Meets(new, run.spec, run.roots, bare)  BY <1>1, ResolvedMeets
<1>4. \A c \in In(new) : FromItsServer(c, new.resolved[c].source) /\ (Vetoed => AsServed(c, new.resolved[c]))
  BY <1>1, SolvedIsItsServers
<1> HIDE DEF new
<1>5. CASE ~Partial /\ Finish(new, "solved")
  <2>1. Meets(new, run.spec, Required(run.spec), bare)  BY <1>3, <1>5 DEF Partial
  <2> QED  BY <1>1, <1>3, <1>4, <1>5, <2>1, FinishInv
<1>6. CASE Partial /\ Mergeable(new) /\ Finish(Merged(new), "merged")
  <2>1. Incremental /\ ~Vetoed /\ run.roots = Changed  BY <1>1, <1>6 DEF Planned, Partial
  <2>2. Merged(new) \in Plans /\ Meets(Merged(new), run.spec, Required(run.spec), bare)
    BY <1>1, <1>3, <1>6, <2>1, MergedMeets DEF Sound
  <2> QED  BY <1>1, <1>6, <2>1, <2>2, FinishInv
<1>7. CASE /\ run' = [run EXCEPT !.pc = "prewarm", !.roots = Required(run.spec)]
           /\ asked' = NoAnswers
           /\ UNCHANGED <<serves, disk, st, result>>
  <2>1. /\ run'.pc = "prewarm" /\ run'.roots = Required(run'.spec)
        /\ run'.list = run.list
        /\ run' \in Runs
    BY <1>1, <1>7 DEF Runs, Required
  <2>2. TypeOK'  BY <1>1, <1>7, <2>1, EmptyTypes DEF TypeOK
  <2>3. Bindings'  BY <1>7 DEF Bindings, BoundToFirst, NoAnswers
  <2>4. Sound(st)' /\ Sound(disk)'  BY <1>1, <1>7 DEF Sound, Sourced, Backed
  <2>5. Planned' /\ AnsweredByItsServer' /\ RefreshSeesTheCurrent'
    BY <2>1 DEF Planned, Working, AnsweredByItsServer, RefreshSeesTheCurrent
  <2> QED  BY <2>2, <2>3, <2>4, <2>5 DEF IInv
<1> QED  BY <1>2, <1>5, <1>6, <1>7 DEF new
LEMMA NextInv == IInv /\ [Next]_vars => IInv'
<1> SUFFICES ASSUME IInv, [Next]_vars  PROVE IInv'  OBVIOUS
<1>1. CASE \E s \in Servers, c \in Collections, v \in Versions : Publish(s, c, v)  BY <1>1, PublishInv
<1>2. CASE Age  BY <1>2, AgeInv
<1>3. CASE \E spec \in Requirements, flags \in Configs : Begin(spec, flags)  BY <1>3, BeginInv
<1>4. CASE Replay  BY <1>4, ReplayInv
<1>5. CASE Choose  BY <1>5, ChooseInv
<1>6. CASE Prewarmed  BY <1>6, PrewarmedInv
<1>7. CASE \E c \in Collections, down \in {{}} \cup {{s} : s \in Servers} :
             \/ Prewarm(c, down) \/ Ask(c, down)
             \/ \E v \in Versions : Learn(c, v, down)
  BY <1>7, PrewarmInv, AskInv, LearnInv, Zenon
<1>8. CASE Solve  BY <1>8, SolveInv
<1>9. CASE Conflict \/ Save \/ Abandon
  <2>1. Save \/ Fail  BY <1>9 DEF Conflict, Abandon
  <2> QED  BY <2>1, EndInv
<1>10. CASE UNCHANGED vars
  <2>1. TypeOK' /\ Sound(st)' /\ Sound(disk)'  BY <1>10 DEF vars, IInv, TypeOK, Required, Sound, Sourced, Backed
  <2>2. SameRun /\ SamePlan  BY <1>10 DEF vars, SameRun, SamePlan
  <2>3. Bindings'  BY <1>10, <2>2, SameFirst DEF vars, IInv, Bindings, BoundToFirst, Vetoed, Has
  <2>4. Planned'  BY <1>10, <2>2, SamePartial DEF vars, IInv, Planned, Working, Vetoed, Has
  <2>5. UNCHANGED <<serves, run, asked, result>>  BY <1>10 DEF vars
  <2>6. /\ \A f : Has(f)' = Has(f)
        /\ \A c : SourceOf(c)' = SourceOf(c) /\ Exact(c)' = Exact(c)
    BY <2>5 DEF Has, SourceOf, Exact, Wants
  <2>7. AnsweredByItsServer'  BY <2>5, <2>6, Zenon DEF IInv, AnsweredByItsServer
  <2>8. RefreshSeesTheCurrent'  BY <2>5, <2>6 DEF IInv, RefreshSeesTheCurrent
  <2> QED  BY <2>1, <2>3, <2>4, <2>7, <2>8 DEF IInv
<1> QED  BY <1>1, <1>2, <1>3, <1>4, <1>5, <1>6, <1>7, <1>8, <1>9, <1>10, Zenon DEF Next

\* The inductive invariant: what is cached is its server's, every collection
\* is bound to the first of its candidates that has it, and the plan on
\* record meets the requirements it was recorded for (metadata.go,
\* loadRootMetadataCached; resolve.go, recordResolution).
THEOREM Invariant == Spec => []IInv
<1>1. Init => IInv  BY InitInv
<1>2. IInv /\ [Next]_vars => IInv'  BY NextInv
<1> QED  BY <1>1, <1>2, PTL DEF Spec

\* Every step keeps the state in its types.
THEOREM TypeCorrect == Spec => []TypeOK
<1>1. IInv => TypeOK  BY DEF IInv
<1> QED  BY <1>1, Invariant, PTL

\* Replayed, merged or solved, a plan meets the requirements it is installed
\* for, with nothing missing and nothing over (resolve.go,
\* resolveCollectionsInternal).
THEOREM PlanIsRight == Spec => []PlanMeetsRequirements
<1>1. IInv => PlanMeetsRequirements
  <2>1. SUFFICES ASSUME IInv, run.pc = "done"  PROVE PlanMeetsRequirements  BY DEF PlanMeetsRequirements
  <2>2. Meets(result, run.spec, Required(run.spec), Has("no-deps"))  BY <2>1 DEF IInv, Planned
  <2> QED  BY <2>2 DEF PlanMeetsRequirements, Meets, MeetsRoots, MeetsDeps, NoneOver, DepsIn
<1> QED  BY <1>1, Invariant, PTL

\* No failing, cached or offline server changes whose a collection is
\* (metadata.go, loadRootMetadataCached).
THEOREM OwnersAnswer == Spec => []AnsweredByItsServer
<1>1. IInv => AnsweredByItsServer  BY DEF IInv
<1> QED  BY <1>1, Invariant, PTL

\* The deps cache is scoped by the server whose documents it holds
\* (helpers/cachekeys.go, ScopedDepsCacheKey).
THEOREM DepsAreOwn == Spec => []DepsAreTheServersOwn
<1>1. IInv => DepsAreTheServersOwn  BY DEF IInv, Sound, Sourced, DepsAreTheServersOwn
<1> QED  BY <1>1, Invariant, PTL

\* A run that refreshes, or has no cache, sees what is published now
\* (resolve.go, snapshotReuseVetoed; cache/policy.go).
THEOREM RefreshIsCurrent == Spec => []RefreshSeesTheCurrent
<1>1. IInv => RefreshSeesTheCurrent  BY DEF IInv
<1> QED  BY <1>1, Invariant, PTL

-----------------------------------------------------------------------------
\* Lockfiles: entries, and what is in their fields

Kinds == {"galaxy", "git", "url"}
Whole(e, fields) == e = [x \in fields \cup {"name"} |-> e[x]]

LEMMA EntryIs ==
  ASSUME NEW n, NEW type, NEW version, NEW source, NEW deps
  PROVE  LET e == Entry(n, type, version, source, deps) IN
         /\ Whole(e, comparedFields)
         /\ e.name = n /\ e.type = type /\ e.version = version /\ e.source = source /\ e.deps = deps
         /\ e.url = <<>> /\ e.subdir = <<>> /\ e.ref = Unset /\ e.commit = Unset /\ e.sha = Unset
<1> DEFINE e == Entry(n, type, version, source, deps)
<1>1. DOMAIN e = comparedFields \cup {"name"}
  BY DEF Entry, comparedFields
<1>2. e = [x \in DOMAIN e |-> e[x]]
  BY DEF Entry
<1>3. Whole(e, comparedFields)
  BY <1>1, <1>2, Zenon DEF Whole
<1> QED BY <1>3 DEF Entry

LEMMA LockEntryIs ==
  ASSUME NEW n, NEW c, NEW w, c.kind \in Kinds
  PROVE  LET e == LockEntry(n, c, w) IN
         /\ Whole(e, comparedFields)
         /\ e.name = n /\ e.version = c.version /\ e.source = c.at /\ e.deps = c.deps
         /\ c.kind = "galaxy" =>
              /\ e.type = Unset /\ e.ref = Unset /\ e.commit = Unset /\ e.subdir = <<>>
              /\ e.sha = Metadata(n, c, w).sha /\ e.url = lockableDownloadURL(Metadata(n, c, w).url)
         /\ c.kind = "git" =>
              /\ e.type = "git" /\ e.url = <<>> /\ e.sha = Unset
              /\ e.ref = (IF c.ref = Unset THEN c.pin ELSE c.ref)
              /\ e.commit = c.pin /\ e.subdir = c.subdir
         /\ c.kind = "url" =>
              /\ e.type = "url" /\ e.url = <<>> /\ e.sha = c.pin
              /\ e.ref = Unset /\ e.commit = Unset /\ e.subdir = <<>>
<1> DEFINE e == LockEntry(n, c, w)
           b(type) == Entry(n, type, c.version, c.at, c.deps)
           sha == Metadata(n, c, w).sha
           url == lockableDownloadURL(Metadata(n, c, w).url)
           ref == IF c.ref = Unset THEN c.pin ELSE c.ref
<1>1. CASE c.kind = "galaxy"
  <2>1. e = [b(Unset) EXCEPT !.url = url, !.sha = sha]
    BY <1>1, Zenon DEF LockEntry, galaxyLockfileEntry
  <2> HIDE DEF e, b, sha, url, ref
  <2>2. Whole(b(Unset), comparedFields)
    BY EntryIs DEF b
  <2>3. /\ Whole(e, comparedFields) /\ e.url = url /\ e.sha = sha
        /\ \A x \in (comparedFields \cup {"name"}) \ {"url", "sha"} : e[x] = b(Unset)[x]
    BY <2>1, <2>2 DEF Whole, comparedFields
  <2>4. e.name = n /\ e.version = c.version /\ e.source = c.at /\ e.deps = c.deps
        /\ e.type = Unset /\ e.ref = Unset /\ e.commit = Unset /\ e.subdir = <<>>
    BY <2>3, EntryIs DEF b, comparedFields
  <2> QED BY <1>1, <2>3, <2>4 DEF e, sha, url, ref
<1>2. CASE c.kind = "git"
  <2>1. e = [b("git") EXCEPT !.ref = ref, !.commit = c.pin, !.subdir = c.subdir]
    BY <1>2, Zenon DEF LockEntry, gitLockfileEntry
  <2> HIDE DEF e, b, sha, url, ref
  <2>2. Whole(b("git"), comparedFields)
    BY EntryIs DEF b
  <2>3. /\ Whole(e, comparedFields) /\ e.ref = ref /\ e.commit = c.pin /\ e.subdir = c.subdir
        /\ \A x \in (comparedFields \cup {"name"}) \ {"ref", "commit", "subdir"} : e[x] = b("git")[x]
    BY <2>1, <2>2 DEF Whole, comparedFields
  <2>4. e.name = n /\ e.version = c.version /\ e.source = c.at /\ e.deps = c.deps
        /\ e.type = "git" /\ e.url = <<>> /\ e.sha = Unset
    BY <2>3, EntryIs DEF b, comparedFields
  <2> QED BY <1>2, <2>3, <2>4 DEF e, sha, url, ref
<1>3. CASE c.kind = "url"
  <2>1. e = [b("url") EXCEPT !.sha = c.pin]
    BY <1>3, Zenon DEF LockEntry, urlLockfileEntry
  <2> HIDE DEF e, b, sha, url, ref
  <2>2. Whole(b("url"), comparedFields)
    BY EntryIs DEF b
  <2>3. /\ Whole(e, comparedFields) /\ e.sha = c.pin
        /\ \A x \in (comparedFields \cup {"name"}) \ {"sha"} : e[x] = b("url")[x]
    BY <2>1, <2>2 DEF Whole, comparedFields
  <2>4. e.name = n /\ e.version = c.version /\ e.source = c.at /\ e.deps = c.deps
        /\ e.type = "url" /\ e.url = <<>> /\ e.ref = Unset /\ e.commit = Unset /\ e.subdir = <<>>
    BY <2>3, EntryIs DEF b, comparedFields
  <2> QED BY <1>3, <2>3, <2>4 DEF e, sha, url, ref
<1> QED BY <1>1, <1>2, <1>3 DEF Kinds

LEMMA RoleEntryIs ==
  ASSUME NEW n, NEW r, NEW cfg, r.kind \in Kinds
  PROVE  LET e == RoleEntry(n, r, cfg) IN
         /\ Whole(e, comparedRoleFields)
         /\ e.name = n /\ e.type = r.kind /\ e.version = r.version /\ e.deps = r.deps
         /\ r.kind = "galaxy" =>
              /\ e.galaxy = r.galaxy /\ e.repository = r.at
              /\ e.source = (IF r.server = Unset THEN cfg.default ELSE r.server)
         /\ r.kind # "galaxy" => e.galaxy = Unset /\ e.repository = Unset /\ e.source = r.at
         /\ r.kind = "url" => e.ref = Unset /\ e.commit = Unset /\ e.sha = r.pin
         /\ r.kind # "url" => e.ref = r.ref /\ e.commit = r.pin /\ e.sha = Unset
<1> DEFINE e == RoleEntry(n, r, cfg)
<1>1. DOMAIN e = comparedRoleFields \cup {"name"}
  BY DEF RoleEntry, comparedRoleFields
<1>2. e = [x \in DOMAIN e |-> e[x]]
  BY DEF RoleEntry
<1>3. Whole(e, comparedRoleFields)
  BY <1>1, <1>2, Zenon DEF Whole
<1>4. /\ e.name = n /\ e.type = r.kind /\ e.version = r.version /\ e.deps = r.deps
      /\ e.galaxy = (IF r.kind = "galaxy" THEN r.galaxy ELSE Unset)
      /\ e.repository = (IF r.kind = "galaxy" THEN r.at ELSE Unset)
      /\ e.ref = (IF r.kind = "url" THEN Unset ELSE r.ref)
      /\ e.commit = (IF r.kind = "url" THEN Unset ELSE r.pin)
      /\ e.sha = (IF r.kind = "url" THEN r.pin ELSE Unset)
  BY DEF RoleEntry
<1>5. e.source = (IF r.kind # "galaxy" THEN r.at ELSE IF r.server = Unset THEN cfg.default ELSE r.server)
  BY DEF RoleEntry
<1> HIDE DEF e
<1> QED BY <1>3, <1>4, <1>5 DEF e

-----------------------------------------------------------------------------
\* The comparison

\* Two lists of entries without a double have no difference iff they are one.
LEMMA NoChangeIsSame ==
  ASSUME NEW S, NEW T, NEW fields,
         OncePerName(S), OncePerName(T), \A e \in S \cup T : Whole(e, fields)
  PROVE  diffIndexes(S, T, fields) = NoChange <=> S = T
<1>1. ASSUME diffIndexes(S, T, fields) = NoChange PROVE S = T
  <2>1. /\ \A e \in T : e.name \in Names(S)
        /\ \A e \in S : e.name \in Names(T)
        /\ \A d \in S, e \in T : d.name = e.name => Fields(d, e, fields) = {}
    <3>1. /\ {e \in T : e.name \notin Names(S)} = {} /\ {e \in S : e.name \notin Names(T)} = {}
          /\ {c \in S \X T : c[1].name = c[2].name /\ Fields(c[1], c[2], fields) # {}} = {}
      BY <1>1 DEF diffIndexes, NoChange
    <3>2. ASSUME NEW d \in S, NEW e \in T, d.name = e.name PROVE Fields(d, e, fields) = {}
      <4>1. <<d, e>> \in S \X T /\ <<d, e>>[1] = d /\ <<d, e>>[2] = e
        OBVIOUS
      <4> QED BY <3>1, <3>2, <4>1, Zenon
    <3> QED BY <3>1, <3>2
  <2>2. ASSUME NEW d \in S, NEW e \in T, d.name = e.name PROVE d = e
    <3>1. \A x \in fields \cup {"name"} : d[x] = e[x]
      BY <2>1, <2>2 DEF Fields
    <3>2. d = [x \in fields \cup {"name"} |-> d[x]] /\ e = [x \in fields \cup {"name"} |-> e[x]]
      BY DEF Whole
    <3> QED BY <3>1, <3>2
  <2> QED BY <2>1, <2>2 DEF Names
<1>2. ASSUME S = T PROVE diffIndexes(S, T, fields) = NoChange
  <2>1. \A e \in S : e.name \in Names(S)
    BY DEF Names
  <2>2. \A c \in S \X S : c[1].name = c[2].name => Fields(c[1], c[2], fields) = {}
    BY DEF OncePerName, Fields
  <2> QED BY <1>2, <2>1, <2>2 DEF diffIndexes, NoChange
<1> QED BY <1>1, <1>2

Content(f) == <<f.server, f.collections, f.roles>>

LEMMA CompareIsContent ==
  ASSUME NEW f, NEW g, HasFields(f), HasFields(g),
         OncePerName(f.collections), OncePerName(f.roles), OncePerName(g.collections), OncePerName(g.roles)
  PROVE  /\ EmptyDiff(Compare(f, g)) <=> Content(f) = Content(g)
         /\ Hash(f) = Hash(g) <=> Content(f) = Content(g)
<1>1. /\ \A e \in f.collections \cup g.collections : Whole(e, comparedFields)
      /\ \A e \in f.roles \cup g.roles : Whole(e, comparedRoleFields)
  BY DEF HasFields, Whole
<1>2. /\ diffIndexes(f.collections, g.collections, comparedFields) = NoChange <=> f.collections = g.collections
      /\ diffIndexes(f.roles, g.roles, comparedRoleFields) = NoChange <=> f.roles = g.roles
  BY <1>1, NoChangeIsSame
<1>3. EmptyDiff(Compare(f, g)) <=> Content(f) = Content(g)
  BY <1>2 DEF EmptyDiff, Compare, Content
<1>4. \A h : HasFields(h) =>
        canonical(h) = [schema |-> SchemaVersionFor(h.collections, h.roles), server |-> h.server,
                        collections |-> h.collections, roles |-> h.roles]
  BY DEF HasFields, canonical
<1>5. Hash(f) = Hash(g) <=> Content(f) = Content(g)
  BY <1>4 DEF Hash, Content
<1> QED BY <1>3, <1>5

-----------------------------------------------------------------------------
\* What lock writes

Moments == {at \in [project : Projects, config : ServerLists, world : Worlds] : ~Unresolvable(at.project, at.config, at.world)}
Then(at) == ResolutionOf(at.project, at.config, at.world)

\* The file says what was resolved at that moment.
LockedAs(f, at) ==
  /\ f.server = at.config.default
  /\ f.collections = {LockEntry(n, Then(at).collections[n], at.world) : n \in DOMAIN Then(at).collections}
  /\ f.roles = {RoleEntry(n, Then(at).roles[n], at.config) : n \in DOMAIN Then(at).roles}
  /\ \A n \in DOMAIN Then(at).collections : Lockable(n, Then(at).collections[n], at.config, at.world)

LEMMA ResolutionIs ==
  ASSUME NEW at \in Moments
  PROVE  /\ \A root \in at.project.roots : RootMet(root, Then(at))
         /\ \A root \in at.project.roles : RoleRootMet(root, Then(at))
         /\ \A n \in DOMAIN Then(at).collections :
              /\ CollectionKnown(Then(at).collections[n], at.project, Then(at))
              /\ Then(at).collections[n].kind \in Kinds
         /\ \A n \in DOMAIN Then(at).roles :
              /\ RoleKnown(Then(at).roles[n])
              /\ Then(at).roles[n].kind \in Kinds
<1>1. /\ at.project \in Projects /\ at.config \in ServerLists /\ at.world \in Worlds
      /\ ~Unresolvable(at.project, at.config, at.world)
  BY DEF Moments
<1>2. LET r == Then(at) IN
      /\ \A root \in at.project.roots : RootMet(root, r)
      /\ \A root \in at.project.roles : RoleRootMet(root, r)
      /\ \A n \in DOMAIN r.collections : CollectionKnown(r.collections[n], at.project, r)
      /\ \A n \in DOMAIN r.roles : RoleKnown(r.roles[n])
  BY <1>1, LockfilesAssumption, Zenon DEF Then
<1> QED BY <1>2 DEF CollectionKnown, RoleKnown, Kinds

LEMMA BuiltIs ==
  ASSUME NEW at \in Moments, NEW f \in Built(at.project, at.config, at.world)
  PROVE  /\ LockedAs(f, at)
         /\ f = [schema |-> f.schema, server |-> f.server, collections |-> f.collections, roles |-> f.roles]
         /\ f.schema = SchemaVersionFor(f.collections, f.roles)
<1> DEFINE r == Then(at)
           g == [schema |-> 0, server |-> at.config.default,
                 collections |-> {LockEntry(n, r.collections[n], at.world) : n \in DOMAIN r.collections},
                 roles |-> {RoleEntry(n, r.roles[n], at.config) : n \in DOMAIN r.roles}]
<1>1. f = canonical(g) /\ \A n \in DOMAIN r.collections : Lockable(n, r.collections[n], at.config, at.world)
  BY DEF Built, Then
<1>2. f = [schema |-> SchemaVersionFor(g.collections, g.roles), server |-> g.server,
           collections |-> g.collections, roles |-> g.roles]
  BY <1>1 DEF canonical
<1> HIDE DEF g
<1>3. /\ f.schema = SchemaVersionFor(f.collections, f.roles)
      /\ f = [schema |-> f.schema, server |-> f.server, collections |-> f.collections, roles |-> f.roles]
      /\ f.server = g.server /\ f.collections = g.collections /\ f.roles = g.roles
  BY <1>2
<1> USE DEF g
<1>4. LockedAs(f, at)
  BY <1>1, <1>3 DEF LockedAs
<1> QED BY <1>3, <1>4

LEMMA LockedHas ==
  ASSUME NEW at \in Moments, NEW f, LockedAs(f, at)
  PROVE  /\ OncePerName(f.collections) /\ OncePerName(f.roles)
         /\ \A e \in f.collections : Whole(e, comparedFields)
         /\ \A e \in f.roles : Whole(e, comparedRoleFields)
<1> DEFINE r == Then(at)
           E(n) == LockEntry(n, r.collections[n], at.world)
           R(n) == RoleEntry(n, r.roles[n], at.config)
<1>1. \A n \in DOMAIN r.collections : Whole(E(n), comparedFields) /\ E(n).name = n
  BY ResolutionIs, LockEntryIs
<1>2. \A n \in DOMAIN r.roles : Whole(R(n), comparedRoleFields) /\ R(n).name = n
  BY ResolutionIs, RoleEntryIs
<1>3. f.collections = {E(n) : n \in DOMAIN r.collections} /\ f.roles = {R(n) : n \in DOMAIN r.roles}
  BY DEF LockedAs
<1> HIDE DEF r, E, R
<1> QED BY <1>1, <1>2, <1>3 DEF OncePerName

LEMMA SchemaFollows ==
  ASSUME NEW E, NEW R, \A e \in E : e.type \in {Unset, "git", "url"}, \A e \in R : e.type \in Kinds
  PROVE  LET schema == SchemaVersionFor(E, R) IN
         /\ schema \in 1 .. 5
         /\ \A e \in E : e.type = Unset => schema >= 5
         /\ \A e \in E \cup R : e.type = "url" => schema >= 4
         /\ \A e \in R : schema >= 3
         /\ \A e \in E : e.type = "git" => schema >= 2
<1> DEFINE schema == SchemaVersionFor(E, R)
           all == E \cup R
<1>0. Unset # "git" /\ Unset # "url" /\ \A k \in Kinds : k # Unset
  BY DEF Unset, Kinds
<1>1. CASE \E e \in E : e.type = Unset
  <2>1. /\ ~ \A e \in E : e.type # Unset
        /\ ~ \A e \in all : e.type \notin {Unset, "url"}
        /\ ~ \A e \in E : e.type = "git"
        /\ all # {}
    BY <1>0, <1>1
  <2>2. schema = 5
    BY <1>1, <2>1, Zenon DEF SchemaVersionFor, SchemaVersionDownloadURL
  <2> QED BY <2>2
<1>2. CASE (\A e \in E : e.type # Unset) /\ \E e \in all : e.type = "url"
  <2>1. schema = 4
    BY <1>2, Zenon DEF SchemaVersionFor, SchemaVersionURL
  <2> QED BY <1>2, <2>1
<1>3. CASE (\A e \in all : e.type \notin {Unset, "url"}) /\ R # {}
  <2>1. schema = 3
    BY <1>3, Zenon DEF SchemaVersionFor, SchemaVersionRoles
  <2> QED BY <1>3, <2>1
<1>4. CASE R = {} /\ E # {} /\ \A e \in E : e.type = "git"
  <2>1. schema = 2
    BY <1>0, <1>4, Zenon DEF SchemaVersionFor, SchemaVersionGit
  <2> QED BY <1>0, <1>4, <2>1
<1>5. CASE all = {}
  <2>1. schema = 1
    BY <1>5, Zenon DEF SchemaVersionFor, SchemaVersion
  <2> QED BY <1>5, <2>1
<1> QED
  <2>1. \A e \in R : e.type # Unset
    BY <1>0
  <2> QED BY <1>1, <1>2, <1>3, <1>4, <1>5, <2>1, Zenon

\* A file that lock writes loads.
LEMMA LockedLoads ==
  ASSUME NEW at \in Moments, NEW f, LockedAs(f, at), f.schema = SchemaVersionFor(f.collections, f.roles)
  PROVE  Loadable(f)
<1> DEFINE r == Then(at)
           E(n) == LockEntry(n, r.collections[n], at.world)
           R(n) == RoleEntry(n, r.roles[n], at.config)
<1>1. f.collections = {E(n) : n \in DOMAIN r.collections} /\ f.roles = {R(n) : n \in DOMAIN r.roles}
  BY DEF LockedAs
<1>2. ASSUME NEW n \in DOMAIN r.collections
      PROVE  /\ Given(E(n).version) /\ E(n).source # Malformed
             /\ \/ E(n).type = Unset /\ NoGitFields(E(n)) /\ Len(E(n).url) = 3
                \/ /\ E(n).type = "git" /\ E(n).url = <<>> /\ E(n).sha = Unset
                   /\ Given(E(n).source) /\ Given(E(n).ref) /\ Given(E(n).commit) /\ E(n).subdir # <<Malformed>>
                \/ /\ E(n).type = "url" /\ E(n).url = <<>> /\ NoGitFields(E(n))
                   /\ Given(E(n).source) /\ Given(E(n).sha)
  <2> DEFINE c == r.collections[n]
  <2>1. CollectionKnown(c, at.project, r) /\ c.kind \in Kinds /\ Lockable(n, c, at.config, at.world)
    BY ResolutionIs DEF LockedAs
  <2>2. Given(E(n).version) /\ E(n).source # Malformed /\ Given(E(n).source)
    BY <2>1, LockEntryIs DEF Lockable, CollectionKnown, Given
  <2>3. CASE c.kind = "galaxy"
    <3>1. E(n).type = Unset /\ NoGitFields(E(n))
      BY <2>1, <2>3, LockEntryIs DEF NoGitFields
    <3>2. E(n).url = <<lockedServerBase(at.config, c.at), n, c.version>>
      BY <2>1, <2>3 DEF Lockable, serverArtifactURL
    <3> QED BY <2>2, <3>1, <3>2
  <2>4. CASE c.kind = "git"
    <3>1. Given(c.ref) /\ Given(c.pin) /\ c.subdir # <<Malformed>>
      BY <2>1, <2>4 DEF CollectionKnown
    <3>2. E(n).type = "git" /\ E(n).url = <<>> /\ E(n).sha = Unset
          /\ E(n).ref = c.ref /\ E(n).commit = c.pin /\ E(n).subdir = c.subdir
      BY <2>1, <2>4, <3>1, LockEntryIs DEF Given
    <3> QED BY <2>2, <3>1, <3>2
  <2>5. CASE c.kind = "url"
    <3>1. Given(c.pin)
      BY <2>1, <2>5 DEF CollectionKnown
    <3>2. E(n).type = "url" /\ E(n).url = <<>> /\ NoGitFields(E(n)) /\ E(n).sha = c.pin
      BY <2>1, <2>5, LockEntryIs DEF NoGitFields
    <3> QED BY <2>2, <3>1, <3>2
  <2> QED BY <2>1, <2>3, <2>4, <2>5 DEF Kinds
<1>3. ASSUME NEW n \in DOMAIN r.roles
      PROVE  /\ Given(R(n).version)
             /\ \/ R(n).type = "git" /\ CommitPin(R(n)) /\ Given(R(n).source) /\ NoGalaxyFields(R(n))
                \/ /\ R(n).type = "galaxy" /\ CommitPin(R(n)) /\ Given(R(n).galaxy) /\ Given(R(n).repository)
                   /\ R(n).source # Malformed
                \/ /\ R(n).type = "url" /\ Given(R(n).source) /\ Given(R(n).sha) /\ NoGalaxyFields(R(n))
                   /\ R(n).ref = Unset /\ R(n).commit = Unset
  <2> DEFINE c == r.roles[n]
  <2>1. RoleKnown(c) /\ c.kind \in Kinds
    BY ResolutionIs
  <2>2. at.config.default # Malformed
    BY LockfilesAssumption DEF Moments
  <2>3. Given(R(n).version) /\ R(n).type = c.kind
    BY <2>1, RoleEntryIs DEF RoleKnown
  <2>4. CASE c.kind = "galaxy"
    <3>1. Given(c.ref) /\ Given(c.pin) /\ Given(c.galaxy) /\ Given(c.at) /\ c.server # Malformed
      BY <2>1, <2>4 DEF RoleKnown
    <3>2. R(n).galaxy = c.galaxy /\ R(n).repository = c.at /\ R(n).ref = c.ref /\ R(n).commit = c.pin /\ R(n).sha = Unset
      BY <2>1, <2>4, RoleEntryIs
    <3>3. R(n).source # Malformed
      BY <2>1, <2>2, <2>4, <3>1, RoleEntryIs
    <3> QED BY <2>3, <2>4, <3>1, <3>2, <3>3 DEF CommitPin
  <2>5. CASE c.kind = "git"
    <3>1. Given(c.ref) /\ Given(c.pin) /\ Given(c.at)
      BY <2>1, <2>5 DEF RoleKnown
    <3>2. R(n).galaxy = Unset /\ R(n).repository = Unset /\ R(n).source = c.at
          /\ R(n).ref = c.ref /\ R(n).commit = c.pin /\ R(n).sha = Unset
      BY <2>1, <2>5, RoleEntryIs
    <3> QED BY <2>3, <2>5, <3>1, <3>2 DEF CommitPin, NoGalaxyFields
  <2>6. CASE c.kind = "url"
    <3>1. Given(c.pin) /\ Given(c.at)
      BY <2>1, <2>6 DEF RoleKnown
    <3>2. R(n).galaxy = Unset /\ R(n).repository = Unset /\ R(n).source = c.at
          /\ R(n).ref = Unset /\ R(n).commit = Unset /\ R(n).sha = c.pin
      BY <2>1, <2>6, RoleEntryIs
    <3> QED BY <2>3, <2>6, <3>1, <3>2 DEF NoGalaxyFields
  <2> QED BY <2>1, <2>4, <2>5, <2>6 DEF Kinds
<1> HIDE DEF r, E, R
<1>4. /\ \A e \in f.collections : e.type \in {Unset, "git", "url"}
      /\ \A e \in f.roles : e.type \in Kinds
  BY <1>1, <1>2, <1>3 DEF Kinds
<1>5. /\ f.schema \in 1 .. 5
      /\ \A e \in f.collections : e.type = Unset => f.schema >= 5
      /\ \A e \in f.collections \cup f.roles : e.type = "url" => f.schema >= 4
      /\ \A e \in f.roles : f.schema >= 3
      /\ \A e \in f.collections : e.type = "git" => f.schema >= 2
  BY <1>4, SchemaFollows
<1>6. \A e \in f.collections : Given(e.version) /\ e.source # Malformed /\ validateEntryType(e, f.schema)
  <2> SUFFICES ASSUME NEW n \in DOMAIN r.collections PROVE Given(E(n).version) /\ E(n).source # Malformed /\ validateEntryType(E(n), f.schema)
    BY <1>1
  <2>1. E(n) \in f.collections
    BY <1>1
  <2> QED BY <1>2, <1>5, <2>1 DEF validateEntryType, SchemaVersionGit, SchemaVersionURL, SchemaVersionDownloadURL
<1>7. \A e \in f.roles : roleEntryOK(e, f.schema)
  <2> SUFFICES ASSUME NEW n \in DOMAIN r.roles PROVE roleEntryOK(R(n), f.schema)
    BY <1>1
  <2>1. R(n) \in f.roles
    BY <1>1
  <2> QED BY <1>3, <1>5, <2>1 DEF roleEntryOK, SchemaVersionRoles, SchemaVersionURL
<1> QED BY <1>5, <1>6, <1>7, LockedHas DEF Loadable, SchemaVersion, SchemaVersionDownloadURL

-----------------------------------------------------------------------------
\* What a frozen run takes from a locked file

Entries(at) == [n \in DOMAIN Then(at).collections |-> LockEntry(n, Then(at).collections[n], at.world)]
RoleEntries(at) == [n \in DOMAIN Then(at).roles |-> RoleEntry(n, Then(at).roles[n], at.config)]

LEMMA EntriesAre ==
  ASSUME NEW at \in Moments, NEW f, LockedAs(f, at), NEW n \in DOMAIN Then(at).collections
  PROVE  LET c == Then(at).collections[n]
             e == Entries(at)[n]
         IN /\ e.name = n /\ e.version = c.version /\ e.source = c.at /\ e.deps = c.deps
            /\ e.source # Unset
            /\ \/ /\ c.kind = "galaxy" /\ e.type = Unset /\ e.ref = Unset /\ e.commit = Unset /\ e.subdir = <<>>
                  /\ e.sha = Metadata(n, c, at.world).sha /\ e.url = <<c.at, n, c.version>>
                  /\ \A cfg \in ServerLists : lockedServerBase(cfg, c.at) = c.at
               \/ /\ c.kind = "git" /\ e.type = "git" /\ e.ref = c.ref /\ e.commit = c.pin /\ e.subdir = c.subdir
                  /\ e.sha = Unset
                  /\ \E root \in at.project.roots : root.kind = "git" /\ root.at = c.at /\ root.ref = c.ref
               \/ /\ c.kind = "url" /\ e.type = "url" /\ e.sha = c.pin
                  /\ \E root \in at.project.roots : root.kind = "url" /\ root.at = c.at
<1> DEFINE c == Then(at).collections[n]
           e == Entries(at)[n]
<1>1. CollectionKnown(c, at.project, Then(at)) /\ c.kind \in Kinds /\ Lockable(n, c, at.config, at.world)
  BY ResolutionIs DEF LockedAs
<1>2. e = LockEntry(n, c, at.world)
  BY DEF Entries
<1>3. e.name = n /\ e.version = c.version /\ e.source = c.at /\ e.deps = c.deps /\ e.source # Unset
  BY <1>1, <1>2, LockEntryIs DEF CollectionKnown, Given
<1>4. CASE c.kind = "galaxy"
  <2>1. \A cfg \in ServerLists : lockedServerBase(cfg, c.at) = c.at
    BY <1>1, <1>4 DEF CollectionKnown, Given, lockedServerBase, pinnedServer
  <2>2. e.url = <<lockedServerBase(at.config, c.at), n, c.version>>
    BY <1>1, <1>2, <1>4 DEF Lockable, serverArtifactURL
  <2>3. e.url = <<c.at, n, c.version>>
    BY <2>1, <2>2 DEF Moments
  <2>4. e.type = Unset /\ e.ref = Unset /\ e.commit = Unset /\ e.subdir = <<>> /\ e.sha = Metadata(n, c, at.world).sha
    BY <1>1, <1>2, <1>4, LockEntryIs
  <2> QED BY <1>3, <1>4, <2>1, <2>3, <2>4
<1>5. CASE c.kind = "git"
  <2>1. Given(c.ref) /\ \E root \in at.project.roots : root.kind = "git" /\ root.at = c.at /\ root.ref = c.ref
    BY <1>1, <1>5 DEF CollectionKnown
  <2>2. e.type = "git" /\ e.ref = c.ref /\ e.commit = c.pin /\ e.subdir = c.subdir /\ e.sha = Unset
    BY <1>1, <1>2, <1>5, <2>1, LockEntryIs DEF Given
  <2> QED BY <1>3, <1>5, <2>1, <2>2
<1>6. CASE c.kind = "url"
  <2>1. \E root \in at.project.roots : root.kind = "url" /\ root.at = c.at
    BY <1>1, <1>6 DEF CollectionKnown
  <2>2. e.type = "url" /\ e.sha = c.pin
    BY <1>1, <1>2, <1>6, LockEntryIs
  <2> QED BY <1>3, <1>6, <2>1, <2>2
<1> QED BY <1>1, <1>4, <1>5, <1>6 DEF Kinds

LEMMA IndexIs ==
  ASSUME NEW m, m = [n \in DOMAIN m |-> m[n]], NEW S, S = {m[n] : n \in DOMAIN m}, \A n \in DOMAIN m : m[n].name = n
  PROVE  Index(S) = m
<1>1. Names(S) = DOMAIN m
  BY DEF Names
<1>2. ASSUME NEW n \in DOMAIN m PROVE (CHOOSE e \in S : e.name = n) = m[n]
  <2>1. m[n] \in S /\ \A e \in S : e.name = n => e = m[n]
    OBVIOUS
  <2> QED BY <2>1
<1> QED BY <1>1, <1>2 DEF Index

LEMMA LockedIndex ==
  ASSUME NEW at \in Moments, NEW f, LockedAs(f, at), NEW cfg
  PROVE  indexLockfile(f, cfg) = Entries(at) /\ Index(f.roles) = RoleEntries(at)
<1>1. f.collections = {Entries(at)[n] : n \in DOMAIN Then(at).collections}
  BY DEF LockedAs, Entries
<1>2. f.roles = {RoleEntries(at)[n] : n \in DOMAIN Then(at).roles}
  BY DEF LockedAs, RoleEntries
<1>3. /\ \A n \in DOMAIN Then(at).collections : Entries(at)[n].name = n /\ Entries(at)[n].source # Unset
      /\ \A n \in DOMAIN Then(at).roles : RoleEntries(at)[n].name = n
  <2>1. \A n \in DOMAIN Then(at).roles : RoleEntries(at)[n].name = n
    BY ResolutionIs, RoleEntryIs DEF RoleEntries
  <2> QED BY <2>1, EntriesAre
<1>4. {IF e.source = Unset /\ e.type = Unset THEN [e EXCEPT !.source = cfg.default] ELSE e : e \in f.collections} = f.collections
  <2>1. \A e \in f.collections : e.source # Unset
    BY <1>1, <1>3
  <2> QED BY <2>1
<1>5. /\ Entries(at) = [n \in DOMAIN Entries(at) |-> Entries(at)[n]] /\ DOMAIN Entries(at) = DOMAIN Then(at).collections
      /\ RoleEntries(at) = [n \in DOMAIN RoleEntries(at) |-> RoleEntries(at)[n]] /\ DOMAIN RoleEntries(at) = DOMAIN Then(at).roles
  BY DEF Entries, RoleEntries
<1>6. Index(f.collections) = Entries(at)
  BY <1>1, <1>3, <1>5, IndexIs
<1>7. Index(f.roles) = RoleEntries(at)
  BY <1>2, <1>3, <1>5, IndexIs
<1> QED BY <1>4, <1>6, <1>7 DEF indexLockfile

\* Asked for what the file was locked for, a frozen run is not refused.
LEMMA RootIsVerified ==
  ASSUME OneRefEach, NEW at \in Moments, NEW f, LockedAs(f, at), NEW root \in at.project.roots
  PROVE  verifyRoot(root, Entries(at)) = {TRUE}
<1> DEFINE idx == Entries(at)
           r == Then(at)
<1>1. RootMet(root, r) /\ root.kind \in Kinds
  BY ResolutionIs, LockfilesAssumption DEF Moments, Kinds
<1>2. DOMAIN idx = DOMAIN r.collections
  BY DEF Entries
<1>3. CASE root.kind = "galaxy"
  <2>1. verifyRoot(root, idx) = verifyGalaxyRoot(root, idx)
    BY <1>3, Zenon DEF verifyRoot
  <2>2. root.name \in DOMAIN r.collections /\ r.collections[root.name].version \in root.admits
    BY <1>1, <1>3 DEF RootMet
  <2>3. idx[root.name].version \in root.admits
    BY <2>2, EntriesAre
  <2> QED BY <1>2, <2>1, <2>2, <2>3 DEF verifyGalaxyRoot
<1>4. CASE root.kind = "git"
  <2> DEFINE from == {n \in DOMAIN idx : lockedFromGitRoot(idx[n], root)}
             drifted == {n \in from : idx[n].ref # root.ref}
             own == from \cap {root.name}
  <2>1. verifyRoot(root, idx) = verifyGitRoot(root, idx)
    BY <1>4, Zenon DEF verifyRoot
  <2>2. PICK n \in DOMAIN r.collections :
          /\ r.collections[n].kind = "git" /\ r.collections[n].at = root.at
          /\ subdirWithin(r.collections[n].subdir, root.subdir)
          /\ root.name \in {Unset, n}
    BY <1>1, <1>4 DEF RootMet
  <2>3. n \in from
    <3>1. idx[n].type = "git" /\ idx[n].source = root.at /\ idx[n].subdir = r.collections[n].subdir
      BY <2>2, EntriesAre
    <3> QED BY <1>2, <2>2, <3>1 DEF lockedFromGitRoot
  <2>4. drifted = {}
    <3> SUFFICES ASSUME NEW d \in from PROVE idx[d].ref = root.ref
      OBVIOUS
    <3>1. d \in DOMAIN r.collections /\ idx[d].type = "git" /\ idx[d].source = root.at
      BY <1>2 DEF lockedFromGitRoot
    <3> DEFINE c == r.collections[d]
    <3>2. /\ idx[d].source = c.at /\ idx[d].ref = c.ref
          /\ \E q \in at.project.roots : q.kind = "git" /\ q.at = c.at /\ q.ref = c.ref
      <4> HIDE DEF idx, from, drifted, own
      <4>1. Unset # "git" /\ "url" # "git"
        BY DEF Unset
      <4>2. idx[d].source = c.at /\ idx[d].type # Unset /\ idx[d].type # "url"
        BY <3>1, <4>1, EntriesAre DEF idx
      <4> QED BY <3>1, <4>2, EntriesAre DEF idx
    <3>3. PICK q \in at.project.roots : q.kind = "git" /\ q.at = c.at /\ q.ref = c.ref
      BY <3>2
    <3>4. q.ref = root.ref
      <4>1. at.project \in Projects /\ q.at = root.at
        BY <3>1, <3>2, <3>3 DEF Moments
      <4> QED BY <1>4, <3>3, <4>1 DEF OneRefEach
    <3> QED BY <3>2, <3>3, <3>4
  <2>5. verifyGitRoot(root, idx) =
          (IF own \ drifted # {} \/ (root.name = Unset /\ from # {} /\ drifted = {}) THEN {TRUE} ELSE {})
          \cup (IF drifted # {} \/ from = {} \/ (root.name # Unset /\ own = {}) THEN {FALSE} ELSE {})
    BY DEF verifyGitRoot
  <2>6. root.name = Unset \/ n \in own
    BY <2>2, <2>3
  <2> HIDE DEF idx, r, from, drifted, own
  <2>7. own \ drifted # {} \/ (root.name = Unset /\ from # {} /\ drifted = {})
    BY <2>3, <2>4, <2>6
  <2>8. ~(drifted # {} \/ from = {} \/ (root.name # Unset /\ own = {}))
    BY <2>3, <2>4, <2>6
  <2>9. verifyGitRoot(root, idx) = {TRUE}
    BY <2>5, <2>7, <2>8
  <2> QED BY <2>1, <2>9 DEF idx
<1>5. CASE root.kind = "url"
  <2>1. verifyRoot(root, idx) = verifyURLRoot(root, idx)
    BY <1>5, Zenon DEF verifyRoot
  <2>2. PICK n \in DOMAIN r.collections :
          /\ r.collections[n].kind = "url" /\ r.collections[n].at = root.at
          /\ root.version \in {Unset, r.collections[n].version}
    BY <1>1, <1>5 DEF RootMet
  <2>3. idx[n].type = "url" /\ idx[n].source = root.at /\ (root.version # Unset => idx[n].version = root.version)
    BY <2>2, EntriesAre
  <2> QED BY <1>2, <2>1, <2>2, <2>3 DEF verifyURLRoot
<1> QED BY <1>1, <1>3, <1>4, <1>5 DEF Kinds

LEMMA RoleRootIsVerified ==
  ASSUME NEW at \in Moments, NEW root \in at.project.roles
  PROVE  verifyRoleRoot(root, RoleEntries(at))
<1> DEFINE e == RoleEntries(at)[root.name]
           c == Then(at).roles[root.name]
<1>1. RoleRootMet(root, Then(at)) /\ root.kind \in Kinds
  BY ResolutionIs, LockfilesAssumption DEF Moments, Kinds
<1>2. root.name \in DOMAIN Then(at).roles /\ root.name \in DOMAIN RoleEntries(at)
  BY <1>1 DEF RoleRootMet, RoleEntries
<1>3. /\ c.kind = root.kind /\ (root.kind = "galaxy" => c.galaxy = root.src) /\ (root.kind # "galaxy" => c.at = root.src)
      /\ (root.kind = "git" => c.ref = root.version) /\ (root.kind # "git" => root.version \in {Unset, c.version})
  BY <1>1 DEF RoleRootMet
<1>4. /\ e.type = c.kind /\ e.version = c.version
      /\ c.kind = "galaxy" => e.galaxy = c.galaxy
      /\ c.kind # "galaxy" => e.source = c.at
      /\ c.kind # "url" => e.ref = c.ref
  <2>1. e = RoleEntry(root.name, c, at.config) /\ c.kind \in Kinds
    BY <1>2, ResolutionIs DEF RoleEntries
  <2> QED BY <2>1, RoleEntryIs
<1>5. CASE root.kind = "galaxy"
  <2>1. e.type = "galaxy" /\ e.galaxy = root.src /\ (root.version # Unset => e.version = root.version)
    BY <1>3, <1>4, <1>5
  <2> QED BY <1>2, <1>5, <2>1, Zenon DEF verifyRoleRoot
<1>6. CASE root.kind = "git"
  <2>1. e.type = "git" /\ e.source = root.src /\ e.ref = root.version
    BY <1>3, <1>4, <1>6
  <2> QED BY <1>2, <1>6, <2>1, Zenon DEF verifyRoleRoot
<1>7. CASE root.kind = "url"
  <2>1. e.type = "url" /\ e.source = root.src /\ (root.version # Unset => e.version = root.version)
    BY <1>3, <1>4, <1>7
  <2> QED BY <1>2, <1>7, <2>1, Zenon DEF verifyRoleRoot
<1> QED BY <1>1, <1>5, <1>6, <1>7 DEF Kinds

\* What a run makes of a file that loads.
Accepts(p, at) ==
  /\ \A root \in p.roots : TRUE \in verifyRoot(root, Entries(at))
  /\ \A root \in p.roles : verifyRoleRoot(root, RoleEntries(at))
Taken(at, verifying) ==
  [verdict |-> "ok", collections |-> materializeLockfile(Entries(at), verifying),
   roles |-> [n \in DOMAIN RoleEntries(at) |-> Role(RoleEntries(at)[n])]]

LEMMA FrozenTakes ==
  ASSUME NEW at \in Moments, NEW files, files # <<>>, LockedAs(files[1], at), Loadable(files[1]),
         NEW p, NEW cfg \in ServerLists, NEW verifying, NEW o \in Frozen(files, p, cfg, verifying)
  PROVE  /\ o.verdict = "ok" => Accepts(p, at) /\ o = Taken(at, verifying)
         /\ OneRefEach /\ p = at.project => o = Taken(at, verifying)
<1> DEFINE refuses == \/ \E root \in p.roots : FALSE \in verifyRoot(root, Entries(at))
                      \/ \E root \in p.roles : ~verifyRoleRoot(root, RoleEntries(at))
           urls == checkLockedDownloadURLs(Entries(at), cfg)
<1>1. indexLockfile(files[1], cfg) = Entries(at) /\ Index(files[1].roles) = RoleEntries(at)
  BY LockedIndex
<1>2. o \in (IF refuses THEN {Refusal("mismatch")} ELSE {})
           \cup (IF Accepts(p, at) /\ ~urls THEN {Refusal("invalid")} ELSE {})
           \cup (IF Accepts(p, at) /\ urls THEN {Taken(at, verifying)} ELSE {})
  BY <1>1 DEF Frozen, Accepts, Taken
<1>3. urls
  <2> SUFFICES ASSUME NEW n \in DOMAIN Entries(at), Entries(at)[n].type = Unset
               PROVE  serverArtifactURL(n, Entries(at)[n].version, lockedServerBase(cfg, Entries(at)[n].source), Entries(at)[n].url)
    BY DEF checkLockedDownloadURLs
  <2>1. n \in DOMAIN Then(at).collections
    BY DEF Entries
  <2> DEFINE c == Then(at).collections[n]
             e == Entries(at)[n]
  <2>2. Unset # "git" /\ Unset # "url"
    BY DEF Unset
  <2>3. e.version = c.version /\ e.source = c.at /\ e.url = <<c.at, n, c.version>> /\ lockedServerBase(cfg, c.at) = c.at
    <3> HIDE DEF e, c
    <3> QED BY <2>1, <2>2, EntriesAre DEF e, c
  <2> QED BY <2>3 DEF serverArtifactURL
<1>4. Refusal("mismatch").verdict = "mismatch" /\ Refusal("invalid").verdict = "invalid"
  BY DEF Refusal
<1>5. OneRefEach /\ p = at.project => ~refuses
  BY RootIsVerified, RoleRootIsVerified
<1> HIDE DEF refuses, urls
<1> QED BY <1>2, <1>3, <1>4, <1>5

\* What it takes is the resolution of that moment.
LEMMA TakenIsHonoured ==
  ASSUME NEW at \in Moments, NEW f, LockedAs(f, at), NEW verifying \in BOOLEAN
  PROVE  Honours(Taken(at, verifying), at, verifying)
<1> DEFINE r == Then(at)
           o == Taken(at, verifying)
           idx == Entries(at)
           roles == RoleEntries(at)
<1>1. /\ o.verdict = "ok" /\ DOMAIN o.collections = DOMAIN r.collections /\ DOMAIN o.roles = DOMAIN r.roles
      /\ DOMAIN idx = DOMAIN r.collections /\ DOMAIN roles = DOMAIN r.roles
      /\ \A n \in DOMAIN r.collections : o.collections[n] = Collection(idx[n], idx, verifying)
      /\ \A n \in DOMAIN r.roles : o.roles[n] = Role(roles[n])
  BY DEF Taken, materializeLockfile, Entries, RoleEntries
<1>2. ASSUME NEW n \in DOMAIN r.collections
      PROVE  LET c == r.collections[n]
                 g == o.collections[n]
                 meta == Metadata(n, c, at.world)
             IN /\ g.kind = c.kind /\ g.version = c.version /\ g.at = c.at
                /\ g.edges = {<<d, r.collections[d].version>> : d \in DOMAIN c.deps}
                /\ c.kind = "galaxy" => g.sha = meta.sha /\ (verifying \/ g.url = <<c.at, n, c.version>>)
                /\ c.kind = "git" => g.commit = c.pin /\ g.subdir = c.subdir /\ g.ref = c.ref /\ g.sha = Unset
                /\ c.kind = "url" => g.sha = c.pin
  <2> DEFINE c == r.collections[n]
             g == o.collections[n]
             e == idx[n]
  <2>1. /\ g.kind = (IF e.type = Unset THEN "galaxy" ELSE e.type) /\ g.version = e.version /\ g.at = e.source
        /\ g.subdir = e.subdir /\ g.ref = e.ref /\ g.commit = e.commit /\ g.sha = e.sha
        /\ g.url = (IF verifying THEN <<>> ELSE e.url)
        /\ g.edges = {<<d, idx[d].version>> : d \in DOMAIN e.deps \cap DOMAIN idx}
    <3>1. g = Collection(e, idx, verifying)
      BY <1>1
    <3> HIDE DEF g, e, idx, c, r, o
    <3> QED BY <3>1 DEF Collection
  <2>2. e.version = c.version /\ e.source = c.at /\ e.deps = c.deps
    BY EntriesAre
  <2>3. \/ /\ c.kind = "galaxy" /\ e.type = Unset /\ e.sha = Metadata(n, c, at.world).sha /\ e.url = <<c.at, n, c.version>>
        \/ c.kind = "git" /\ e.type = "git" /\ e.ref = c.ref /\ e.commit = c.pin /\ e.subdir = c.subdir /\ e.sha = Unset
        \/ c.kind = "url" /\ e.type = "url" /\ e.sha = c.pin
    BY EntriesAre
  <2>4. g.edges = {<<d, r.collections[d].version>> : d \in DOMAIN c.deps}
    <3>1. DOMAIN c.deps \subseteq DOMAIN r.collections
      BY ResolutionIs DEF CollectionKnown
    <3>2. \A d \in DOMAIN r.collections : idx[d].version = r.collections[d].version
      BY EntriesAre
    <3>3. DOMAIN e.deps \cap DOMAIN idx = DOMAIN c.deps
      BY <1>1, <2>2, <3>1
    <3> HIDE DEF e, g, c, idx, r
    <3> QED BY <2>1, <3>1, <3>2, <3>3
  <2>5. Unset # "git" /\ Unset # "url" /\ Unset # "galaxy"
    BY DEF Unset
  <2> HIDE DEF e, g, c, idx, r, o
  <2>6. /\ g.kind = c.kind /\ g.version = c.version /\ g.at = c.at
        /\ c.kind = "galaxy" => g.sha = Metadata(n, c, at.world).sha /\ (verifying \/ g.url = <<c.at, n, c.version>>)
        /\ c.kind = "git" => g.commit = c.pin /\ g.subdir = c.subdir /\ g.ref = c.ref /\ g.sha = Unset
        /\ c.kind = "url" => g.sha = c.pin
    BY <2>1, <2>2, <2>3, <2>5
  <2> QED BY <2>4, <2>6 DEF g, c
<1>3. ASSUME NEW n \in DOMAIN r.roles
      PROVE  LET c == r.roles[n]
                 g == o.roles[n]
             IN /\ g.kind = c.kind /\ g.version = c.version /\ g.at = c.at /\ g.pin = c.pin /\ g.deps = DOMAIN c.deps
                /\ c.kind # "url" => g.ref = c.ref
                /\ c.kind = "galaxy" => g.galaxy = c.galaxy /\ (c.server = Unset \/ g.server = c.server)
  <2> DEFINE c == r.roles[n]
             g == o.roles[n]
             e == roles[n]
  <2>1. /\ g.kind = e.type /\ g.version = e.version /\ g.galaxy = e.galaxy /\ g.ref = e.ref /\ g.deps = DOMAIN e.deps
        /\ g.server = (IF e.type = "galaxy" THEN e.source ELSE Unset)
        /\ g.at = (IF e.type = "galaxy" THEN e.repository ELSE e.source)
        /\ g.pin = (IF e.type = "url" THEN e.sha ELSE e.commit)
    <3>1. g = Role(e)
      BY <1>1
    <3> HIDE DEF g, e, c, o
    <3> QED BY <3>1 DEF Role
  <2>2. e = RoleEntry(n, c, at.config) /\ c.kind \in Kinds
    BY ResolutionIs DEF RoleEntries
  <2>3. /\ e.type = c.kind /\ e.version = c.version /\ e.deps = c.deps
        /\ c.kind = "galaxy" => e.galaxy = c.galaxy /\ e.repository = c.at /\ (c.server = Unset \/ e.source = c.server)
        /\ c.kind # "galaxy" => e.source = c.at
        /\ c.kind = "url" => e.sha = c.pin
        /\ c.kind # "url" => e.ref = c.ref /\ e.commit = c.pin
    BY <2>2, RoleEntryIs
  <2> HIDE DEF e, g, c
  <2>4. /\ g.kind = c.kind /\ g.version = c.version /\ g.at = c.at /\ g.pin = c.pin /\ g.deps = DOMAIN c.deps
        /\ c.kind # "url" => g.ref = c.ref
        /\ c.kind = "galaxy" => g.galaxy = c.galaxy /\ (c.server = Unset \/ g.server = c.server)
    BY <2>1, <2>3
  <2> QED BY <2>4 DEF g, c
<1> HIDE DEF o
<1>4. Honours(o, at, verifying)
  BY <1>1, <1>2, <1>3 DEF Honours, Then
<1> QED BY <1>4 DEF o

-----------------------------------------------------------------------------
\* The inductive invariant

Lasts ==
  /\ project \in Projects /\ config \in ServerLists /\ world \in Worlds
  /\ IsFile(file)
  /\ checked # <<>> =>
       checked[1] \in Moments /\ file # <<>> /\ Loadable(file[1]) /\ LockedAs(file[1], checked[1])
  /\ got # <<>> =>
       got[1].verifying \in BOOLEAN /\ got[1].outcome \in Frozen(file, project, config, got[1].verifying)

LEMMA HereIsMoment ==
  ASSUME Lasts, NEW f \in Built(project, config, world)
  PROVE  /\ Here \in Moments
         /\ Here.project = project /\ Here.config = config /\ Here.world = world
<1>1. ~Unresolvable(project, config, world)
  BY DEF Built
<1> QED BY <1>1 DEF Lasts, Here, Moments

LEMMA BuiltHere ==
  ASSUME Lasts, NEW f \in Built(project, config, world)
  PROVE  HasFields(f) /\ LockedAs(f, Here) /\ Loadable(f)
<1>1. Here \in Moments /\ f \in Built(Here.project, Here.config, Here.world)
  BY HereIsMoment
<1>2. /\ LockedAs(f, Here) /\ f.schema = SchemaVersionFor(f.collections, f.roles)
      /\ f = [schema |-> f.schema, server |-> f.server, collections |-> f.collections, roles |-> f.roles]
  BY <1>1, BuiltIs
<1>3. Loadable(f)
  BY <1>1, <1>2, LockedLoads
<1>4. /\ \A e \in f.collections : Whole(e, comparedFields)
      /\ \A e \in f.roles : Whole(e, comparedRoleFields)
  BY <1>1, <1>2, LockedHas
<1> QED BY <1>2, <1>3, <1>4 DEF HasFields, Whole

LEMMA ComparedHere ==
  ASSUME Lasts, file # <<>>, Loadable(file[1]), NEW f \in Built(project, config, world)
  PROVE  /\ EmptyDiff(Compare(file[1], f)) <=> Content(file[1]) = Content(f)
         /\ Hash(file[1]) = Hash(f) <=> Content(file[1]) = Content(f)
<1>1. HasFields(file[1]) /\ OncePerName(file[1].collections) /\ OncePerName(file[1].roles)
  BY DEF Lasts, IsFile, Loadable
<1>2. HasFields(f) /\ OncePerName(f.collections) /\ OncePerName(f.roles)
  BY BuiltHere DEF Loadable
<1> QED BY <1>1, <1>2, CompareIsContent

LEMMA LastsInit == LockfilesInit => Lasts
BY DEF LockfilesInit, Lasts, IsFile

LEMMA LastsNext == Lasts /\ [LockfilesNext]_lockfilesVars => Lasts'
<1> SUFFICES ASSUME Lasts, [LockfilesNext]_lockfilesVars PROVE Lasts'
  OBVIOUS
<1>1. CASE Lock
  <2>1. PICK f \in Built(project, config, world) : file' = <<f>>
    BY <1>1 DEF Lock
  <2>2. HasFields(f) /\ LockedAs(f, Here) /\ Loadable(f) /\ Here \in Moments
    BY BuiltHere, HereIsMoment
  <2>3. file' # <<>> /\ file'[1] = f /\ checked'[1] = Here
    BY <1>1, <2>1 DEF Lock
  <2> QED BY <1>1, <2>1, <2>2, <2>3 DEF Lock, Lasts, IsFile
<1>2. CASE LockCheck
  <2>1. file # <<>> /\ Loadable(file[1])
    BY <1>2 DEF LockCheck, Passes
  <2>2. PICK f \in Built(project, config, world) : EmptyDiff(Compare(file[1], f))
    BY <1>2 DEF LockCheck, Passes
  <2>3. Content(file[1]) = Content(f) /\ LockedAs(f, Here) /\ Here \in Moments
    BY <2>1, <2>2, ComparedHere, BuiltHere, HereIsMoment
  <2>4. LockedAs(file[1], Here)
    BY <2>3 DEF LockedAs, Content
  <2>5. checked'[1] = Here /\ UNCHANGED <<project, config, world, file, got>>
    BY <1>2 DEF LockCheck
  <2> QED BY <2>1, <2>3, <2>4, <2>5 DEF Lasts
<1>3. CASE InstallFrozen
  <2>1. PICK verifying \in BOOLEAN : \E o \in Frozen(file, project, config, verifying) :
          got' = <<[outcome |-> o, verifying |-> verifying]>>
    BY <1>3 DEF InstallFrozen
  <2>2. PICK o \in Frozen(file, project, config, verifying) : got' = <<[outcome |-> o, verifying |-> verifying]>>
    BY <2>1
  <2>3. got'[1].outcome = o /\ got'[1].verifying = verifying
    BY <2>2
  <2> QED BY <1>3, <2>1, <2>2, <2>3 DEF InstallFrozen, Lasts
<1>4. CASE EditFile
  BY <1>4 DEF EditFile, Lasts
<1>5. CASE ChangeProject
  BY <1>5 DEF ChangeProject, Lasts
<1>6. CASE ChangeConfig
  BY <1>6 DEF ChangeConfig, Lasts
<1>7. CASE ChangeWorld
  BY <1>7 DEF ChangeWorld, Lasts
<1>8. CASE UNCHANGED lockfilesVars
  BY <1>8 DEF lockfilesVars, Lasts
<1> QED BY <1>1, <1>2, <1>3, <1>4, <1>5, <1>6, <1>7, <1>8 DEF LockfilesNext

LEMMA LastsAlways == LockfilesSpec => []Lasts
BY LastsInit, LastsNext, PTL DEF LockfilesSpec

\* lock --check passes exactly the files that lock would write as they are: for
\* a file that loads, the comparison finds no difference iff the hash over
\* the canonical bytes is that of a fresh lock (compare.go, Compare).
THEOREM ChecksWhatLockWrites == LockfilesSpec => []CompareIsHash
<1>1. Lasts => CompareIsHash
  BY ComparedHere DEF CompareIsHash
<1> QED BY <1>1, LastsAlways, PTL

\* What a run takes is taken from the file as it was when it was last checked.
LEMMA TakenHere ==
  ASSUME Lasts, checked # <<>>, got # <<>>
  PROVE  LET at == checked[1]
             o == got[1].outcome
             verifying == got[1].verifying
         IN /\ at \in Moments /\ LockedAs(file[1], at) /\ verifying \in BOOLEAN
            /\ o.verdict = "ok" => Accepts(project, at) /\ o = Taken(at, verifying)
            /\ OneRefEach /\ project = at.project => o = Taken(at, verifying)
<1>1. /\ checked[1] \in Moments /\ file # <<>> /\ Loadable(file[1]) /\ LockedAs(file[1], checked[1])
      /\ config \in ServerLists /\ got[1].verifying \in BOOLEAN
      /\ got[1].outcome \in Frozen(file, project, config, got[1].verifying)
  BY DEF Lasts
<1> DEFINE at == checked[1]
           o == got[1].outcome
           verifying == got[1].verifying
<1>2. /\ at \in Moments /\ file # <<>> /\ Loadable(file[1]) /\ LockedAs(file[1], at)
      /\ config \in ServerLists /\ verifying \in BOOLEAN /\ o \in Frozen(file, project, config, verifying)
  BY <1>1
<1> HIDE DEF at, o, verifying
<1>3. o.verdict = "ok" => Accepts(project, at) /\ o = Taken(at, verifying)
  BY <1>2, FrozenTakes
<1>4. OneRefEach /\ project = at.project => o = Taken(at, verifying)
  BY <1>2, FrozenTakes
<1> QED BY <1>2, <1>3, <1>4 DEF at, o, verifying

\* A frozen run over a file that lock wrote or that passed lock --check, and
\* over the same requirements, is not refused and installs the very resolution
\* of that moment, whatever was published or configured since.
THEOREM LockedIsInstalled == OneRefEach /\ LockfilesSpec => []CheckedIsHonoured
<1>1. OneRefEach /\ Lasts => CheckedIsHonoured
  BY TakenHere, TakenIsHonoured DEF CheckedIsHonoured
<1> DEFINE I == OneRefEach /\ Lasts
<1>2. I => CheckedIsHonoured
  BY <1>1
<1>3. OneRefEach /\ LockfilesInit => I
  BY LastsInit
<1>4. I /\ [LockfilesNext]_lockfilesVars => I'
  BY LastsNext
<1> HIDE DEF I
<1> QED BY <1>2, <1>3, <1>4, PTL DEF LockfilesSpec

LEMMA AskIsKept ==
  ASSUME NEW p \in Projects, NEW at \in Moments, NEW f, LockedAs(f, at), Accepts(p, at), NEW verifying,
         NEW cols, cols = Taken(at, verifying).collections, NEW root \in p.roots
  PROVE  CASE root.kind = "git" -> \E q \in at.project.roots : q.kind = "git" /\ q.at = root.at /\ q.ref = root.ref
           [] root.kind = "url" ->
                /\ \E q \in at.project.roots : q.kind = "url" /\ q.at = root.at
                /\ root.version # Unset => \E n \in DOMAIN cols : cols[n].at = root.at /\ cols[n].version = root.version
           [] root.kind = "galaxy" -> cols[root.name].version \in root.admits
<1> DEFINE idx == Entries(at)
           r == Then(at)
<1>1. TRUE \in verifyRoot(root, idx) /\ root.kind \in Kinds
  BY LockfilesAssumption DEF Accepts, Kinds
<1>2. /\ DOMAIN idx = DOMAIN r.collections /\ DOMAIN cols = DOMAIN idx
      /\ \A n \in DOMAIN cols : cols[n].at = idx[n].source /\ cols[n].version = idx[n].version
  BY DEF Taken, materializeLockfile, Collection, Entries
<1>3. Unset # "git" /\ Unset # "url"
  BY DEF Unset
<1>4. ASSUME root.kind = "git" PROVE \E q \in at.project.roots : q.kind = "git" /\ q.at = root.at /\ q.ref = root.ref
  <2>1. TRUE \in verifyGitRoot(root, idx)
    BY <1>1, <1>4, Zenon DEF verifyRoot
  <2>2. \E n \in DOMAIN idx : idx[n].type = "git" /\ idx[n].source = root.at /\ idx[n].ref = root.ref
    BY <2>1 DEF verifyGitRoot, lockedFromGitRoot
  <2>3. PICK n \in DOMAIN r.collections : idx[n].type = "git" /\ idx[n].source = root.at /\ idx[n].ref = root.ref
    BY <1>2, <2>2
  <2> HIDE DEF idx
  <2> QED BY <1>3, <2>3, EntriesAre DEF idx
<1>5. ASSUME root.kind = "url"
      PROVE  /\ \E q \in at.project.roots : q.kind = "url" /\ q.at = root.at
             /\ root.version # Unset => \E n \in DOMAIN cols : cols[n].at = root.at /\ cols[n].version = root.version
  <2>1. TRUE \in verifyURLRoot(root, idx)
    BY <1>1, <1>5, Zenon DEF verifyRoot
  <2>2. PICK n \in DOMAIN r.collections :
          idx[n].type = "url" /\ idx[n].source = root.at /\ (root.version # Unset => idx[n].version = root.version)
    BY <1>2, <2>1 DEF verifyURLRoot
  <2> HIDE DEF idx
  <2>3. \E q \in at.project.roots : q.kind = "url" /\ q.at = root.at
    BY <1>3, <2>2, EntriesAre DEF idx
  <2> QED BY <1>2, <2>2, <2>3
<1>6. ASSUME root.kind = "galaxy" PROVE cols[root.name].version \in root.admits
  <2>1. TRUE \in verifyGalaxyRoot(root, idx)
    BY <1>1, <1>6, Zenon DEF verifyRoot
  <2> QED BY <1>2, <2>1 DEF verifyGalaxyRoot
<1> HIDE DEF idx, r
<1>7. CASE root.kind = "git"
  BY <1>4, <1>7, Zenon
<1>8. CASE root.kind = "url"
  BY <1>5, <1>8, Zenon
<1>9. CASE root.kind = "galaxy"
  BY <1>6, <1>9, Zenon
<1> QED BY <1>1, <1>7, <1>8, <1>9 DEF Kinds

LEMMA RoleAskIsKept ==
  ASSUME NEW p \in Projects, NEW at \in Moments, Accepts(p, at), NEW root \in p.roles, root.kind = "git"
  PROVE  LET was == Then(at).roles IN
         /\ root.name \in DOMAIN was /\ was[root.name].kind = "git"
         /\ was[root.name].at = root.src /\ was[root.name].ref = root.version
<1> DEFINE e == RoleEntries(at)[root.name]
           c == Then(at).roles[root.name]
<1>1. verifyRoleRoot(root, RoleEntries(at))
  BY DEF Accepts
<1>2. root.name \in DOMAIN RoleEntries(at)
  BY <1>1 DEF verifyRoleRoot
<1>3. e.type = "git" /\ e.source = root.src /\ e.ref = root.version
  BY <1>1, Zenon DEF verifyRoleRoot
<1>4. root.name \in DOMAIN Then(at).roles /\ e = RoleEntry(root.name, c, at.config)
  BY <1>2 DEF RoleEntries
<1>5. c.kind \in Kinds
  BY <1>4, ResolutionIs
<1> HIDE DEF e, c
<1>6. c.kind = "git" /\ c.at = root.src /\ c.ref = root.version
  BY <1>3, <1>4, <1>5, RoleEntryIs
<1> QED BY <1>4, <1>6 DEF c

\* A frozen run that is not refused was asked for what the file was locked
\* for: the lock run had a root of the same repository and ref, or of the same
\* url, and installed are versions that the run asks for.
THEOREM AskedIsLocked == LockfilesSpec => []FrozenKeepsTheAsk
<1>1. ASSUME Lasts PROVE FrozenKeepsTheAsk
  <2> SUFFICES ASSUME checked # <<>>, got # <<>>, got[1].outcome.verdict = "ok"
               PROVE  FrozenKeepsTheAsk
    BY DEF FrozenKeepsTheAsk
  <2> DEFINE at == checked[1]
             cols == got[1].outcome.collections
  <2>1. at \in Moments /\ LockedAs(file[1], at) /\ Accepts(project, at) /\ cols = Taken(at, got[1].verifying).collections
    BY <1>1, TakenHere
  <2>2. project \in Projects
    BY <1>1 DEF Lasts
  <2> HIDE DEF at, cols
  <2>3. \A r \in project.roots :
          CASE r.kind = "git" -> \E q \in at.project.roots : q.kind = "git" /\ q.at = r.at /\ q.ref = r.ref
            [] r.kind = "url" -> /\ \E q \in at.project.roots : q.kind = "url" /\ q.at = r.at
                                 /\ r.version # Unset => \E n \in DOMAIN cols : cols[n].at = r.at /\ cols[n].version = r.version
            [] r.kind = "galaxy" -> cols[r.name].version \in r.admits
    BY <2>1, <2>2, AskIsKept
  <2>4. \A r \in project.roles : r.kind = "git" =>
          /\ r.name \in DOMAIN Then(at).roles /\ Then(at).roles[r.name].kind = "git"
          /\ Then(at).roles[r.name].at = r.src /\ Then(at).roles[r.name].ref = r.version
    BY <2>1, <2>2, RoleAskIsKept
  <2> QED BY <2>3, <2>4, Zenon DEF FrozenKeepsTheAsk, Then, at, cols
<1> QED BY <1>1, LastsAlways, PTL
=============================================================================
