----------------------------- MODULE Resolution -----------------------------
(***************************************************************************)
(* The resolution front end, run after run: internal/galaxy/collections    *)
(* resolve.go, provider.go, solve.go, metadata.go, server_candidates.go,   *)
(* and internal/galaxy/cache policy.go and api_cache.go.  A run replays    *)
(* the saved resolution, or keeps what its unchanged requirements need and *)
(* solves the rest, or solves everything; the solver's questions are put   *)
(* to a list of servers through the metadata caches.                       *)
(*                                                                         *)
(* The solver is what Solver shows it to be: it asks in any order and ends *)
(* with a selection over the answers, or fails where there is none.        *)
(***************************************************************************)
EXTENDS Naturals, Sequences, FiniteSets

CONSTANTS
  Collections, Versions,
  Servers,
  Needs,         \* Needs[s][c][v]: what version v of c on server s depends on
  FirstServed,   \* what the servers publish at first
  Requirements,  \* the requirements files a run may be given
  Configs,       \* the server lists and flags a run may be given
  MaxRuns,       \* bound: how many runs there are
  MaxChanges,    \* bound: how often a server publishes or the caches age
  None

ASSUME ConstantsAssumption ==
  /\ None \notin Servers /\ None \notin Versions
  /\ None \notin [version : Versions, source : Servers]
  /\ FirstServed \in [Servers -> [Collections -> SUBSET Versions]]
  /\ Needs \in [Servers -> [Collections -> [Versions -> [Collections -> (SUBSET Versions) \cup {None}]]]]
  /\ \A s \in Servers, c \in Collections, v \in Versions : Needs[s][c][v][c] = None
  /\ \A r \in Requirements : r \in [Collections -> [want : SUBSET Versions, source : Servers \cup {None}] \cup {None}]
  /\ \A g \in Configs :
       /\ g \in [list : Seq(Servers), mode : SUBSET {"refresh", "no-cache", "offline", "no-deps"}]
       /\ g.list # <<>>

VARIABLES
  serves,   \* serves[s][c]: the versions server s publishes
  disk,     \* the snapshot as last saved
  st,       \* the run's copy of it
  run,      \* the run's flags, requirements and stage
  asked,    \* what this solve was answered
  result,   \* the run's resolution
  runs, changes

vars == <<serves, disk, st, run, asked, result, runs, changes>>

-----------------------------------------------------------------------------
\* A requirement per collection, None for one that is not required.
Required(spec) == {c \in Collections : spec[c] # None}
NoSpec == [c \in Collections |-> None]
NoAnswers == [versions |-> [c \in Collections |-> None],   \* Highest and Universe
              bound |-> [c \in Collections |-> None],      \* bindings
              deps |-> {}]                                 \* Dependencies: [c, v, from]
NoResult == [resolved |-> NoSpec, graph |-> [c \in Collections |-> {}]]
Empty == [root |-> [s \in Servers |-> [c \in Collections |-> None]],   \* root documents
          doc |-> {},                                                 \* version documents
          deps |-> {},                              \* the deps cache: [base, c, v, from]
          saved |-> NoResult, spec |-> NoSpec, hash |-> None]
Idle == [pc |-> "idle", mode |-> {}, list |-> <<>>, spec |-> NoSpec, roots |-> {}, how |-> None]

Has(flag) == flag \in run.mode
Working == run.pc \in {"prewarm", "solve"}
Partial == run.roots # Required(run.spec)

\* PolicyForConstraint.
Policy(exact) ==
  [read  |-> Has("offline") \/ (~Has("no-cache") /\ (exact \/ ~Has("refresh"))),
   write |-> ~Has("offline") /\ ~Has("no-cache"),
   ttl   |-> ~Has("offline") /\ ~Has("no-cache") /\ ~exact]

\* Mutant: --refresh replays.
VetoedByNoCache == Has("no-cache") /\ ~Has("offline")

\* snapshotReuseVetoed.
Vetoed == (Has("refresh") \/ Has("no-cache")) /\ ~Has("offline")

-----------------------------------------------------------------------------
\* Asking the servers

\* A dependency inherits no source, and an unchanged root is none of a
\* partial solve's roots.
SourceOf(c) == IF c \in run.roots THEN run.spec[c].source ELSE None
serverCandidates(c) == IF SourceOf(c) # None THEN <<SourceOf(c)>> ELSE run.list

\* tryServeFromCache: whether the cached document stands without a request.
Served(s, c, exact) ==
  /\ Policy(exact).read
  /\ st.root[s][c] # None
  /\ Policy(exact).ttl => st.root[s][c].fresh

\* fetchJSONBody: offline no request is answered.
Fails(s, down) == Has("offline") \/ s \in down

\* Mutant: a server that cannot answer is passed over.
NotFoundOrDown(s, c, exact, down) ==
  ~Served(s, c, exact) /\ ~Has("offline") /\ (s \in down \/ serves[s][c] = {})

\* tryServerRootMetadata: only a 404 passes on to the next server.
NotFound(s, c, exact, down) == ~Served(s, c, exact) /\ ~Fails(s, down) /\ serves[s][c] = {}

\* loadRootMetadataCached: the first candidate that does not answer 404.  Its
\* failure is the walk's.
Walk(c, exact, down) ==
  LET list == serverCandidates(c)
      Left == {i \in DOMAIN list : ~NotFound(list[i], c, exact, down)}
  IN IF Left = {} THEN [answer |-> "unknown", base |-> None]
     ELSE LET s == list[CHOOSE i \in Left : \A j \in Left : i <= j]
          IN [base |-> s,
              answer |-> CASE Served(s, c, exact) -> "cached"
                           [] ~Served(s, c, exact) /\ Fails(s, down) -> "failed"
                           [] OTHER -> "fetched"]

\* The snapshot after a walk: what was fetched is cached.
Kept(snapshot, walk, c, exact) ==
  IF walk.answer = "fetched" /\ Policy(exact).write
  THEN [snapshot EXCEPT !.root[walk.base][c] = [versions |-> serves[walk.base][c], fresh |-> TRUE]]
  ELSE snapshot

Told(walk, c) ==
  CASE walk.answer = "cached" -> st.root[walk.base][c].versions
    [] walk.answer = "fetched" -> serves[walk.base][c]
    [] OTHER -> {}

\* Mutant: the deps cache is scoped to the first server of the list.
firstBaseFor(c, down) == [base |-> serverCandidates(c)[1], kept |-> st, failed |-> FALSE]

\* boundBaseFor: the server that c's dependencies are filed under.
boundBaseFor(c, down) ==
  LET list == serverCandidates(c)
      walk == Walk(c, TRUE, down)
  IN IF Len(list) = 1 THEN [base |-> list[1], kept |-> st, failed |-> FALSE]
     ELSE IF asked.bound[c] # None THEN [base |-> asked.bound[c], kept |-> st, failed |-> FALSE]
     ELSE [base |-> walk.base, kept |-> Kept(st, walk, c, TRUE), failed |-> walk.answer \in {"unknown", "failed"}]

\* fetchVersionMetadataCached: whether server s's document of c@v is to be had.
Document(s, c, v, down) ==
  \/ Policy(TRUE).read /\ [s |-> s, c |-> c, v |-> v] \in st.doc
  \/ ~Fails(s, down) /\ v \in serves[s][c]

\* Dependencies: from the deps cache of the bound server, else from the
\* document of the server that a second walk ends at.
Dependencies(c, v, down) ==
  LET at == boundBaseFor(c, down)
      known == {d \in at.kept.deps : d.base = at.base /\ d.c = c /\ d.v = v}
      cached == Policy(TRUE).read /\ known # {}
      walk == Walk(c, TRUE, down)
      s == walk.base
      kept == Kept(at.kept, walk, c, TRUE)
  IN IF cached THEN [failed |-> at.failed, base |-> at.base, from |-> (CHOOSE d \in known : TRUE).from, kept |-> at.kept]
     ELSE IF at.failed \/ walk.answer \in {"unknown", "failed"} \/ ~Document(s, c, v, down)
          THEN [failed |-> TRUE, base |-> None, from |-> None, kept |-> at.kept]
     ELSE [failed |-> FALSE, base |-> s, from |-> s,
           kept |-> IF Policy(TRUE).write
                    THEN [kept EXCEPT !.doc = @ \cup {[s |-> s, c |-> c, v |-> v]},
                                      !.deps = @ \cup {[base |-> at.base, c |-> c, v |-> v, from |-> s]}]
                    ELSE kept]

-----------------------------------------------------------------------------
\* What the solver may ask and conclude

Reached == run.roots \cup {c \in Collections : \E d \in asked.deps : Needs[d.from][d.c][d.v][c] # None}
Wants(c) == ({Needs[d.from][d.c][d.v][c] : d \in asked.deps} \ {None})
            \cup (IF c \in run.roots THEN {run.spec[c].want} ELSE {})
\* packageIsExactPin: decided without asking what is published.
Exact(c) == {v \in Versions : {v} \in Wants(c)}
Offered(c) == Exact(c) \cup (IF asked.versions[c] = None THEN {} ELSE asked.versions[c])
Learnt(c, v) == \E d \in asked.deps : d.c = c /\ d.v = v
NeedsOf(c, v) == IF Has("no-deps") THEN NoSpec
                 ELSE LET d == CHOOSE d \in asked.deps : d.c = c /\ d.v = v IN Needs[d.from][c][v]

Selections ==
  {sel \in [Collections -> Versions \cup {None}] :
     LET chosen == {c \in Collections : sel[c] # None} IN
     /\ run.roots \subseteq chosen
     /\ \A c \in chosen : sel[c] \in Offered(c) /\ (Has("no-deps") \/ Learnt(c, sel[c]))
     /\ \A c \in run.roots : sel[c] \in run.spec[c].want
     /\ \A c \in chosen, e \in Collections :
          NeedsOf(c, sel[c])[e] # None => e \in chosen /\ sel[e] \in NeedsOf(c, sel[c])[e]
     /\ \A e \in chosen \ run.roots : \E c \in chosen : NeedsOf(c, sel[c])[e] # None}

\* sourceFor: the binding, else the source, else the first server.
sourceFor(c) ==
  CASE asked.bound[c] # None -> asked.bound[c]
    [] asked.bound[c] = None /\ SourceOf(c) # None -> SourceOf(c)
    [] OTHER -> run.list[1]

Resolved(sel) ==
  [resolved |-> [c \in Collections |-> IF sel[c] = None THEN None ELSE [version |-> sel[c], source |-> sourceFor(c)]],
   graph |-> [c \in Collections |-> IF sel[c] = None THEN {}
                                    ELSE {e \in Collections : NeedsOf(c, sel[c])[e] # None}]]

-----------------------------------------------------------------------------
\* Replaying and merging

\* Mutant: the signature leaves the mode out.
SignatureOfSpec(spec) == [spec |-> spec, noDeps |-> FALSE, list |-> run.list]

\* requirementsSignatureFromSpec: the requirements, the mode and the servers.
Signature(spec) == [spec |-> spec, noDeps |-> Has("no-deps"), list |-> run.list]

In(r) == {c \in Collections : r.resolved[c] # None}

Replayable ==
  /\ st.hash = Signature(run.spec)
  /\ In(st.saved) # {}
  /\ \A c \in Required(run.spec) : c \in In(st.saved) /\ st.saved.resolved[c].version \in run.spec[c].want

\* splitRootsByChange.
Unchanged == {c \in Required(run.spec) : run.spec[c] = st.spec[c]}
Changed == Required(run.spec) \ Unchanged

Incremental ==
  /\ Required(st.spec) # {}
  /\ st.hash = Signature(st.spec)
  /\ Unchanged # {} /\ Changed # {}
  /\ Unchanged \subseteq In(st.saved)

\* collectGraphKeysFromKeys and buildPreservedSnapshot.
Closed(S) == \A c \in S : st.saved.graph[c] \subseteq S
Closure(from) == {c \in Collections : \A S \in SUBSET Collections : from \subseteq S /\ Closed(S) => c \in S}
Preserved == LET S == Closure(Unchanged) IN
  [resolved |-> [c \in Collections |-> IF c \in S THEN st.saved.resolved[c] ELSE None],
   graph |-> [c \in Collections |-> IF c \in S THEN st.saved.graph[c] ELSE {}]]

\* mergeResolvedGraphs: both parts are closed, so that the expansion finds
\* every node there.  What both resolved is taken from the new one.
Mergeable(new) ==
  \A c \in In(Preserved) \cap In(new) :
    /\ Preserved.resolved[c].version = new.resolved[c].version
    /\ Preserved.graph[c] = new.graph[c]
Merged(new) ==
  [resolved |-> [c \in Collections |-> IF c \in In(new) THEN new.resolved[c] ELSE Preserved.resolved[c]],
   graph |-> [c \in Collections |-> IF c \in In(new) THEN new.graph[c] ELSE Preserved.graph[c]]]

-----------------------------------------------------------------------------
\* Between runs

Publish(s, c, v) ==
  /\ run.pc = "idle" /\ changes < MaxChanges /\ runs < MaxRuns
  /\ v \notin serves[s][c]
  /\ serves' = [serves EXCEPT ![s][c] = @ \cup {v}]
  /\ changes' = changes + 1
  /\ UNCHANGED <<disk, st, run, asked, result, runs>>

\* CacheLatestMetadataTTL passes.
Age ==
  /\ run.pc = "idle" /\ changes < MaxChanges /\ runs < MaxRuns
  /\ \E s \in Servers, c \in Collections : disk.root[s][c] # None /\ disk.root[s][c].fresh
  /\ LET old == [s \in Servers |-> [c \in Collections |->
                   IF disk.root[s][c] = None THEN None ELSE [disk.root[s][c] EXCEPT !.fresh = FALSE]]]
     IN disk' = [disk EXCEPT !.root = old] /\ st' = [st EXCEPT !.root = old]
  /\ changes' = changes + 1
  /\ UNCHANGED <<serves, run, asked, result, runs>>

\* The run ends: with its snapshot saved, or failed with nothing saved.
Over == run' = Idle /\ asked' = NoAnswers /\ result' = NoResult /\ UNCHANGED <<serves, runs, changes>>
Fail == st' = disk /\ UNCHANGED disk /\ Over

-----------------------------------------------------------------------------
\* A run

Begin(spec, config) ==
  /\ run.pc = "idle" /\ runs < MaxRuns
  /\ run' = [Idle EXCEPT !.pc = "choose", !.mode = config.mode, !.list = config.list, !.spec = spec, !.roots = Required(spec)]
  /\ runs' = runs + 1
  /\ UNCHANGED <<serves, disk, st, asked, result, changes>>

\* resolveFromSnapshots.
Replay ==
  /\ run.pc = "choose" /\ ~Vetoed /\ Replayable
  /\ result' = st.saved
  /\ run' = [run EXCEPT !.pc = "done", !.how = "replayed"]
  /\ UNCHANGED <<serves, disk, st, asked, runs, changes>>

\* tryIncrementalResolve: only the changed roots are solved at first.
Choose ==
  /\ run.pc = "choose" /\ (Vetoed \/ ~Replayable)
  /\ run' = [run EXCEPT !.pc = "prewarm", !.roots = IF ~Vetoed /\ Incremental THEN Changed ELSE Required(run.spec)]
  /\ UNCHANGED <<serves, disk, st, asked, result, runs, changes>>

\* prewarmOne: some of two or more roots are asked for, through bindings of
\* its own, as far as the policy both reads and writes.
Prewarm(c, down) ==
  /\ run.pc = "prewarm"
  /\ Cardinality(run.roots) >= 2 /\ c \in run.roots
  /\ LET exact == Exact(c) # {}
         v == CHOOSE v \in Versions : v \in Exact(c)
     IN /\ Policy(exact).read /\ Policy(exact).write
        /\ exact => ~Has("no-deps")
        /\ st' = IF exact THEN Dependencies(c, v, down).kept ELSE Kept(st, Walk(c, FALSE, down), c, FALSE)
        /\ st' # st
  /\ UNCHANGED <<serves, disk, run, asked, result, runs, changes>>

Prewarmed ==
  /\ run.pc = "prewarm"
  /\ run' = [run EXCEPT !.pc = "solve"]
  /\ UNCHANGED <<serves, disk, st, asked, result, runs, changes>>

\* Highest and Universe, through resolveRoot.
Ask(c, down) ==
  /\ run.pc = "solve"
  /\ c \in Reached /\ asked.versions[c] = None
  /\ LET walk == Walk(c, FALSE, down) IN
     \/ walk.answer = "failed" /\ Fail
     \/ /\ walk.answer # "failed"
        /\ st' = Kept(st, walk, c, FALSE)
        /\ asked' = [asked EXCEPT !.versions[c] = Told(walk, c),
                                  !.bound[c] = IF walk.base = None THEN @ ELSE walk.base]
        /\ UNCHANGED <<serves, disk, run, result, runs, changes>>

Learn(c, v, down) ==
  /\ run.pc = "solve" /\ ~Has("no-deps")
  /\ c \in Reached /\ v \in Offered(c) /\ ~Learnt(c, v)
  /\ \A want \in Wants(c) : v \in want
  /\ LET d == Dependencies(c, v, down) IN
     \/ d.failed /\ Fail
     \/ /\ ~d.failed
        /\ st' = d.kept
        /\ asked' = [asked EXCEPT !.bound[c] = d.base, !.deps = @ \cup {[c |-> c, v |-> v, from |-> d.from]}]
        /\ UNCHANGED <<serves, disk, run, result, runs, changes>>

\* recordResolution.
Recorded(r) == [st EXCEPT !.saved = r, !.spec = run.spec, !.hash = Signature(run.spec)]
Finish(r, how) ==
  /\ result' = r
  /\ st' = Recorded(r)
  /\ run' = [run EXCEPT !.pc = "done", !.how = how]
  /\ UNCHANGED <<serves, disk, asked, runs, changes>>

Solve ==
  /\ run.pc = "solve"
  /\ \E sel \in Selections :
       LET new == Resolved(sel) IN
       \/ ~Partial /\ Finish(new, "solved")
       \/ Partial /\ Mergeable(new) /\ Finish(Merged(new), "merged")
       \/ /\ Partial /\ ~Mergeable(new)   \* everything is solved after all
          /\ run' = [run EXCEPT !.pc = "prewarm", !.roots = Required(run.spec)]
          /\ asked' = NoAnswers
          /\ UNCHANGED <<serves, disk, st, result, runs, changes>>

\* The solver knows all it can ask for and there is no selection.
Conflict ==
  /\ run.pc = "solve"
  /\ \A c \in Reached : asked.versions[c] # None
  /\ \A c \in Reached, v \in Versions :
       v \in Offered(c) /\ (\A want \in Wants(c) : v \in want) => Has("no-deps") \/ Learnt(c, v)
  /\ Selections = {}
  /\ Fail

\* The install is done and the snapshot saved, or the run fails after all.
Save == run.pc = "done" /\ disk' = st /\ UNCHANGED st /\ Over
Abandon == run.pc = "done" /\ Fail

Init ==
  /\ serves = FirstServed
  /\ disk = Empty /\ st = Empty
  /\ run = Idle /\ asked = NoAnswers /\ result = NoResult
  /\ runs = 0 /\ changes = 0

Next ==
  \/ \E s \in Servers, c \in Collections, v \in Versions : Publish(s, c, v)
  \/ Age
  \/ \E spec \in Requirements, config \in Configs : Begin(spec, config)
  \/ Replay \/ Choose \/ Prewarmed
  \/ \E c \in Collections, down \in {{}} \cup {{s} : s \in Servers} :   \* who fails to answer
       \/ Prewarm(c, down) \/ Ask(c, down)
       \/ \E v \in Versions : Learn(c, v, down)
  \/ Solve \/ Conflict \/ Save \/ Abandon

Spec == Init /\ [][Next]_vars

-----------------------------------------------------------------------------
\* Properties

\* What a run is about to install meets its requirements, whichever way it
\* was found: every root in range, every dependency that a chosen version
\* declares on the server it comes from present and in range, and nothing
\* else (resolve.go, resolveCollectionsInternal; solve.go, solveCollections).
PlanMeetsRequirements ==
  run.pc = "done" =>
    LET At(c) == result.resolved[c]
        Deps(c) == IF Has("no-deps") THEN NoSpec ELSE Needs[At(c).source][c][At(c).version]
    IN /\ \A c \in Required(run.spec) : c \in In(result) /\ At(c).version \in run.spec[c].want
       /\ \A c \in In(result) :
            /\ result.graph[c] = {e \in Collections : Deps(c)[e] # None}
            /\ \A e \in result.graph[c] : e \in In(result) /\ At(e).version \in Deps(c)[e]
       /\ \A e \in In(result) \ Required(run.spec) : \E c \in In(result) : e \in result.graph[c]

\* A solved collection comes from the server its source names, else from the
\* earliest in the list that has it: no failing, cached or offline server
\* changes whose it is (metadata.go, loadRootMetadataCached).
AnsweredByItsServer ==
  run.pc = "done" /\ run.how = "solved" =>
    \A c \in In(result) :
      LET s == result.resolved[c].source IN
      CASE SourceOf(c) # None -> s = SourceOf(c)
        [] SourceOf(c) = None /\ asked.bound[c] # None ->
             \E i \in DOMAIN run.list :
               /\ run.list[i] = s /\ serves[s][c] # {}
               /\ \A j \in 1 .. (i - 1) : serves[run.list[j]][c] = {}
        [] OTHER -> Has("no-deps") /\ Exact(c) # {}

\* Dependencies are filed under the server whose document declares them, so
\* that no later run reads another's (helpers/cachekeys.go, ScopedDepsCacheKey).
DepsAreTheServersOwn == \A d \in st.deps : d.from = d.base

\* A refreshed run, and one without a cache, resolves from what the servers
\* publish now (resolve.go, snapshotReuseVetoed; cache/policy.go).
RefreshSeesTheCurrent ==
  run.pc = "done" /\ (Has("refresh") \/ Has("no-cache")) /\ ~Has("offline") =>
    \A c \in In(result) :
      \/ asked.versions[c] = serves[result.resolved[c].source][c]
      \/ asked.versions[c] = None /\ result.resolved[c].version \in Exact(c)
=============================================================================
