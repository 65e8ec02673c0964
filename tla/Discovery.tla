----------------------------- MODULE Discovery -----------------------------
(***************************************************************************)
(* What a requirement that names no server version resolves to, run after  *)
(* run: git and url collections (git_discovery.go, url_discovery.go,       *)
(* git_fetch.go) and roles of every kind (role_resolve.go, role_galaxy.go, *)
(* role_url.go, role_install.go, galaxyv1), over the pins the snapshot     *)
(* keeps and the artifacts the cache keeps.  The requests of one level are *)
(* resolved concurrently, upstream may move at any moment, and a run may   *)
(* be killed at any moment.                                                *)
(*                                                                         *)
(* A commit of a repository and the bytes a url serves are alike a number; *)
(* what a source holds at that number is given.  A ref is <<kind, name>>,  *)
(* of kind "name" as written, "commit", "tags" or "heads".                 *)
(***************************************************************************)
EXTENDS Naturals, FiniteSets, Sequences, SequencesExt

CONSTANTS
  Heads,      \* <<source, ref name>> pairs upstream serves
  FirstTip,   \* what each serves at first
  Moving,     \* those that move
  MaxTip,     \* bound: how far
  HoldsOf,    \* the collections at <<source, number>>
  BuiltAs,    \* the version of a url's collection, by number
  DepsOf,     \* the role dependencies at <<source, number>>, in order
  Servers,    \* the configured servers in order: name |-> [v1 : "none", "absent" or "role", repo, branch]
  TagLists,   \* the lists of tags a Galaxy role's server may come to serve
  Loose,      \* the LooseVersion components of a tag
  MaxRoles,   \* helpers.RoleGraphMaxRoles
  Files,      \* requirements files: [git, url, roles], sequences of requests
  Modes,      \* "plain", "refresh", "nocache", "offline"
  AnyName,    \* the name of a collection root that names none
  MaxRuns,    \* bound: runs per behaviour
  MaxEvents   \* bound: of upstream and between runs

VARIABLES
  tip,    \* what upstream serves now
  tags,   \* index into TagLists: the tags listed now
  saved,  \* pins of the persisted snapshot
  pins,   \* pins of the run's snapshot in memory
  arts,   \* artifacts in the cache
  disk,   \* what is installed, by name
  run,    \* [phase, mode, file]
  level,  \* the requests being resolved
  work,   \* where each of them is
  found,  \* what resolved so far
  todo,   \* what of it is still to install
  built,  \* names whose --no-cache build waits in a memo
  spent,  \* [runs, events] so far
  last    \* history: what each request meant in the last saved run that had it

upstream == <<tip, tags>>
discoveryVars == <<tip, tags, saved, pins, arts, disk, run, level, work, found, todo, built, spent, last>>

None == [src |-> "none"]
Foreign == [src |-> "foreign"]
NoRun == [phase |-> "idle", mode |-> "plain", file |-> [git |-> <<>>, url |-> <<>>, roles |-> <<>>]]
Put(f, k, v) == [x \in DOMAIN f \cup {k} |-> IF x = k THEN v ELSE f[x]]
Empty == [x \in {} |-> 0]
-----------------------------------------------------------------------------
(* galaxyv1: which ref of which repository a Galaxy role means.            *)

\* [less, ok]: ok is FALSE when a number meets text.
LooseLess(a, b) ==
  LET x == Loose[a]  y == Loose[b]
      both == 1 .. (IF Len(x) < Len(y) THEN Len(x) ELSE Len(y))
      first == {i \in both : x[i] # y[i] /\ \A j \in 1 .. i - 1 : x[j] = y[j]}
  IN  IF first = {} THEN [less |-> Len(x) < Len(y), ok |-> TRUE]
      ELSE LET i == CHOOSE i \in first : TRUE
           IN  [less |-> x[i].n < y[i].n, ok |-> x[i].num = y[i].num]

\* The fold over the list as the server gave it; "?" when two cannot be compared.
\* Names that compare equal component by component do not occur in one list here.
highest(list) ==
  FoldLeft(LAMBDA best, v :
             IF best = "?" \/ ~LooseLess(best, v).ok THEN "?"
             ELSE IF LooseLess(best, v).less THEN v ELSE best,
           Head(list), Tail(list))

\* The version chosen, "?" when refused.
Select(list, requested, branch) ==
  LET main == IF branch = "" THEN "master" ELSE branch
  IN  IF requested = "" THEN (IF list = <<>> THEN main ELSE highest(list))
      ELSE IF \/ requested \in ToSet(list) \cup {main, "master"}
              \/ list = <<>>
           THEN requested ELSE "?"

qualifiedRef(list, version) ==
  <<IF version \in ToSet(list) THEN "tags" ELSE "heads", version>>

\* The first server, in order, that has a v1 API and the role.
Candidates(name) == {i \in DOMAIN Servers : Servers[i][name].v1 = "role"}
lookupGalaxyRole(list, name, requested) ==
  IF Candidates(name) = {} THEN None
  ELSE LET i == CHOOSE i \in Candidates(name) : \A j \in Candidates(name) : i <= j
           version == Select(list, requested, Servers[i][name].branch)
       IN  IF version = "?" THEN None
           ELSE [src |-> Servers[i][name].repo, ref |-> qualifiedRef(list, version)]
-----------------------------------------------------------------------------
(* Requests, pins and artifacts.                                           *)

IsRole(r) == r.what = "role"

\* The source a request names, before any lookup.
Asked(r) == [src |-> r.src, ref |-> IF r.kind = "git" THEN r.ver ELSE <<"name", "">>]

\* What the source serves for the ref now.
Serves(g) == IF g.ref[1] = "commit" THEN g.ref[2] ELSE tip[<<g.src, g.ref[2]>>]

\* gitsource.PinKey and its url counterparts.  A role's install name is no part of it.
PinKey(r, g) == <<r.what, g.src, g.ref>>
galaxyRolePinKey(r) == <<"galaxy", r.src, <<"name", r.ver>>>>

\* The version a role installs as: the ref's short name, or a url role's
\* label, or the number itself.
LabelAt(r, g, c) ==
  IF r.kind = "url" THEN (IF r.ver = "" THEN <<"number", c>> ELSE <<"name", r.ver>>)
  ELSE IF g.ref[1] = "commit" THEN <<"number", c>> ELSE <<"name", g.ref[2]>>

Artifact(name, g, c, label) == [name |-> name, src |-> g.src, c |-> c, label |-> label]
ArtifactsAt(r, g, c) ==
  IF IsRole(r) THEN {Artifact(r.name, g, c, LabelAt(r, g, c))}
  ELSE {Artifact(n, g, c, <<"name", "">>) : n \in HoldsOf[<<g.src, c>>]}

\* The collections of the source the root asks for; none when the name it
\* gives is not there or the version it asserts is not the one built.
selectExplicit(r, c) ==
  {n \in HoldsOf[<<r.src, c>>] : r.kind = "url" => r.ver \in {"", BuiltAs[<<r.src, c>>]}}
    \cap {n \in HoldsOf[<<r.src, c>>] : r.name \in {AnyName, n}}
Names(r, c) == IF IsRole(r) THEN {r.name} ELSE selectExplicit(r, c)

\* cache.PolicyForConstraint.
Reads(exact) == run.mode = "offline" \/ run.mode = "plain" \/ (run.mode = "refresh" /\ exact)
Writes == run.mode \in {"plain", "refresh"}
Exact(g) == g.ref[1] = "commit"
-----------------------------------------------------------------------------
(* One request, on the download-worker pool.                               *)

\* What goes wrong or changes outside is bounded.
Event == spent.events < MaxEvents /\ spent' = [spent EXCEPT !.events = @ + 1]

At(i, where) == run.phase \in {"git", "url", "roles"} /\ i \in DOMAIN work /\ work[i].at = where
Move(i, where, g, c) == work' = [work EXCEPT ![i] = [at |-> where, g |-> g, c |-> c]]
NoEvent == UNCHANGED spent
Stay(i, where) == Move(i, where, work[i].g, work[i].c)

\* A Galaxy pin is written once the git path answered.
WithGalaxyPin(r, g, c, p) ==
  IF r.kind = "galaxy" /\ Writes THEN Put(p, galaxyRolePinKey(r), [c |-> c, g |-> g, label |-> <<>>]) ELSE p

\* resolveGalaxyRole up to the git path: the recorded pin, else the v1 API.
resolveGalaxyRole(i) ==
  LET r == level[i]
      k == galaxyRolePinKey(r)
      answer == lookupGalaxyRole(TagLists[tags], r.src, r.ver)
  IN  /\ At(i, "map")
      /\ IF Reads(r.ver # "") /\ run.mode # "refresh" /\ k \in DOMAIN pins
         THEN Move(i, "look", pins[k].g, 0) /\ NoEvent
         ELSE IF run.mode = "offline" \/ answer = None THEN Stay(i, "failed") /\ NoEvent
         ELSE \/ Move(i, "look", answer, 0) /\ NoEvent
              \/ Stay(i, "failed") /\ Event
      /\ UNCHANGED <<upstream, saved, pins, arts, disk, run, level, found, todo, built, last>>

\* The artifacts a pin stands for are all in the cache (gitArtifactsCached).
ArtifactsCached(r, g, c) == ArtifactsAt(r, g, c) \subseteq arts

\* A pin replayed: its selection goes to the memo, and the Galaxy pin over it
\* is written again.
Replay(i, c) ==
  LET r == level[i]
      g == work[i].g
  IN  /\ Move(i, IF Names(r, c) = {} THEN "failed" ELSE "done", g, c)
      /\ pins' = WithGalaxyPin(r, g, c, pins)

\* No pin to replay: refused under --offline, else the remote is asked.
\* --refresh first asks a branch or tag where it stands.
Miss(i) ==
  LET r == level[i]
      g == work[i].g
      k == PinKey(r, g)
  IN  IF run.mode = "offline" THEN Stay(i, "failed") /\ pins' = pins
      ELSE IF run.mode = "refresh" /\ k \in DOMAIN pins /\ ~Exact(g) /\ r.kind # "url"
      THEN IF Serves(g) = pins[k].c /\ ArtifactsCached(r, g, pins[k].c)
           THEN Replay(i, pins[k].c)
           ELSE Move(i, "fetch", g, Serves(g)) /\ pins' = pins
      ELSE Move(i, "fetch", g, 0) /\ pins' = pins

Recorded(i) == PinKey(level[i], work[i].g) \in DOMAIN pins
Pin(i) == pins[PinKey(level[i], work[i].g)]

\* Mutant: a collection's pin is replayed only while its artifacts are stored.
CollectionPinCached(i, exact) ==
  Reads(exact) /\ Recorded(i) /\ ArtifactsCached(level[i], work[i].g, Pin(i).c)

\* A collection's pin is replayed whatever the cache holds,
CollectionPinHeld(i, exact) == Reads(exact) /\ Recorded(i)

\* a role's only under the version asked for and while its artifact is stored.
replayRolePin(i) ==
  LET r == level[i]
      g == work[i].g
  IN  /\ Recorded(i)
      /\ Pin(i).label = LabelAt(r, g, Pin(i).c)
      /\ ArtifactsCached(r, g, Pin(i).c)

Looking(i, what, url) ==
  At(i, "look") /\ level[i].what = what /\ (level[i].kind = "url") = url
Looked == UNCHANGED <<upstream, saved, arts, disk, run, level, found, todo, built, last, spent>>

expandGitRoot(i) ==
  /\ Looking(i, "collection", FALSE)
  /\ IF CollectionPinHeld(i, Exact(work[i].g)) THEN Replay(i, Pin(i).c) ELSE Miss(i)
  /\ Looked

expandURLRoot(i) ==
  /\ Looking(i, "collection", TRUE)
  /\ IF CollectionPinHeld(i, FALSE) THEN Replay(i, Pin(i).c) ELSE Miss(i)
  /\ Looked

\* An scm role and, past the v1 lookup, a Galaxy role.
resolveGitRole(i) ==
  /\ Looking(i, "role", FALSE)
  /\ IF Reads(Exact(work[i].g)) /\ replayRolePin(i) THEN Replay(i, Pin(i).c) ELSE Miss(i)
  /\ Looked

resolveURLRole(i) ==
  /\ Looking(i, "role", TRUE)
  /\ IF Reads(FALSE) /\ replayRolePin(i) THEN Replay(i, Pin(i).c) ELSE Miss(i)
  /\ Looked

\* The remote is read now; the commit an advertisement named is fetched exactly.
Fetch(i) ==
  LET w == work[i]
  IN  /\ \/ Move(i, "store", w.g, IF w.c = 0 THEN Serves(w.g) ELSE w.c) /\ NoEvent
         \/ Stay(i, "failed") /\ Event
      /\ UNCHANGED <<upstream, saved, pins, arts, disk, run, level, found, todo, built, last>>
FetchGit(i) == At(i, "fetch") /\ level[i].kind # "url" /\ Fetch(i)
downloadURLToTemp(i) == At(i, "fetch") /\ level[i].kind = "url" /\ Fetch(i)

\* What was built is committed, or kept for the install under --no-cache,
StoreArtifacts(i) ==
  LET r == level[i]
      w == work[i]
  IN  IF run.mode = "nocache"
      THEN built' = built \cup Names(r, w.c) /\ arts' = arts
      ELSE arts' = arts \cup ArtifactsAt(r, w.g, w.c) /\ built' = built

\* and then the pin is recorded.
RecordPin(i) ==
  LET r == level[i]
      w == work[i]
  IN  pins' = IF Writes
              THEN WithGalaxyPin(r, w.g, w.c,
                     Put(pins, PinKey(r, w.g), [c |-> w.c, g |-> w.g, label |-> LabelAt(r, w.g, w.c)]))
              ELSE pins

Storing(i, what, url) ==
  At(i, "store") /\ level[i].what = what /\ (level[i].kind = "url") = url
Stored == UNCHANGED <<upstream, saved, disk, run, level, found, todo, last, spent>>

\* A repository's collections are all stored before the one named is looked for;
acquireGitRoot(i) ==
  /\ Storing(i, "collection", FALSE)
  /\ StoreArtifacts(i) /\ RecordPin(i)
  /\ Stay(i, IF Names(level[i], work[i].c) = {} THEN "failed" ELSE "done")
  /\ Stored

\* a tarball of another version than the root asserts is not stored.
acquireURLRoot(i) ==
  /\ Storing(i, "collection", TRUE)
  /\ IF Names(level[i], work[i].c) = {}
     THEN Stay(i, "failed") /\ UNCHANGED <<arts, built, pins>>
     ELSE Stay(i, "done") /\ StoreArtifacts(i) /\ RecordPin(i)
  /\ Stored

acquireRole(i) ==
  Storing(i, "role", FALSE) /\ StoreArtifacts(i) /\ RecordPin(i) /\ Stay(i, "done") /\ Stored

acquireURLRole(i) ==
  Storing(i, "role", TRUE) /\ StoreArtifacts(i) /\ RecordPin(i) /\ Stay(i, "done") /\ Stored
-----------------------------------------------------------------------------
(* A run.                                                                  *)

Begin(requests) ==
  /\ level' = requests
  /\ work' = [i \in DOMAIN requests |->
                [at |-> IF requests[i].kind = "galaxy" THEN "map" ELSE "look",
                 g |-> Asked(requests[i]), c |-> 0]]

StartRun(mode, file) ==
  /\ run.phase = "idle" /\ spent.runs < MaxRuns
  /\ spent' = [spent EXCEPT !.runs = @ + 1]
  /\ run' = [phase |-> "git", mode |-> mode, file |-> file]
  /\ Begin(file.git)
  /\ UNCHANGED <<upstream, saved, pins, arts, disk, found, todo, built, last>>

\* dedupeRoleLevel: a name already taken, or earlier in the level, wins.  The
\* level comes as the lists it is made of; what is left is the one sequence in
\* their order.
Before(p, q) == p[1] < q[1] \/ (p[1] = q[1] /\ p[2] < q[2])
dedupeRoleLevel(taken, lists) ==
  LET places == UNION {{i} \X DOMAIN lists[i] : i \in DOMAIN lists}
      at(p) == lists[p[1]][p[2]]
      kept == {p \in places : /\ at(p).name \notin taken
                              /\ \A q \in places : Before(q, p) => at(q).name # at(p).name}
  IN  {[n \in DOMAIN order |-> at(order[n])] :
         order \in {o \in [1 .. Cardinality(kept) -> kept] : \A m, n \in DOMAIN o : m < n => Before(o[m], o[n])}}

Resolved(i) ==
  {[name |-> n, req |-> level[i], g |-> work[i].g, c |-> work[i].c] : n \in Names(level[i], work[i].c)}
AllResolved == UNION {Resolved(i) : i \in {i \in DOMAIN work : work[i].at = "done"}}
RolesIn(s) == {f \in s : IsRole(f.req)}
Merged(s) == {f \in found : ~IsRole(f.req) \/ \A x \in s : x.name # f.name} \cup s
checkExpandedDuplicates(s) == \E a, b \in s : a # b /\ a.name = b.name
Following(lists) == dedupeRoleLevel({f.name : f \in RolesIn(Merged(AllResolved))}, lists)

\* The workers are all awaited; the results merge in input order.
Awaited == /\ run.phase \in {"git", "url", "roles"}
           /\ \A i \in DOMAIN work : work[i].at \in {"done", "failed"}
Refused == \/ \E i \in DOMAIN work : work[i].at = "failed"
           \/ run.phase = "url" /\ checkExpandedDuplicates(Merged(AllResolved))
           \/ run.phase = "roles" /\ Cardinality(RolesIn(Merged(AllResolved))) > MaxRoles

Merge ==
  LET deps == [i \in DOMAIN level |-> DepsOf[<<work[i].g.src, work[i].c>>]]
      Proceed(phase, requests) == run' = [run EXCEPT !.phase = phase] /\ Begin(requests)
  IN  /\ Awaited /\ ~Refused
      /\ found' = Merged(AllResolved)
      /\ \/ run.phase = "git" /\ Proceed("url", run.file.url)
         \/ /\ run.phase # "git"
            /\ \E following \in Following(IF run.phase = "roles" THEN deps ELSE <<run.file.roles>>) :
                 Proceed(IF following = <<>> THEN "install" ELSE "roles", following)
      /\ todo' = IF run'.phase = "install" THEN found' ELSE {}
      /\ UNCHANGED <<upstream, saved, pins, arts, disk, built, last, spent>>

\* Mutant: a run that fails saves what it pinned.
SavedByFailure == pins

\* A refused resolution, an interrupt or a crash: nothing is saved; the
\* artifacts committed so far stay.
KeptByFailure == saved
Abandon ==
  /\ run' = NoRun /\ pins' = KeptByFailure /\ saved' = KeptByFailure /\ built' = {} /\ found' = {} /\ todo' = {} /\ Begin(<<>>)
  /\ UNCHANGED <<upstream, arts, disk, last>>
Refuse == Awaited /\ Refused /\ Abandon /\ NoEvent
Crash == run.phase # "idle" /\ Abandon /\ Event

\* The install of what resolved, without its steps on disk.
LabelOf(f) == IF IsRole(f.req) THEN LabelAt(f.req, f.g, f.c) ELSE <<"name", "">>
roleArtifactKey(f) == Artifact(f.name, f.g, f.c, LabelOf(f))

\* Mutant: whatever the ref or url serves now is taken.
RefetchedUnchecked(f) == {Serves(f.g)}

\* On a miss a commit is asked for by name; a url must serve the bytes pinned.
Refetched(f) == IF f.req.kind = "url" /\ Serves(f.g) # f.c THEN {} ELSE {f.c}

Unpack(f, c) == disk' = [disk EXCEPT ![f.name] = [roleArtifactKey(f) EXCEPT !.c = c]]

\* The --no-cache build, else the cached artifact, else what the pin names.
fetchRoleArtifact(f) ==
  LET cached == roleArtifactKey(f) \in arts /\ run.mode # "nocache"
  IN  IF f.name \in built \/ cached
      THEN Unpack(f, f.c) /\ built' = built \ {f.name} /\ arts' = arts /\ NoEvent
      ELSE IF run.mode = "offline" \/ Refetched(f) = {}
      THEN UNCHANGED <<disk, arts, built, spent>>
      ELSE /\ \/ /\ \E c \in Refetched(f) : Unpack(f, c)
                 /\ arts' = IF run.mode = "nocache" THEN arts ELSE arts \cup {roleArtifactKey(f)}
                 /\ NoEvent
              \/ UNCHANGED <<disk, arts>> /\ Event
           /\ built' = built

Installing(f) == /\ run.phase = "install" /\ f \in todo
                 /\ todo' = todo \ {f}
                 /\ UNCHANGED <<upstream, saved, pins, run, level, work, found, last>>

\* A role already there under its locator and version is skipped; a directory
\* neither this tool nor ansible-galaxy wrote is refused.
installRole(f) ==
  /\ IsRole(f.req) /\ Installing(f)
  /\ IF disk[f.name] \in {roleArtifactKey(f), Foreign}
     THEN UNCHANGED <<disk, arts, built, spent>> ELSE fetchRoleArtifact(f)

InstallCollection(f) ==
  /\ ~IsRole(f.req) /\ Installing(f)
  /\ IF disk[f.name] = roleArtifactKey(f)
     THEN UNCHANGED <<disk, arts, built, spent>> ELSE fetchRoleArtifact(f)

\* The run saves its snapshot whether or not every install succeeded.
\* A refreshed pin
\* is what every request that shares it means from then on.
Meant ==
  LET asked == {f.req : f \in found}
      moved == {PinKey(f.req, f.g) : f \in found}
      kept == {r \in DOMAIN last \ asked : run.mode = "refresh" => last[r].key \notin moved}
      of(r) == CHOOSE f \in found : f.req = r
  IN  [r \in kept \cup asked |->
         IF r \in asked THEN [c |-> of(r).c, g |-> of(r).g, key |-> PinKey(r, of(r).g)] ELSE last[r]]

Finish ==
  /\ run.phase = "install" /\ todo = {}
  /\ run' = NoRun /\ saved' = pins /\ built' = {} /\ found' = {}
  /\ last' = IF Writes THEN Meant ELSE last
  /\ UNCHANGED <<upstream, pins, arts, disk, level, work, todo, spent>>
-----------------------------------------------------------------------------
(* Between runs, and upstream.                                             *)

MoveHead(h) ==
  /\ Event
  /\ h \in Moving /\ tip[h] < MaxTip
  /\ tip' = [tip EXCEPT ![h] = @ + 1]
  /\ UNCHANGED <<tags, saved, pins, arts, disk, run, level, work, found, todo, built, last>>
Publish ==
  /\ Event
  /\ tags < Len(TagLists)
  /\ tags' = tags + 1
  /\ UNCHANGED <<tip, saved, pins, arts, disk, run, level, work, found, todo, built, last>>

\* cleanup, or an eviction, takes an artifact: replayRolePin then goes by the
\* pins of its roles no more, and so neither does the history.
Purge(a) ==
  /\ Event
  /\ run.phase = "idle" /\ a \in arts
  /\ arts' = arts \ {a}
  /\ last' = [r \in {r \in DOMAIN last : IsRole(r) => a \notin ArtifactsAt(r, last[r].g, last[r].c)} |-> last[r]]
  /\ UNCHANGED <<upstream, saved, pins, disk, run, level, work, found, todo, built>>

\* --clear-cache.
Clear ==
  /\ Event
  /\ run.phase = "idle"
  /\ saved' = Empty /\ pins' = Empty /\ arts' = {} /\ last' = Empty
  /\ UNCHANGED <<upstream, disk, run, level, work, found, todo, built>>

\* Somebody writes a role of their own where nothing was installed.
Handwritten(n) ==
  /\ Event
  /\ run.phase = "idle" /\ disk[n] = None
  /\ disk' = [disk EXCEPT ![n] = Foreign]
  /\ UNCHANGED <<upstream, saved, pins, arts, run, level, work, found, todo, built, last>>
-----------------------------------------------------------------------------
CONSTANTS
  InstallNames,  \* of roles and collections
  Handmade       \* those a user may write by hand

DiscoveryInit ==
  /\ tip = FirstTip /\ tags = 1
  /\ saved = Empty /\ pins = Empty /\ arts = {} /\ last = Empty
  /\ disk = [n \in InstallNames |-> None]
  /\ run = NoRun /\ level = <<>> /\ work = <<>> /\ found = {} /\ todo = {} /\ built = {}
  /\ spent = [runs |-> 0, events |-> 0]

DiscoveryNext ==
  \/ \E i \in DOMAIN work :
       \/ resolveGalaxyRole(i) \/ resolveGitRole(i) \/ resolveURLRole(i)
       \/ expandGitRoot(i) \/ expandURLRoot(i)
       \/ FetchGit(i) \/ downloadURLToTemp(i)
       \/ acquireGitRoot(i) \/ acquireURLRoot(i) \/ acquireRole(i) \/ acquireURLRole(i)
  \/ Merge \/ Refuse \/ Finish
  \/ \E f \in todo : installRole(f) \/ InstallCollection(f)
  \/ Crash
  \/ \E mode \in Modes, file \in Files : StartRun(mode, file)
  \/ \E h \in Moving : MoveHead(h)
  \/ Publish
  \/ \E a \in arts : Purge(a)
  \/ Clear
  \/ \E n \in Handmade : Handwritten(n)

DiscoverySpec == DiscoveryInit /\ [][DiscoveryNext]_discoveryVars
-----------------------------------------------------------------------------
(* What requests may mean, and what they are to be apart in.               *)

RoleRequests == (UNION {ToSet(f.roles) : f \in Files}) \cup (UNION {ToSet(DepsOf[k]) : k \in DOMAIN DepsOf})
Roots == UNION {ToSet(f.git) \cup ToSet(f.url) : f \in Files}
Requests == RoleRequests \cup Roots

\* The refs a request may mean: its own, or what the v1 API answers over time;
Meanings(r) ==
  IF r.kind = "galaxy"
  THEN {lookupGalaxyRole(TagLists[t], r.src, r.ver) : t \in DOMAIN TagLists} \ {None} ELSE {Asked(r)}

\* the numbers a ref may stand for, of which one that does not move has one.
Fixed(g) == g.ref[1] = "commit" \/ <<g.src, g.ref[2]>> \notin Moving
Tips(h) == {FirstTip[h]} \cup (IF h \in Moving THEN FirstTip[h] .. MaxTip ELSE {})
Numbers(g) == IF g.ref[1] = "commit" THEN {g.ref[2]} ELSE Tips(<<g.src, g.ref[2]>>)

\* Roots are collections, from git or a url as they are listed, and every ref
\* asked for, or answered by the v1 API, is served upstream.
ASSUME DiscoveryAssumption ==
  /\ MaxTip \in Nat /\ FirstTip \in [Heads -> Nat] /\ Moving \subseteq Heads
  /\ DOMAIN TagLists = 1 .. Len(TagLists) /\ Len(TagLists) \in Nat \ {0}
  /\ Modes \subseteq {"plain", "refresh", "nocache", "offline"}
  /\ \A f \in Files :
       /\ \A i \in DOMAIN f.git : f.git[i].what = "collection" /\ f.git[i].kind = "git"
       /\ \A i \in DOMAIN f.url : f.url[i].what = "collection" /\ f.url[i].kind = "url"
  /\ \A r \in RoleRequests : IsRole(r)
  /\ \A r \in Requests : \A g \in Meanings(r) :
       /\ g.ref[1] # "commit" => <<g.src, g.ref[2]>> \in Heads
       /\ \A c \in Numbers(g) : <<g.src, c>> \in DOMAIN DepsOf

\* Two requests that may come to share a pin share one that does not move.
Apart(q, r) == \A g \in Meanings(q) \cap Meanings(r) : Fixed(g)

\* The roots of one file are apart, and so are the roles there are, which if
\* they share a pin also install as the same version.
PinsApart ==
  /\ \A f \in Files :
       /\ \A i, j \in DOMAIN f.git : i # j => Apart(f.git[i], f.git[j])
       /\ \A i, j \in DOMAIN f.url : i # j => Apart(f.url[i], f.url[j])
       /\ \A i \in DOMAIN f.git, j \in DOMAIN f.url : Apart(f.git[i], f.url[j])
  /\ \A q, r \in RoleRequests : q # r =>
       /\ Apart(q, r)
       /\ Meanings(q) \cap Meanings(r) # {} =>
            (q.kind = "url") = (r.kind = "url") /\ (q.kind = "url" => q.ver = r.ver)
       /\ q.kind = "galaxy" /\ r.kind = "galaxy" => <<q.src, q.ver>> # <<r.src, r.ver>>
-----------------------------------------------------------------------------
(* Without --refresh, --clear-cache or a role artifact taken away, a       *)
(* request means what it meant in the last run that saved it, however      *)
(* upstream moved and whatever other files and failed runs did.            *)
PinHolds ==
  run.mode \in {"plain", "offline"} =>
    \A f \in found : f.req \in DOMAIN last => f.c = last[f.req].c /\ f.g = last[f.req].g

(* --offline refuses only what no saved run resolved, or a role whose      *)
(* artifact is gone.                                                       *)
OfflineRepeats ==
  run.mode = "offline" =>
    \A i \in DOMAIN work : work[i].at = "failed" =>
      LET r == level[i]
      IN  r \in DOMAIN last => IsRole(r) /\ ~(ArtifactsAt(r, last[r].g, last[r].c) \subseteq arts)

(* What an install puts on disk is what its dependencies were read from:   *)
(* the number resolved, not what the ref serves by then.                   *)
InstalledIsRead ==
  [][\A n \in InstallNames : disk'[n] # disk[n] /\ run.phase = "install" =>
       \E f \in found : f.name = n /\ disk'[n] = roleArtifactKey(f)]_discoveryVars
=============================================================================
