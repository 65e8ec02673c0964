------------------------------ MODULE Registry ------------------------------
(***************************************************************************)
(* What successive commands over one cache do to the projects that share   *)
(* it: internal/galaxy/store (the snapshot and the project registry),      *)
(* internal/galaxy/cleanup (what nobody reaches is removed) and the parts  *)
(* of install, warm and lock that write either.  Commands are serialized   *)
(* by the cache lock; each may be killed between any two of its writes.    *)
(*                                                                         *)
(* A collection is an element of Collections, standing for one             *)
(* namespace.name@version and its content; a role is an element of Roles,  *)
(* one install name at one version.  Where the code treats the two alike   *)
(* they are the Items.  What a version constraint admits is a set of       *)
(* items.  The snapshot records a collection by name and version, a role   *)
(* by its name alone, and cleanup judges each as it is recorded.           *)
(***************************************************************************)
EXTENDS Naturals, FiniteSets

CONSTANTS
  Projects,     \* directories holding a requirements file
  Collections,  \* namespace.name@version
  Roles,        \* install name and version
  Slot,         \* the directory of an item under an install path: name without version
  Source,       \* the git repository or url of a collection, or Galaxy
  Galaxy,
  Edges,        \* the items that satisfy a dependency that an item's own metadata names
  Workspaces,   \* install paths (collections path and roles path)
  Homes,        \* which install path each project has
  Files,        \* what a requirements file may hold
  Kinds,        \* the commands considered beside cleanup
  Retention,    \* helpers.WarmedEntryMaxAge
  MaxCommands,  \* bound: commands per behaviour
  MaxEvents     \* bound: edits, moves, upgrades and expiries per behaviour

Items == Collections \cup Roles

\* Whatever the code knows by the same key: a role goes by its name alone.
Kin(i) == IF i \in Roles THEN {j \in Roles : Slot[j] = Slot[i]} ELSE {i}
Named(S) == UNION {Kin(j) : j \in S}

\* A root admits a set of items; a git or url root admits all of its source.
\* A file's state: "ok", "missing", "unreadable", or "roles" when its roles:
\* list is refused while its collections: list reads.
File == [state : {"ok", "missing", "unreadable", "roles"},
         roots : SUBSET [source : {Galaxy} \cup {Source[c] : c \in Collections},
                         admits : SUBSET Items]]

Never == Retention + 2           \* not warmed
Ages == 0 .. (Retention + 2)     \* Retention + 1 is any age past the window

ASSUME RegistryAssumption ==
  /\ Collections \cap Roles = {}
  /\ Retention \in Nat /\ MaxCommands \in Nat /\ MaxEvents \in Nat
  /\ Edges \in [Items -> SUBSET Items]
  /\ Homes \subseteq [Projects -> Workspaces]
  /\ Kinds \subseteq {"install", "warm", "lock"}
  /\ Files \subseteq File
  /\ \A i \in Roles : Source[i] = Galaxy /\ Edges[i] \subseteq Roles
  /\ \A i \in Collections : Edges[i] \subseteq Collections
  /\ \A f \in Files : \A r \in f.roots :   \* a root is of one list of its file
       IF r.source = Galaxy THEN r.admits \subseteq Collections \/ r.admits \subseteq Roles
                            ELSE r.admits \subseteq {c \in Collections : Source[c] = r.source}

VARIABLES
  home,       \* the install path of each project, fixed
  file,       \* requirements files, by project
  recorded,   \* projects.json: "no", "old" (no roles path) or "full", by project
  present,    \* install paths that exist on this machine
  tree,       \* items installed, by install path
  extracted,  \* trees in the extracted store
  disk,       \* the persisted snapshot
  pc,         \* what the running command does next; "idle" when none runs
  mem,        \* the running command's store
  job,        \* the running command: its kind, project, and what is left to do
  count,      \* commands and events so far
  saved       \* history: what saves promised since records were last dropped

vars == <<home, file, recorded, present, tree, extracted, disk, pc, mem, job, count, saved>>
world == <<home, file, recorded, present>>

\* What was installed and where.
Entry == [item : Items, at : Workspaces]

Snapshot == [persisted : BOOLEAN, content : BOOLEAN, installed : SUBSET Entry,
             warmed : [Items -> Ages], pins : SUBSET Collections]

Recorded(s) == {e.item : e \in s.installed}

\* SetInstalled, SetInstalledRole: an entry replaces that of its key.
Put(entries, new) ==
  {e \in entries : \A f \in new : e.item \notin Kin(f.item)} \cup new

\* store.New
New == [persisted |-> FALSE, content |-> FALSE, installed |-> {},
        warmed |-> [i \in Items |-> Never], pins |-> {}]

\* Mutant: an entry of exactly the window's age is stale.
FreshStrict(s) == {i \in Items : s.warmed[i] < Retention}

Fresh(s) == {i \in Items : s.warmed[i] <= Retention}

\* stampSaveMeta over snapshotData: content counts before eviction.
Persisted(s) ==
  [s EXCEPT !.persisted = TRUE,
            !.content = @ \/ s.installed # {} \/ \E i \in Items : s.warmed[i] # Never,
            !.warmed = [i \in Items |-> IF i \in Fresh(s) THEN @[i] ELSE Never]]

NoJob == [kind |-> "none", of |-> {}, todo |-> {}, removed |-> {}]

Idle == pc = "idle" /\ count.commands < MaxCommands
Quiet == pc = "idle" /\ count.events < MaxEvents

-----------------------------------------------------------------------------
\* Reachability (cleanup/reachable.go)

Registered == {p \in Projects : recorded[p] # "no"}

\* openProjectWorkspace: a missing path is an empty workspace.
Opened(p) == IF home[p] \in present THEN tree[home[p]] ELSE {}

\* The roles of a project are scanned only if its record names their path.
ScannedRoles(p) == IF recorded[p] = "full" THEN Opened(p) \cap Roles ELSE {}

\* The items of an install path that the scan indexes for a project.
Scanned(p) == (Opened(p) \cap Collections) \cup ScannedRoles(p)

Index == UNION {Scanned(p) : p \in Registered}

\* Where scans found copies of an item.
Places(i) == {home[p] : p \in {q \in Registered : i \in Scanned(q)}}

\* recordsByInstallPath: what the record for the directory of role i at w says is there.
OnRecord(i, w, s) == {e.item : e \in {e \in s.installed : e.at = w /\ e.item \in Kin(i)}}

\* Mutant: reachability rests on the snapshot alone.
DepsRecorded(i, w, s) == IF i \in Roles THEN UNION {Edges[j] : j \in OnRecord(i, w, s)} ELSE Edges[i]

\* scannedRole: of a role the record's dependencies, though the tree may have been
\* replaced since; its own metadata speaks only where no record does.
Deps(i, w, s) ==
  IF i \in Roles /\ OnRecord(i, w, s) # {} THEN UNION {Edges[j] : j \in OnRecord(i, w, s)}
  ELSE Edges[i]

\* What keeping an item keeps: whatever goes by its name, or by the name of a
\* dependency of any copy.
Follow(i, s) == Named({i} \cup UNION {Deps(i, w, s) : w \in Places(i)})

\* selectInstalled; roleRootNames, whatever version the root asks for.
Matching(root, index) == Named(root.admits) \cap index

\* gitRootKeys, urlRootKeys.
RootItems(root, index, s) ==
  LET ofSource == {c \in root.admits \cap Collections : Source[c] = root.source} IN
  IF root.source = Galaxy THEN Matching(root, index)
  ELSE IF s.pins \cap ofSource # {} THEN s.pins \cap ofSource \cap index
  ELSE ofSource \cap index \cap Recorded(s)

\* projectRequirementRoots, keepProjectRoles.
Roots(p, index, s) ==
  LET unread == file[p].state = "roles" IN
  (IF file[p].state = "missing" THEN {}
   ELSE UNION {RootItems(r, index, s) :
                 r \in {r \in file[p].roots : ~unread \/ r.admits \cap Roles = {}}})
  \cup (IF unread THEN ScannedRoles(p) ELSE {})

\* markReachable, markReachableRoles: the least set that holds the roots and,
\* within the domain of next, what next says of its members.
Closure(roots, next) ==
  {i \in DOMAIN next : \A S \in SUBSET DOMAIN next :
     (roots \subseteq S /\ \A j \in S : next[j] \cap DOMAIN next \subseteq S) => i \in S}

Reachable == Closure(UNION {Roots(p, Index, mem) : p \in Registered},
                     [i \in Index |-> Follow(i, mem)])

-----------------------------------------------------------------------------
\* Users and time

Edit(p, f) ==
  /\ Quiet /\ f \in Files \ {file[p]}
  /\ file' = [file EXCEPT ![p] = f] /\ count' = [count EXCEPT !.events = @ + 1]
  /\ UNCHANGED <<home, recorded, present, tree, extracted, disk, pc, mem, job, saved>>

\* A CI runner comes with another checkout: install paths come and go.
Move(w) ==
  /\ Quiet /\ count' = [count EXCEPT !.events = @ + 1]
  /\ present' = IF w \in present THEN present \ {w} ELSE present \cup {w}
  /\ UNCHANGED <<home, file, recorded, tree, extracted, disk, pc, mem, job, saved>>

Older(warmed) == [i \in Items |-> IF warmed[i] > Retention THEN warmed[i] ELSE warmed[i] + 1]

Age ==
  /\ Quiet /\ count' = [count EXCEPT !.events = @ + 1] /\ \E i \in Items : disk.warmed[i] <= Retention
  /\ disk' = [disk EXCEPT !.warmed = Older(@)]
  /\ saved' = [saved EXCEPT !.warmed = Older(@)]
  /\ UNCHANGED <<world, tree, extracted, pc, mem, job>>

\* A binary with a newer schema drops the snapshot it meets (Load).
Upgrade ==
  /\ Quiet /\ disk.persisted
  /\ disk' = New
  /\ saved' = [warmed |-> New.warmed, installed |-> {}]
  /\ count' = [count EXCEPT !.events = @ + 1]
  /\ UNCHANGED <<world, tree, extracted, pc, mem, job>>

\* A kill, or an error that returns before the save.
Stop ==
  /\ pc # "idle"
  /\ pc' = "idle" /\ mem' = New /\ job' = NoJob
  /\ UNCHANGED <<world, tree, extracted, disk, count, saved>>

-----------------------------------------------------------------------------
\* install, warm and lock

\* RecordProject, NewProjectRecord.
Recording(p) == [recorded EXCEPT ![p] = "full"]

\* ClearCaches
Cleared(s) == [s EXCEPT !.pins = {}]

\* initInstall: the snapshot is loaded, --clear-cache forgets the pins, and the
\* project is recorded before its requirements are read.
Begin(p, kind, clear) ==
  /\ Idle
  /\ recorded' = Recording(p)
  /\ mem' = IF clear THEN Cleared(disk) ELSE disk
  /\ job' = [NoJob EXCEPT !.kind = kind, !.of = {p}]
  /\ pc' = "plan" /\ count' = [count EXCEPT !.commands = @ + 1]
  /\ UNCHANGED <<home, file, present, tree, extracted, disk, saved>>

\* A resolution of the roots: one item per slot, every need met, nothing unasked
\* for, a recorded pin replayed unless the run refreshes it.
Selects(p, S, replay) ==
  /\ \A i, j \in S : Slot[i] = Slot[j] => i = j
  /\ \A r \in file[p].roots : r.admits \cap S # {}
  /\ \A i \in S : {Slot[j] : j \in Edges[i]} = {Slot[j] : j \in Edges[i] \cap S}
  /\ S = Closure((UNION {r.admits : r \in file[p].roots}) \cap S, [i \in S |-> Edges[i]])
  /\ replay => \A c \in S : \A d \in mem.pins : Source[c] = Source[d] => c = d

\* What a git or url root resolved to is pinned.
Plan(S, replay) ==
  LET fetched == {c \in S : Source[c] # Galaxy} IN
  /\ pc = "plan"
  /\ \E p \in job.of : /\ file[p].state = "ok" /\ Selects(p, S, replay)
                       /\ job.kind = "install" => home[p] \in present
  /\ mem' = [mem EXCEPT !.pins = {c \in @ : \A d \in fetched : Source[c] # Source[d]} \cup fetched]
  /\ job' = [job EXCEPT !.todo = IF job.kind = "lock" THEN {} ELSE S]
  /\ pc' = "work"
  /\ UNCHANGED <<world, tree, extracted, disk, count, saved>>

\* What the workers get done (recordInstall, recordRoleInstall): whatever was in an
\* item's slot is replaced, and an item in place and on record there is skipped.
Install(done) ==
  /\ pc = "work" /\ job.kind = "install" /\ job.todo # {}
  /\ \E w \in {home[p] : p \in job.of} :
       LET new == {[item |-> i, at |-> w] : i \in done}
           inPlace == {i \in done \cap tree[w] : [item |-> i, at |-> w] \in mem.installed} IN
       /\ tree' = [tree EXCEPT ![w] = {j \in @ : \A i \in done : Slot[j] # Slot[i]} \cup done]
       /\ mem' = [mem EXCEPT !.installed = Put(@, new)]
       /\ \E skipped \in {{}, inPlace} : extracted' = extracted \cup (done \ skipped)
  /\ job' = [job EXCEPT !.todo = {}]
  /\ UNCHANGED <<world, disk, pc, count, saved>>

\* warmOne, warmRole.
Warm(done) ==
  /\ pc = "work" /\ job.kind = "warm" /\ job.todo # {}
  /\ mem' = [mem EXCEPT !.warmed = [i \in Items |-> IF i \in done THEN 0 ELSE @[i]]]
  /\ extracted' = extracted \cup done
  /\ job' = [job EXCEPT !.todo = {}]
  /\ UNCHANGED <<world, tree, disk, pc, count, saved>>

\* finalizeInstall saves what was done, failures or not.
Save ==
  /\ pc = "work" /\ job.todo = {}
  /\ disk' = Persisted(mem)
  /\ saved' = [warmed |-> [i \in Items |-> IF job.kind = "warm" /\ mem.warmed[i] = 0 THEN 0 ELSE saved.warmed[i]],
               installed |-> Put(saved.installed, mem.installed \ disk.installed)]
  /\ pc' = "idle" /\ mem' = New /\ job' = NoJob
  /\ UNCHANGED <<world, tree, extracted, count>>

-----------------------------------------------------------------------------
\* cleanup

Doomed == Index \ Reachable

\* buildReachable: an unreadable requirements file aborts the run.
BeginCleanup ==
  /\ Idle /\ Registered # {}
  /\ \A p \in Registered : file[p].state # "unreadable"
  /\ mem' = disk /\ pc' = "weigh" /\ count' = [count EXCEPT !.commands = @ + 1]
  /\ job' = [NoJob EXCEPT !.kind = "cleanup"]
  /\ UNCHANGED <<world, tree, extracted, disk, saved>>

\* What the scan and the roots said is fixed for the rest of the run.
Weigh ==
  /\ pc = "weigh"
  /\ job' = [job EXCEPT !.todo = Doomed]
  /\ pc' = "remove"
  /\ UNCHANGED <<world, tree, extracted, disk, mem, count, saved>>

\* Mutant: only what is on record is removed, and a run may be killed unsaved.
CopiesOnRecord(i) == {w \in Workspaces : OnRecord(i, w, mem) \cap tree[w] # {}}

Copies(i) == UNION {Places(j) : j \in Kin(i)}

\* Collections go before roles, each in sorted order.
Next1 == CHOOSE i \in job.todo : i \in Roles => job.todo \subseteq Roles

\* removeUnused, removeUnusedRoles: every copy that goes by one key, and its record.
Remove ==
  /\ pc = "remove" /\ job.todo # {}
  /\ tree' = [w \in Workspaces |-> IF w \in Copies(Next1) THEN tree[w] \ Kin(Next1) ELSE tree[w]]
  /\ mem' = [mem EXCEPT !.installed = {e \in @ : e.item \notin Kin(Next1)}]
  /\ job' = [job EXCEPT !.todo = @ \ Kin(Next1), !.removed = @ \cup Kin(Next1)]
  /\ UNCHANGED <<world, extracted, disk, pc, count, saved>>

\* A removal fails after some of the copies: the run ends, its store unsaved.
RemoveFails ==
  /\ pc = "remove" /\ job.todo # {}
  /\ \E gone \in SUBSET Copies(Next1) :
       tree' = [w \in Workspaces |-> IF w \in gone THEN tree[w] \ Kin(Next1) ELSE tree[w]]
  /\ pc' = "idle" /\ mem' = New /\ job' = NoJob
  /\ UNCHANGED <<world, extracted, disk, count, saved>>

\* extractedKeepSet, roleKeepSHAs: by the records, less what this run removed.
KeepSet(s, removed) == (Recorded(s) \ removed) \cup Fresh(s)

\* sweepExtractedStore; a sweep that fails is printed (ExtractedStore has one
\* that stops half way).
Sweep ==
  /\ pc = "remove" /\ job.todo = {}
  /\ \/ extracted' = IF mem.content THEN extracted \cap KeepSet(mem, job.removed) ELSE extracted
     \/ mem.content /\ UNCHANGED extracted
  /\ pc' = "finish"
  /\ UNCHANGED <<world, tree, disk, mem, job, count, saved>>

\* finalizeCleanup: only over a persisted snapshot, and only if it changed.
Finish ==
  /\ pc = "finish"
  /\ disk' = IF mem.persisted /\ job.removed # {} THEN Persisted(mem) ELSE disk
  /\ saved' = [saved EXCEPT !.installed = {e \in @ : e.item \notin job.removed}]
  /\ pc' = "idle" /\ mem' = New /\ job' = NoJob
  /\ UNCHANGED <<world, tree, extracted, count>>

-----------------------------------------------------------------------------
Init ==
  /\ home \in Homes
  /\ file \in [Projects -> {f \in Files : f.state = "ok"}]
  /\ \E r \in {"no", "old"} : recorded = [p \in Projects |-> r]
  /\ present = Workspaces
  /\ tree = [w \in Workspaces |-> {}]
  /\ extracted = {}
  /\ disk = New
  /\ pc = "idle" /\ mem = New /\ job = NoJob /\ count = [commands |-> 0, events |-> 0]
  /\ saved = [warmed |-> New.warmed, installed |-> {}]

User == \/ \E p \in Projects, f \in Files : Edit(p, f)
        \/ \E w \in Workspaces : Move(w)
        \/ Age
        \/ Upgrade
Command == \/ \E p \in Projects, kind \in Kinds, clear \in BOOLEAN : Begin(p, kind, clear)
           \/ \E S \in SUBSET Items, replay \in BOOLEAN : Plan(S, replay)
           \/ \E done \in SUBSET job.todo : Install(done) \/ Warm(done)
           \/ Save
           \/ Stop
Cleanup == \/ BeginCleanup
           \/ Weigh
           \/ Remove
           \/ RemoveFails
           \/ Sweep
           \/ Finish
Next == User \/ Command \/ Cleanup

Spec == Init /\ [][Next]_vars

-----------------------------------------------------------------------------
TypeOK ==
  /\ home \in Homes
  /\ file \in [Projects -> Files] /\ recorded \in [Projects -> {"no", "old", "full"}]
  /\ present \subseteq Workspaces /\ tree \in [Workspaces -> SUBSET Items]
  /\ extracted \subseteq Items
  /\ disk \in Snapshot /\ mem \in Snapshot
  /\ pc \in {"idle", "plan", "work", "weigh", "remove", "finish"}
  /\ job \in [kind : {"none", "install", "warm", "lock", "cleanup"}, of : SUBSET Projects,
              todo : SUBSET Items, removed : SUBSET Items]
  /\ count \in [commands : 0 .. MaxCommands, events : 0 .. MaxEvents]
  /\ saved \in [warmed : [Items -> Ages], installed : SUBSET Entry]

\* What a project asks for among what its install path holds: a role by its name,
\* a pin speaks for its source, a list of roles that is refused may ask for any.
Asks(p) ==
  {i \in Scanned(p) :
     \/ file[p].state = "roles" /\ i \in Roles
     \/ /\ file[p].state # "missing"
        /\ \E r \in file[p].roots :
             /\ i \in Named(r.admits)
             /\ \/ r.source = Galaxy
                \/ i \in mem.pins
                \/ i \in Recorded(mem) /\ \A c \in r.admits \cap Collections : c \notin mem.pins}

\* What a copy in p's tree needs: what its own metadata says, unless the record for
\* its directory is still that of another version, whose replacement was not saved.
Needs(i, p) == IF OnRecord(i, home[p], mem) \subseteq {i} THEN Named(Edges[i]) ELSE {}

\* What a project needs of its own tree: what it asks for, and what that needs.
Own(p) == Closure(Asks(p), [i \in Scanned(p) |-> Needs(i, p)])

\* Cleanup removes no copy that a recorded project reaches from its own
\* requirements through its own tree, whatever the other projects hold, lack or
\* have lost (cleanup/reachable.go, remove.go, roles.go).
SparesTheReached ==
  [][pc = "remove" =>
       \A p \in Registered : Own(p) \subseteq tree'[home[p]]]_vars

\* The sweep of the extracted store spares the tree of every item warmed within
\* the window by a run that saved, and of every item whose install was saved,
\* whose key no later save recorded anew (a role's is its name), and that a
\* recorded project still reaches; saves in between, by any command, and forgotten
\* caches do not change that (cleanup/sweep.go, roles.go, store/snapshot.go).
SweepSparesTheUsed ==
  [][pc = "remove" =>
       \A i \in extracted \ extracted' :
         /\ saved.warmed[i] > Retention
         /\ (\E e \in saved.installed : e.item = i) => \A p \in Registered : i \notin Own(p)]_vars

\* A cleanup that came as far as the save has left nothing in a scanned tree
\* that no recorded project reaches: every copy of every doomed item is gone.
NothingUnreachedStays ==
  pc = "finish" => \A p \in Registered : Scanned(p) \subseteq Reachable
=============================================================================
