--------------------------- MODULE RegistryProofs ---------------------------
(***************************************************************************)
(* Theorems about what commands do to the projects that share a cache, for *)
(* any projects, items, dependencies and requirements files.               *)
(***************************************************************************)
EXTENDS Registry, TLAPS

USE RegistryAssumption

-----------------------------------------------------------------------------
(***************************************************************************)
(* The inductive invariant.                                                *)
(***************************************************************************)
Cleaning == {"weigh", "remove", "finish"}

\* A command's store is the snapshot and what the command did since: an entry that is
\* missing was replaced by a new one of its key, or removed.
Loaded ==
  /\ pc \in {"plan", "work"} =>
       /\ pc = "plan" \/ job.todo # {} => mem.installed = disk.installed
       /\ \A e \in disk.installed \ mem.installed :
            \E f \in mem.installed \ disk.installed : e.item \in Kin(f.item)
       /\ \A i \in Items : mem.warmed[i] <= disk.warmed[i]
  /\ pc \in Cleaning => /\ mem.installed = {e \in disk.installed : e.item \notin job.removed}
                        /\ mem.warmed = disk.warmed
  /\ pc = "weigh" => job.removed = {}

\* One entry per key, and one item per slot in what is to be done.
OneEach(entries) == \A e, f \in entries : e.item \in Kin(f.item) => e = f
OnePerSlot(S) == \A i, j \in S : Slot[i] = Slot[j] => i = j
Keyed ==
  /\ OneEach(disk.installed) /\ OneEach(mem.installed)
  /\ pc = "work" => OnePerSlot(job.todo)

\* What saves promised is on disk: the records, and a warm no older than that.
Kept ==
  /\ saved.installed \subseteq disk.installed
  /\ \A i \in Items : saved.warmed[i] <= Retention => disk.warmed[i] <= saved.warmed[i]

\* What a cleanup has still to remove is what nobody reaches now, though trees
\* and records have changed under its own hands since it weighed them.
Weighed ==
  /\ pc \in {"remove", "finish"} => job.todo = Doomed /\ job.removed \cap Index = {}
  /\ pc = "finish" => job.todo = {}

IInv == TypeOK /\ Loaded /\ Kept /\ Weighed /\ Keyed

-----------------------------------------------------------------------------
(***************************************************************************)
(* Keys and entries.                                                       *)
(***************************************************************************)
\* Going by the same key is an equivalence.
LEMMA KinFacts ==
  ASSUME NEW i \in Items
  PROVE  /\ i \in Kin(i) /\ Kin(i) \subseteq Items
         /\ \A j \in Kin(i) : Kin(j) = Kin(i)
         /\ i \in Roles => Kin(i) \subseteq Roles
         /\ i \notin Roles => Kin(i) = {i}
BY DEF Kin, Items

\* The names of a set cover it, and hold all that goes by one of them.
LEMMA NamedFacts ==
  ASSUME NEW S \in SUBSET Items
  PROVE  /\ S \subseteq Named(S) /\ Named(S) \subseteq Items
         /\ S \subseteq Roles => Named(S) \subseteq Roles
         /\ S \subseteq Collections => Named(S) = S
<1>1. \A j \in S : /\ j \in Kin(j) /\ Kin(j) \subseteq Items
                   /\ j \in Roles => Kin(j) \subseteq Roles
                   /\ j \notin Roles => Kin(j) = {j}
  BY KinFacts
<1>. QED  BY <1>1 DEF Named

\* Items of one key have one slot.
LEMMA KinSlot == \A i \in Items : \A j \in Kin(i) : Slot[i] = Slot[j]
BY DEF Kin

\* Replacing entries by new ones of their keys leaves one per key.
LEMMA PutKeys ==
  ASSUME NEW entries \in SUBSET Entry, NEW new \in SUBSET Entry, OneEach(entries), OneEach(new)
  PROVE  OneEach(Put(entries, new)) /\ Put(entries, new) \in SUBSET Entry
<1>1. \A e, f \in Entry : e.item \in Kin(f.item) <=> f.item \in Kin(e.item)
  BY KinFacts DEF Entry
<1>. QED  BY <1>1 DEF Put, OneEach

-----------------------------------------------------------------------------
(***************************************************************************)
(* Type correctness.                                                       *)
(***************************************************************************)
\* Ages are naturals, and one more than an age within the window is one.
LEMMA AgeFacts ==
  /\ Ages \subseteq Nat /\ 0 \in Ages /\ Never \in Ages /\ Never > Retention
  /\ \A a \in Ages : a <= Retention => a + 1 \in Ages
BY DEF Ages, Never

\* The empty store is a store.
LEMMA NewType == New \in Snapshot
BY AgeFacts DEF New, Snapshot

\* What a save writes is a store.
LEMMA PersistedType ==
  ASSUME NEW s \in Snapshot
  PROVE  /\ Persisted(s) \in Snapshot
         /\ Persisted(s).installed = s.installed
         /\ \A i \in Items : Persisted(s).warmed[i] = IF s.warmed[i] <= Retention THEN s.warmed[i] ELSE Never
<1> DEFINE warmed == [i \in Items |-> IF i \in Fresh(s) THEN s.warmed[i] ELSE Never]
           content == s.content \/ s.installed # {} \/ \E i \in Items : s.warmed[i] # Never
<1>1. Persisted(s) = [s EXCEPT !.persisted = TRUE, !.content = content, !.warmed = warmed]
  BY Zenon DEF Persisted
<1>2. content \in BOOLEAN
  OBVIOUS
<1>3. warmed \in [Items -> Ages]
  BY AgeFacts DEF Snapshot
<1>4. \A i \in Items : warmed[i] = IF s.warmed[i] <= Retention THEN s.warmed[i] ELSE Never
  BY DEF Fresh
<1> HIDE DEF content, warmed
<1>5. Persisted(s) \in Snapshot /\ Persisted(s).installed = s.installed /\ Persisted(s).warmed = warmed
  BY <1>1, <1>2, <1>3 DEF Snapshot
<1>. QED  BY <1>4, <1>5

\* The same after a day.
LEMMA OlderType ==
  ASSUME NEW warmed \in [Items -> Ages]
  PROVE  Older(warmed) \in [Items -> Ages]
<1>1. ASSUME NEW i \in Items PROVE Older(warmed)[i] \in Ages
  <2>1. warmed[i] \in Ages /\ warmed[i] \in Nat
    BY AgeFacts
  <2>. QED  BY <2>1, AgeFacts DEF Older
<1>. QED  BY <1>1 DEF Older

\* At the start everything is of its type.
LEMMA InitType == Init => TypeOK
BY NewType, AgeFacts DEF Init, TypeOK, NoJob, New, Snapshot

\* What users and time do keeps the types.
LEMMA UserType == TypeOK /\ User => TypeOK'
<1> SUFFICES ASSUME TypeOK, User PROVE TypeOK'
  OBVIOUS
<1> USE DEF TypeOK, Quiet
<1>1. ASSUME NEW p \in Projects, NEW f \in Files, Edit(p, f) PROVE TypeOK'
  BY <1>1 DEF Edit
<1>2. ASSUME NEW w \in Workspaces, Move(w) PROVE TypeOK'
  BY <1>2 DEF Move
<1>3. CASE Age
  <2>1. Older(disk.warmed) \in [Items -> Ages] /\ Older(saved.warmed) \in [Items -> Ages]
    BY OlderType DEF Snapshot
  <2>2. disk' \in Snapshot
    BY <1>3, <2>1 DEF Age, Snapshot
  <2>3. saved' \in [warmed : [Items -> Ages], installed : SUBSET Entry]
    BY <1>3, <2>1 DEF Age
  <2>4. count' \in [commands : 0 .. MaxCommands, events : 0 .. MaxEvents]
    BY <1>3 DEF Age
  <2>. QED  BY <1>3, <2>2, <2>3, <2>4 DEF Age, world
<1>4. CASE Upgrade
  BY <1>4, NewType DEF Upgrade, world, New, Snapshot
<1>. QED  BY <1>1, <1>2, <1>3, <1>4, Zenon DEF User

\* Install, warm and lock keep the types.
LEMMA CommandType == TypeOK /\ Command => TypeOK'
<1> SUFFICES ASSUME TypeOK, Command PROVE TypeOK'
  OBVIOUS
<1> USE DEF TypeOK, world
<1>1. ASSUME NEW p \in Projects, NEW kind \in Kinds, NEW clear \in BOOLEAN, Begin(p, kind, clear)
      PROVE  TypeOK'
  <2>1. recorded' \in [Projects -> {"no", "old", "full"}]
    BY <1>1 DEF Begin, Recording
  <2>2. mem' \in Snapshot
    BY <1>1 DEF Begin, Cleared, Snapshot
  <2>3. job' \in [kind : {"none", "install", "warm", "lock", "cleanup"}, of : SUBSET Projects,
                  todo : SUBSET Items, removed : SUBSET Items]
    BY <1>1 DEF Begin, NoJob
  <2>4. count' \in [commands : 0 .. MaxCommands, events : 0 .. MaxEvents]
    BY <1>1 DEF Begin, Idle
  <2>. QED  BY <1>1, <2>1, <2>2, <2>3, <2>4 DEF Begin
<1>2. ASSUME NEW S \in SUBSET Items, NEW replay \in BOOLEAN, Plan(S, replay) PROVE TypeOK'
  <2>1. {c \in S : Source[c] # Galaxy} \subseteq Collections
    BY DEF Items
  <2>2. mem' \in Snapshot
    BY <1>2, <2>1 DEF Plan, Snapshot
  <2>. QED  BY <1>2, <2>2 DEF Plan
<1>3. ASSUME NEW done \in SUBSET job.todo, Install(done) PROVE TypeOK'
  <2>1. PICK w \in {home[p] : p \in job.of} :
          LET new == {[item |-> i, at |-> w] : i \in done}
              inPlace == {i \in done \cap tree[w] : [item |-> i, at |-> w] \in mem.installed} IN
          /\ tree' = [tree EXCEPT ![w] = {j \in @ : \A i \in done : Slot[j] # Slot[i]} \cup done]
          /\ mem' = [mem EXCEPT !.installed = Put(@, new)]
          /\ \E skipped \in {{}, inPlace} : extracted' = extracted \cup (done \ skipped)
    BY <1>3 DEF Install
  <2>2. done \subseteq Items /\ w \in Workspaces
    OBVIOUS
  <2>3. tree' \in [Workspaces -> SUBSET Items]
    BY <2>1, <2>2
  <2>4. mem' \in Snapshot /\ extracted' \subseteq Items
    <3>1. {[item |-> i, at |-> w] : i \in done} \subseteq Entry
      BY <2>2 DEF Entry
    <3>2. mem'.installed \subseteq Entry /\ mem' = [mem EXCEPT !.installed = mem'.installed]
      BY <2>1, <3>1 DEF Put, Snapshot
    <3>. QED  BY <2>1, <2>2, <3>2 DEF Snapshot
  <2>. QED  BY <1>3, <2>3, <2>4 DEF Install
<1>4. ASSUME NEW done \in SUBSET job.todo, Warm(done) PROVE TypeOK'
  <2>1. [i \in Items |-> IF i \in done THEN 0 ELSE mem.warmed[i]] \in [Items -> Ages]
    BY AgeFacts DEF Snapshot
  <2>2. mem' \in Snapshot
    BY <1>4, <2>1 DEF Warm, Snapshot
  <2>. QED  BY <1>4, <2>2 DEF Warm
<1>5. CASE Save
  <2>1. saved'.warmed \in [Items -> Ages] /\ saved'.installed \in SUBSET Entry
    BY <1>5, AgeFacts DEF Save, Snapshot, Put
  <2>2. saved' \in [warmed : [Items -> Ages], installed : SUBSET Entry]
    BY <1>5, <2>1 DEF Save, Snapshot
  <2>. QED  BY <1>5, <2>2, PersistedType, NewType DEF Save, NoJob
<1>6. CASE Stop
  BY <1>6, NewType DEF Stop, NoJob
<1> HIDE DEF TypeOK, world
<1>. QED  BY <1>1, <1>2, <1>3, <1>4, <1>5, <1>6 DEF Command

\* The item removed next is one of those left.
LEMMA NextIsLeft ==
  ASSUME TypeOK, job.todo # {}
  PROVE  Next1 \in job.todo
<1>1. \E i \in job.todo : i \in Roles => job.todo \subseteq Roles
  BY DEF TypeOK, Items
<1>. QED  BY <1>1, Zenon DEF Next1

\* Cleanup keeps the types.
LEMMA CleanupType == TypeOK /\ Cleanup => TypeOK'
<1> SUFFICES ASSUME TypeOK, Cleanup PROVE TypeOK'
  OBVIOUS
<1> USE DEF TypeOK, world
<1>1. CASE BeginCleanup
  BY <1>1 DEF BeginCleanup, Idle, NoJob
<1>2. CASE Weigh
  BY <1>2 DEF Weigh, Doomed, Index, Scanned, ScannedRoles, Opened, Registered, Items
<1>3. CASE Remove
  <2>1. Kin(Next1) \subseteq Items
    BY <1>3, NextIsLeft, KinFacts DEF Remove
  <2>2. mem' \in Snapshot
    BY <1>3, <2>1 DEF Remove, Snapshot
  <2>. QED  BY <1>3, <2>1, <2>2 DEF Remove
<1>4. CASE RemoveFails
  <2>1. tree' \in [Workspaces -> SUBSET Items]
    BY <1>4 DEF RemoveFails
  <2>. QED  BY <1>4, <2>1, NewType DEF RemoveFails, NoJob
<1>5. CASE Sweep
  BY <1>5 DEF Sweep
<1>6. CASE Finish
  BY <1>6, PersistedType, NewType DEF Finish, NoJob
<1>. QED  BY <1>1, <1>2, <1>3, <1>4, <1>5, <1>6, Zenon DEF Cleanup

\* Every step keeps the types.
LEMMA NextType == TypeOK /\ [Next]_vars => TypeOK'
<1>1. TypeOK /\ UNCHANGED vars => TypeOK'
  BY DEF TypeOK, vars
<1>. QED  BY <1>1, UserType, CommandType, CleanupType DEF Next

\* Every command, kill and change outside keeps the state in its types.
THEOREM TypeCorrect == Spec => []TypeOK
BY InitType, NextType, PTL DEF Spec

-----------------------------------------------------------------------------
(***************************************************************************)
(* Reachability.                                                           *)
(***************************************************************************)
\* S follows whatever next says, within its domain.
Follows(S, next) == \A j \in S : next[j] \cap DOMAIN next \subseteq S

\* The closure is the least set that holds the roots and follows.
LEMMA ClosureLeast ==
  ASSUME NEW next, NEW roots \in SUBSET DOMAIN next
  PROVE  /\ roots \subseteq Closure(roots, next)
         /\ Closure(roots, next) \in SUBSET DOMAIN next
         /\ Follows(Closure(roots, next), next)
         /\ \A S \in SUBSET DOMAIN next :
              roots \subseteq S /\ Follows(S, next) => Closure(roots, next) \subseteq S
BY DEF Closure, Follows

\* Items that the closure does not hold add nothing to it.
LEMMA ClosureSheds ==
  ASSUME NEW next, NEW roots \in SUBSET DOMAIN next, NEW rest, NEW gone,
         DOMAIN rest = DOMAIN next \ gone, \A j \in DOMAIN rest : rest[j] = next[j],
         gone \cap Closure(roots, next) = {}
  PROVE  Closure(roots, rest) = Closure(roots, next)
<1> DEFINE C == Closure(roots, next)
           D == Closure(roots, rest)
           Least(c, x) == /\ roots \subseteq c /\ c \in SUBSET DOMAIN x /\ Follows(c, x)
                          /\ \A S \in SUBSET DOMAIN x : roots \subseteq S /\ Follows(S, x) => c \subseteq S
<1>1. Least(C, next)
  BY ClosureLeast, Zenon
<1>2. roots \in SUBSET DOMAIN rest
  BY <1>1
<1>3. Least(D, rest)
  BY <1>2, ClosureLeast, Zenon
<1>0. gone \cap C = {}
  OBVIOUS
<1> HIDE DEF C, D
<1> SUFFICES D = C
  BY DEF C, D
<1>4. Follows(C, rest) /\ C \in SUBSET DOMAIN rest
  BY <1>0, <1>1 DEF Follows
<1>5. D \subseteq C
  BY <1>1, <1>3, <1>4
<1>6. Follows(D, next)
  BY <1>0, <1>1, <1>3, <1>5 DEF Follows
<1>7. C \subseteq D
  BY <1>1, <1>3, <1>6
<1>. QED  BY <1>5, <1>7

\* What it is for an item to be a root.
LEMMA RootsHold ==
  ASSUME NEW p, NEW index, NEW s, NEW i
  PROVE  i \in Roots(p, index, s) <=>
           \/ /\ file[p].state # "missing"
              /\ \E r \in file[p].roots : /\ file[p].state = "roles" => r.admits \cap Roles = {}
                                          /\ i \in RootItems(r, index, s)
           \/ file[p].state = "roles" /\ i \in ScannedRoles(p)
BY DEF Roots

\* Every root of a registered project is reached, with all that goes by its name.
LEMMA RootsReached ==
  ASSUME TypeOK, NEW p \in Registered
  PROVE  /\ Roots(p, Index, mem) \subseteq Reachable
         /\ UNION {Roots(q, Index, mem) : q \in Registered} \subseteq Index
         /\ Index \subseteq Items /\ Reachable \subseteq Index
         /\ \A i \in Reachable : Follow(i, mem) \cap Index \subseteq Reachable
<1>1. ASSUME NEW q \in Registered PROVE Roots(q, Index, mem) \subseteq Index
  BY <1>1, RootsHold DEF RootItems, Matching, Index, Scanned
<1>2. Index \subseteq Items
  BY DEF TypeOK, Index, Scanned, ScannedRoles, Opened, Registered, Items
<1>3. UNION {Roots(q, Index, mem) : q \in Registered} \in SUBSET Index
  BY <1>1
<1> DEFINE next == [i \in Index |-> Follow(i, mem)]
<1>4. DOMAIN next = Index /\ \A i \in Index : next[i] = Follow(i, mem)
  OBVIOUS
<1>5. Reachable = Closure(UNION {Roots(q, Index, mem) : q \in Registered}, next)
  BY DEF Reachable
<1> HIDE DEF next
<1>6. /\ UNION {Roots(q, Index, mem) : q \in Registered} \subseteq Reachable
      /\ Reachable \subseteq Index /\ Follows(Reachable, next)
  BY <1>3, <1>4, <1>5, ClosureLeast
<1>. QED  BY <1>2, <1>3, <1>4, <1>6 DEF Follows

\* What cleanup follows from an item it found: the item's own name at least, and the
\* metadata of a copy that no record contradicts.
LEMMA FollowHolds ==
  ASSUME TypeOK, NEW i \in Index
  PROVE  /\ Kin(i) \subseteq Follow(i, mem)
         /\ \A p \in Registered : i \in Scanned(p) => Needs(i, p) \subseteq Follow(i, mem)
<1>1. Kin(i) \subseteq Follow(i, mem)
  BY DEF Follow, Named
<1>2. ASSUME NEW p \in Registered, i \in Scanned(p) PROVE Needs(i, p) \subseteq Follow(i, mem)
  <2>1. home[p] \in Places(i)
    BY <1>2 DEF Places
  <2>2. CASE OnRecord(i, home[p], mem) \subseteq {i}
    <3>1. Deps(i, home[p], mem) = Edges[i]
      BY <2>2 DEF Deps
    <3>. QED  BY <2>1, <2>2, <3>1 DEF Needs, Follow, Named
  <2>. QED  BY <2>2 DEF Needs
<1>. QED  BY <1>1, <1>2

\* Nothing is reached without all that cleanup found by the same name.
LEMMA ReachedByName ==
  ASSUME TypeOK, NEW i \in Index \ Reachable
  PROVE  Kin(i) \cap Reachable = {}
<1> SUFFICES ASSUME NEW j \in Kin(i), j \in Reachable PROVE FALSE
  OBVIOUS
<1>1. PICK p \in Registered : i \in Scanned(p)
  BY DEF Index
<1>2. Index \subseteq Items /\ Reachable \subseteq Index
  BY <1>1, RootsReached
<1>3. i \in Kin(j)
  BY <1>2, KinFacts
<1>4. i \in Follow(j, mem)
  BY <1>2, <1>3, FollowHolds
<1>. QED  BY <1>1, <1>4, RootsReached

\* What a project asks for is among the roots that cleanup takes from it: a pin
\* speaks for its source, and the roles of a list that is refused all stay.
LEMMA AsksAreRoots ==
  ASSUME TypeOK, NEW p \in Registered
  PROVE  Asks(p) \subseteq Roots(p, Index, mem)
<1> SUFFICES ASSUME NEW i \in Asks(p) PROVE i \in Roots(p, Index, mem)
  OBVIOUS
<1>1. i \in Scanned(p) /\ i \in Index
  BY DEF Asks, Index
<1>2. i \in Roles => i \in ScannedRoles(p)
  BY <1>1 DEF Scanned, TypeOK
<1>3. CASE file[p].state = "roles" /\ i \in Roles
  BY <1>2, <1>3 DEF Roots
<1>4. CASE ~(file[p].state = "roles" /\ i \in Roles)
  <2>1. PICK r \in file[p].roots :
          /\ file[p].state # "missing" /\ i \in Named(r.admits)
          /\ \/ r.source = Galaxy
             \/ i \in mem.pins
             \/ i \in Recorded(mem) /\ \A c \in r.admits \cap Collections : c \notin mem.pins
    BY <1>4 DEF Asks
  <2>2. file[p] \in Files
    BY DEF TypeOK, Registered
  <2>3. IF r.source = Galaxy THEN r.admits \subseteq Collections \/ r.admits \subseteq Roles
                             ELSE r.admits \subseteq {c \in Collections : Source[c] = r.source}
    BY <2>2
  <2>6. /\ r.admits \subseteq Roles => Named(r.admits) \subseteq Roles
        /\ r.admits \subseteq Collections => Named(r.admits) = r.admits
    <3>1. r.admits \in SUBSET Items
      BY <2>3 DEF Items
    <3>. QED  BY <3>1, NamedFacts
  <2>4. i \in RootItems(r, Index, mem)
    <3>1. CASE r.source = Galaxy
      BY <1>1, <2>1, <3>1 DEF RootItems, Matching
    <3>2. CASE r.source # Galaxy
      <4> DEFINE ofSource == {c \in r.admits \cap Collections : Source[c] = r.source}
      <4>1. i \in ofSource /\ ofSource = r.admits \cap Collections
        BY <2>1, <2>3, <2>6, <3>2
      <4>. QED  BY <1>1, <2>1, <3>2, <4>1 DEF RootItems
    <3>. QED  BY <3>1, <3>2
  <2>5. file[p].state = "roles" => r.admits \cap Roles = {}
    <3>1. Scanned(p) \subseteq Collections \cup Roles
      BY DEF Scanned, ScannedRoles
    <3>. QED  BY <1>1, <1>4, <2>1, <2>3, <2>6, <3>1
  <2>. QED  BY <2>1, <2>4, <2>5 DEF Roots
<1>. QED  BY <1>3, <1>4

\* What a project needs of its own tree is reached in the index of all of them.
LEMMA OwnIsReached ==
  ASSUME TypeOK, NEW p \in Registered
  PROVE  Own(p) \subseteq Reachable /\ Own(p) \subseteq Scanned(p)
<1> DEFINE S == Reachable \cap Scanned(p)
           next == [i \in Scanned(p) |-> Needs(i, p)]
<1>1. Asks(p) \subseteq S /\ S \in SUBSET Scanned(p) /\ Asks(p) \subseteq Scanned(p)
  BY AsksAreRoots, RootsReached DEF Asks
<1>2. \A j \in S : Needs(j, p) \cap Scanned(p) \subseteq S
  BY RootsReached, FollowHolds DEF Index
<1>3. DOMAIN next = Scanned(p) /\ Follows(S, next)
  BY <1>2 DEF Follows
<1>4. Own(p) = Closure(Asks(p), next)
  BY DEF Own
<1> HIDE DEF S, next
<1>5. Own(p) \subseteq S
  BY <1>1, <1>3, <1>4, ClosureLeast
<1>. QED  BY <1>5 DEF S

-----------------------------------------------------------------------------
(***************************************************************************)
(* One removal.                                                            *)
(***************************************************************************)
\* Every copy that any registered project's scan sees is gone, and nothing else.
LEMMA RemoveScanned ==
  ASSUME TypeOK, Remove, NEW p \in Registered
  PROVE  /\ Scanned(p)' = Scanned(p) \ Kin(Next1)
         /\ ScannedRoles(p)' = ScannedRoles(p) \ Kin(Next1)
<1>1. home[p] \in Workspaces
  BY DEF TypeOK, Registered
<1>2. tree'[home[p]] = IF home[p] \in Copies(Next1) THEN tree[home[p]] \ Kin(Next1) ELSE tree[home[p]]
  BY <1>1 DEF Remove
<1>3. UNCHANGED world
  BY DEF Remove
<1>4. \A j \in Kin(Next1) : j \in Scanned(p) => home[p] \in Copies(Next1)
  BY DEF Copies, Places
<1>5. Opened(p)' = IF home[p] \in Copies(Next1) THEN Opened(p) \ Kin(Next1) ELSE Opened(p)
  BY <1>2, <1>3 DEF Opened, world
<1>6. recorded' = recorded
  BY <1>3 DEF world
<1>7. \A j : j \in Scanned(p) <=> j \in Opened(p) /\ (j \in Collections \/ j \in ScannedRoles(p))
  BY DEF Scanned, ScannedRoles
<1>. QED  BY <1>4, <1>5, <1>6 DEF Scanned, ScannedRoles

\* A root takes nothing else when the items of a key are gone.
LEMMA RemoveRootItems ==
  ASSUME TypeOK, Remove, NEW r
  PROVE  RootItems(r, Index \ Kin(Next1), mem') = RootItems(r, Index, mem) \ Kin(Next1)
<1>1. mem'.pins = mem.pins /\ mem'.installed = {e \in mem.installed : e.item \notin Kin(Next1)}
  BY DEF Remove, TypeOK, Snapshot
<1>2. Recorded(mem') = Recorded(mem) \ Kin(Next1)
  BY <1>1 DEF Recorded
<1>. QED  BY <1>1, <1>2 DEF RootItems, Matching

\* What cleanup follows from an item of another key stays the same.
LEMMA RemoveFollow ==
  ASSUME TypeOK, Remove, NEW i \in Items, i \notin Kin(Next1), Next1 \in Items
  PROVE  Follow(i, mem)' = Follow(i, mem)
<1>1. mem'.installed = {e \in mem.installed : e.item \notin Kin(Next1)}
  BY DEF Remove, TypeOK, Snapshot
<1>2. Kin(i) \cap Kin(Next1) = {}
  BY KinFacts
<1>3. \A w : OnRecord(i, w, mem)' = OnRecord(i, w, mem)
  BY <1>1, <1>2 DEF OnRecord
<1>4. \A w : Deps(i, w, mem)' = Deps(i, w, mem)
  BY <1>1, <1>2 DEF Deps, OnRecord
<1>5. Registered' = Registered /\ home' = home
  BY DEF Remove, world, Registered
<1>6. Places(i)' = Places(i)
  BY <1>5, RemoveScanned DEF Places
<1>. QED  BY <1>4, <1>6 DEF Follow

\* Removing a key nobody reaches changes nothing in what is reached.
LEMMA RemoveReachable ==
  ASSUME TypeOK, Weighed, Remove
  PROVE  /\ Index' = Index \ Kin(Next1) /\ Reachable' = Reachable
         /\ Next1 \in Index \ Reachable /\ Kin(Next1) \cap Reachable = {}
<1>1. Next1 \in Index \ Reachable
  BY NextIsLeft DEF Remove, Weighed, Doomed
<1>9. Kin(Next1) \cap Reachable = {}
  BY <1>1, ReachedByName
<1>2. Registered' = Registered /\ file' = file
  BY DEF Remove, world, Registered
<1>3. Index' = Index \ Kin(Next1)
  BY <1>2, RemoveScanned DEF Index
<1>4. ASSUME NEW p \in Registered
      PROVE  Roots(p, Index, mem)' = Roots(p, Index, mem)
  <2>1. Kin(Next1) \cap Roots(p, Index, mem) = {}
    BY <1>9, RootsReached
  <2>2. Roots(p, Index, mem)' = Roots(p, Index \ Kin(Next1), mem')
    <3>1. CASE file[p].state = "roles"
      <4>1. Kin(Next1) \cap ScannedRoles(p) = {}
        BY <2>1, <3>1, RootsHold
      <4>2. ScannedRoles(p)' = ScannedRoles(p)
        <5>1. ScannedRoles(p)' = ScannedRoles(p) \ Kin(Next1)
          BY RemoveScanned
        <5>. QED  BY <4>1, <5>1
      <4>. QED  BY <1>2, <1>3, <4>2, Zenon DEF Roots
    <3>2. CASE file[p].state # "roles"
      <4> DEFINE From(index, s, roles) ==
                   (IF file[p].state = "missing" THEN {}
                    ELSE UNION {RootItems(r, index, s) :
                                  r \in {r \in file[p].roots : ~(file[p].state = "roles") \/ r.admits \cap Roles = {}}})
                   \cup (IF file[p].state = "roles" THEN roles ELSE {})
      <4>1. Roots(p, Index, mem)' = From(Index', mem', ScannedRoles(p)')
        BY <1>2, Zenon DEF Roots
      <4>2. Roots(p, Index \ Kin(Next1), mem') = From(Index', mem', ScannedRoles(p))
        BY <1>3, Zenon DEF Roots
      <4>3. \A index, s, x, y : From(index, s, x) = From(index, s, y)
        BY <3>2
      <4> HIDE DEF From
      <4>. QED  BY <4>1, <4>2, <4>3
    <3>. QED  BY <3>1, <3>2
  <2>3. ASSUME NEW i
        PROVE  i \in Roots(p, Index \ Kin(Next1), mem') <=> i \in Roots(p, Index, mem)
    <3>1. \A r : i \in RootItems(r, Index \ Kin(Next1), mem') <=> i \in RootItems(r, Index, mem) /\ i \notin Kin(Next1)
      BY RemoveRootItems
    <3>2. i \in Kin(Next1) => i \notin Roots(p, Index, mem)
      BY <2>1
    <3>. QED  BY <3>1, <3>2, RootsHold
  <2>4. Roots(p, Index \ Kin(Next1), mem') = Roots(p, Index, mem)
    <3>1. Roots(p, Index \ Kin(Next1), mem') \subseteq Roots(p, Index, mem)
      BY <2>3
    <3>2. Roots(p, Index, mem) \subseteq Roots(p, Index \ Kin(Next1), mem')
      BY <2>3
    <3>. QED  BY <3>1, <3>2
  <2>. QED  BY <2>2, <2>4
<1>5. UNION {Roots(p, Index, mem)' : p \in Registered} = UNION {Roots(p, Index, mem) : p \in Registered}
  BY <1>4
<1> DEFINE roots == UNION {Roots(p, Index, mem) : p \in Registered}
           next == [i \in Index |-> Follow(i, mem)]
           rest == [i \in Index' |-> Follow(i, mem)']
<1>6. Reachable' = Closure(roots, rest) /\ Reachable = Closure(roots, next)
  BY <1>2, <1>5 DEF Reachable
<1>7. roots \in SUBSET Index /\ Index \subseteq Items
  <2>1. PICK p \in Registered : Next1 \in Scanned(p)
    BY <1>1 DEF Index
  <2>. QED  BY <2>1, RootsReached
<1>8. DOMAIN next = Index /\ DOMAIN rest = Index \ Kin(Next1) /\ \A j \in DOMAIN rest : rest[j] = next[j]
  <2>1. \A j \in Index \ Kin(Next1) : Follow(j, mem)' = Follow(j, mem)
    BY <1>1, <1>7, RemoveFollow
  <2>. QED  BY <1>3, <2>1
<1> HIDE DEF roots, next, rest
<1>10. Closure(roots, rest) = Closure(roots, next)
  BY <1>6, <1>7, <1>8, <1>9, ClosureSheds
<1>. QED  BY <1>1, <1>3, <1>6, <1>9, <1>10

-----------------------------------------------------------------------------
(***************************************************************************)
(* The invariant is inductive.                                             *)
(***************************************************************************)
\* A fresh snapshot promises nothing.
LEMMA InitInv == Init => Loaded /\ Kept /\ Weighed /\ Keyed
BY AgeFacts DEF Init, Loaded, Kept, Weighed, Keyed, OneEach, Cleaning, New

\* Between commands only time and a newer binary touch the snapshot, and what
\* they take from it they take from what was promised.
LEMMA UserInv == IInv /\ User => Loaded' /\ Kept' /\ Weighed' /\ Keyed'
<1> SUFFICES ASSUME IInv, User PROVE Loaded' /\ Kept' /\ Weighed' /\ Keyed'
  OBVIOUS
<1>1. pc = "idle" /\ pc' = "idle"
  BY DEF User, Edit, Move, Age, Upgrade, Quiet, world
<1>2. Loaded' /\ Weighed'
  BY <1>1 DEF Loaded, Weighed, Cleaning
<1>4. Keyed'
  <2>1. mem' = mem /\ disk'.installed \in {disk.installed, {}}
    BY DEF User, Edit, Move, Age, Upgrade, New, IInv, TypeOK, Snapshot
  <2>. QED  BY <1>1, <2>1 DEF IInv, Keyed, OneEach
<1>3. Kept'
  <2>1. CASE Age
    <3>1. saved'.installed \subseteq disk'.installed
      BY <2>1 DEF Age, IInv, Kept, TypeOK, Snapshot
    <3>2. ASSUME NEW i \in Items, saved'.warmed[i] <= Retention
          PROVE  disk'.warmed[i] <= saved'.warmed[i]
      <4>1. saved'.warmed = Older(saved.warmed) /\ disk'.warmed = Older(disk.warmed)
        BY <2>1 DEF Age, IInv, TypeOK, Snapshot
      <4>2. saved.warmed[i] \in Nat /\ disk.warmed[i] \in Nat
        BY AgeFacts DEF IInv, TypeOK, Snapshot
      <4>3. saved.warmed[i] <= Retention /\ saved'.warmed[i] = saved.warmed[i] + 1
        BY <3>2, <4>1, <4>2 DEF Older
      <4>4. disk.warmed[i] <= saved.warmed[i]
        BY <4>3 DEF IInv, Kept
      <4>. QED  BY <4>1, <4>2, <4>3, <4>4 DEF Older
    <3>. QED  BY <3>1, <3>2 DEF Kept
  <2>2. CASE Upgrade
    BY <2>2, AgeFacts DEF Upgrade, Kept, New
  <2>3. CASE \/ \E p \in Projects, f \in Files : Edit(p, f)
             \/ \E w \in Workspaces : Move(w)
    BY <2>3 DEF Edit, Move, IInv, Kept
  <2>. QED  BY <2>1, <2>2, <2>3 DEF User
<1>. QED  BY <1>2, <1>3, <1>4

\* A save keeps every record and every warm that was promised.
LEMMA SaveKeeps == IInv /\ Save => Kept'
<1> SUFFICES ASSUME IInv, Save PROVE Kept'
  OBVIOUS
<1>1. /\ disk'.installed = mem.installed
      /\ \A i \in Items : disk'.warmed[i] = IF mem.warmed[i] <= Retention THEN mem.warmed[i] ELSE Never
  BY PersistedType DEF Save, IInv, TypeOK
<1>2. /\ saved'.installed = Put(saved.installed, mem.installed \ disk.installed)
      /\ \A i \in Items : saved'.warmed[i] \in {saved.warmed[i]} \cup (IF mem.warmed[i] = 0 THEN {0} ELSE {})
  BY DEF Save
<1>3. /\ \A e \in disk.installed \ mem.installed : \E f \in mem.installed \ disk.installed : e.item \in Kin(f.item)
      /\ \A i \in Items : mem.warmed[i] <= disk.warmed[i]
  BY DEF Save, IInv, Loaded
<1>4. saved'.installed \subseteq disk'.installed
  BY <1>1, <1>2, <1>3 DEF IInv, Kept, Put
<1>5. ASSUME NEW i \in Items, saved'.warmed[i] <= Retention
      PROVE  disk'.warmed[i] <= saved'.warmed[i]
  <2>1. mem.warmed[i] \in Nat /\ disk.warmed[i] \in Nat /\ saved.warmed[i] \in Nat
    BY AgeFacts DEF IInv, TypeOK, Snapshot
  <2>2. saved.warmed[i] <= Retention => disk.warmed[i] <= saved.warmed[i]
    BY DEF IInv, Kept
  <2>3. mem.warmed[i] <= disk.warmed[i]
    BY <1>3
  <2>4. CASE saved'.warmed[i] = saved.warmed[i]
    BY <1>1, <1>5, <2>1, <2>2, <2>3, <2>4
  <2>5. CASE saved'.warmed[i] # saved.warmed[i]
    BY <1>1, <1>2, <2>1, <2>5
  <2>. QED  BY <2>4, <2>5
<1>. QED  BY <1>4, <1>5 DEF Kept

\* An install keeps one entry per key, and replaces an entry only by a new one.
LEMMA InstallInv ==
  ASSUME IInv, NEW done \in SUBSET job.todo, Install(done)
  PROVE  Loaded' /\ Kept' /\ Weighed' /\ Keyed'
<1>0. Kept /\ Loaded /\ TypeOK /\ Keyed /\ pc = "work" /\ job.todo # {}
  BY DEF IInv, Install
<1>1. PICK w \in {home[p] : p \in job.of} :
         mem' = [mem EXCEPT !.installed = Put(@, {[item |-> i, at |-> w] : i \in done})]
  BY DEF Install
<1> DEFINE new == {[item |-> i, at |-> w] : i \in done}
<1>2. done \subseteq Items /\ w \in Workspaces /\ mem.installed = disk.installed
  BY <1>0, <1>1 DEF TypeOK, Loaded
<1>3. new \in SUBSET Entry /\ mem.installed \in SUBSET Entry
  BY <1>0, <1>2 DEF Entry, TypeOK, Snapshot
<1>4. OneEach(new)
  <2> SUFFICES ASSUME NEW i \in done, NEW j \in done, i \in Kin(j) PROVE i = j
    BY DEF OneEach
  <2>. QED  BY <1>0, <1>2, KinSlot DEF Keyed, OnePerSlot
<1>5. mem'.installed = Put(mem.installed, new) /\ mem'.warmed = mem.warmed
  BY <1>0, <1>1 DEF TypeOK, Snapshot
<1>6. OneEach(mem'.installed)
  BY <1>0, <1>3, <1>4, <1>5, PutKeys DEF Keyed
<1>7. ASSUME NEW e \in disk.installed \ mem'.installed
      PROVE  \E f \in mem'.installed \ disk.installed : e.item \in Kin(f.item)
  <2>1. PICK f \in new : e.item \in Kin(f.item)
    BY <1>2, <1>5, <1>7 DEF Put
  <2>2. f \in mem'.installed
    BY <1>5, <2>1 DEF Put
  <2>3. f \in disk.installed => e = f
    BY <1>0, <2>1 DEF Keyed, OneEach
  <2>. QED  BY <1>7, <2>1, <2>2, <2>3
<1> HIDE DEF new
<1>8. pc' = "work" /\ job'.todo = {} /\ UNCHANGED <<disk, saved>>
  BY <1>0 DEF Install, TypeOK
<1>9. \A i \in Items : mem'.warmed[i] <= disk'.warmed[i]
  BY <1>0, <1>5, <1>8 DEF Loaded
<1>10. Loaded'
  BY <1>7, <1>8, <1>9 DEF Loaded, Cleaning
<1>11. Keyed'
  BY <1>0, <1>6, <1>8 DEF Keyed, OnePerSlot
<1>. QED  BY <1>0, <1>8, <1>10, <1>11 DEF Kept, Weighed

\* Install, warm and lock add to the store they loaded or replace what is in it.
LEMMA CommandInv == IInv /\ Command => Loaded' /\ Kept' /\ Weighed' /\ Keyed'
<1> SUFFICES ASSUME IInv, Command PROVE Loaded' /\ Kept' /\ Weighed' /\ Keyed'
  OBVIOUS
<1> USE DEF Cleaning
<1>0. /\ Kept /\ Loaded /\ TypeOK /\ Keyed /\ \A i \in Items : disk.warmed[i] \in Nat /\ mem.warmed[i] \in Nat
  BY AgeFacts DEF IInv, TypeOK, Snapshot
<1>1. ASSUME NEW p \in Projects, NEW kind \in Kinds, NEW clear \in BOOLEAN, Begin(p, kind, clear)
      PROVE  Loaded' /\ Kept' /\ Weighed' /\ Keyed'
  <2>1. mem'.installed = disk.installed /\ mem'.warmed = disk.warmed
    BY <1>0, <1>1 DEF Begin, Cleared, TypeOK, Snapshot
  <2>. QED  BY <1>0, <1>1, <2>1 DEF Begin, Loaded, Kept, Weighed, Keyed
<1>2. ASSUME NEW S \in SUBSET Items, NEW replay \in BOOLEAN, Plan(S, replay)
      PROVE  Loaded' /\ Kept' /\ Weighed' /\ Keyed'
  <2>1. mem'.installed = mem.installed /\ mem'.warmed = mem.warmed
    BY <1>0, <1>2 DEF Plan, TypeOK, Snapshot
  <2>2. OnePerSlot(job'.todo)
    BY <1>0, <1>2 DEF Plan, Selects, OnePerSlot, TypeOK
  <2>. QED  BY <1>0, <1>2, <2>1, <2>2 DEF Plan, Loaded, Kept, Weighed, Keyed
<1>3. ASSUME NEW done \in SUBSET job.todo, Install(done) PROVE Loaded' /\ Kept' /\ Weighed' /\ Keyed'
  BY <1>3, InstallInv
<1>4. ASSUME NEW done \in SUBSET job.todo, Warm(done) PROVE Loaded' /\ Kept' /\ Weighed' /\ Keyed'
  <2>1. /\ mem'.installed = mem.installed /\ job'.todo = {}
        /\ \A i \in Items : mem'.warmed[i] = IF i \in done THEN 0 ELSE mem.warmed[i]
    BY <1>0, <1>4 DEF Warm, TypeOK, Snapshot
  <2>2. \A i \in Items : mem'.warmed[i] <= disk.warmed[i]
    BY <1>0, <1>4, <2>1 DEF Warm, Loaded
  <2>. QED  BY <1>0, <1>4, <2>1, <2>2 DEF Warm, Loaded, Kept, Weighed, Keyed, OnePerSlot
<1>5. CASE Save
  <2>1. disk'.installed = mem.installed /\ mem'.installed = {}
    BY <1>0, <1>5, PersistedType DEF Save, New, TypeOK
  <2>. QED  BY <1>0, <1>5, <2>1, SaveKeeps DEF Save, Loaded, Weighed, Keyed, OneEach
<1>6. CASE Stop
  BY <1>0, <1>6 DEF Stop, Loaded, Kept, Weighed, Keyed, OneEach, New
<1>. QED  BY <1>1, <1>2, <1>3, <1>4, <1>5, <1>6 DEF Command

\* What is reached depends on the records, the files, the trees and the store.
LEMMA SameReach ==
  UNCHANGED <<world, tree, mem>> => Doomed' = Doomed /\ Index' = Index
BY DEF world, Doomed, Index, Reachable, Registered, Roots, ScannedRoles, Scanned, Opened, Follow, Places

\* Cleanup knows what is still to remove until nothing is.
LEMMA CleanupInv == IInv /\ Cleanup => Loaded' /\ Kept' /\ Weighed' /\ Keyed'
<1> SUFFICES ASSUME IInv, Cleanup PROVE Loaded' /\ Kept' /\ Weighed' /\ Keyed'
  OBVIOUS
<1> USE DEF Cleaning
<1>0. Kept /\ Loaded /\ TypeOK /\ Weighed /\ Keyed
  BY DEF IInv
<1>1. CASE BeginCleanup
  BY <1>0, <1>1 DEF BeginCleanup, NoJob, Loaded, Kept, Weighed, Keyed, TypeOK, Snapshot
<1>2. CASE Weigh
  <2>1. job' = [job EXCEPT !.todo = Doomed] /\ job.removed = {} /\ job'.todo = Doomed /\ job'.removed = {}
    BY <1>0, <1>2 DEF Weigh, Loaded, TypeOK
  <2>2. Doomed' = Doomed /\ Index' = Index
    BY <1>2, SameReach DEF Weigh, world
  <2>3. Weighed'
    BY <1>2, <2>1, <2>2 DEF Weigh, Weighed
  <2>. QED  BY <1>0, <1>2, <2>1, <2>3 DEF Weigh, Loaded, Kept, Keyed
<1>3. CASE Remove
  <2>1. /\ mem'.installed = {e \in mem.installed : e.item \notin Kin(Next1)} /\ mem'.warmed = mem.warmed
        /\ job'.todo = job.todo \ Kin(Next1) /\ job'.removed = job.removed \cup Kin(Next1)
        /\ pc = "remove" /\ pc' = "remove" /\ UNCHANGED <<disk, saved>>
    BY <1>0, <1>3 DEF Remove, TypeOK, Snapshot
  <2>2. Index' = Index \ Kin(Next1) /\ Reachable' = Reachable
    BY <1>0, <1>3, RemoveReachable
  <2>3. Weighed'
    BY <1>0, <2>1, <2>2 DEF Weighed, Doomed
  <2>4. Loaded'
    BY <1>0, <2>1 DEF Loaded
  <2>5. Keyed'
    BY <1>0, <2>1 DEF Keyed, OneEach
  <2>. QED  BY <1>0, <2>1, <2>3, <2>4, <2>5 DEF Kept
<1>4. CASE RemoveFails
  BY <1>0, <1>4 DEF RemoveFails, Loaded, Kept, Weighed, Keyed, OneEach, New
<1>5. CASE Sweep
  <2>1. Doomed' = Doomed /\ Index' = Index
    BY <1>5, SameReach DEF Sweep, world
  <2>. QED  BY <1>0, <1>5, <2>1 DEF Sweep, Loaded, Kept, Weighed, Keyed
<1>6. CASE Finish
  <2>1. saved'.installed = {e \in saved.installed : e.item \notin job.removed} /\ saved'.warmed = saved.warmed
    BY <1>0, <1>6 DEF Finish, TypeOK
  <2>2. mem.installed = {e \in disk.installed : e.item \notin job.removed} /\ mem.warmed = disk.warmed
    BY <1>0, <1>6 DEF Finish, Loaded
  <2>5. mem'.installed = {} /\ pc' = "idle"
    BY <1>6 DEF Finish, New
  <2>3. CASE disk' = disk
    BY <1>0, <1>6, <2>1, <2>3, <2>5 DEF Loaded, Kept, Weighed, Keyed, OneEach
  <2>4. CASE disk' = Persisted(mem)
    <3>1. /\ disk'.installed = mem.installed
          /\ \A i \in Items : disk'.warmed[i] = IF mem.warmed[i] <= Retention THEN mem.warmed[i] ELSE Never
      BY <1>0, <2>4, PersistedType DEF TypeOK
    <3>2. ASSUME NEW i \in Items, saved.warmed[i] <= Retention
          PROVE  disk'.warmed[i] <= saved.warmed[i]
      <4>1. saved.warmed[i] \in Nat /\ mem.warmed[i] \in Nat
        BY <1>0, AgeFacts DEF TypeOK, Snapshot
      <4>2. mem.warmed[i] <= saved.warmed[i]
        BY <1>0, <2>2, <3>2 DEF Kept
      <4>. QED  BY <3>1, <3>2, <4>1, <4>2
    <3>3. Kept'
      BY <1>0, <2>1, <2>2, <3>1, <3>2 DEF Kept
    <3>. QED  BY <1>0, <2>5, <3>1, <3>3 DEF Loaded, Weighed, Keyed, OneEach
  <2>. QED  BY <1>6, <2>3, <2>4 DEF Finish
<1>. QED  BY <1>1, <1>2, <1>3, <1>4, <1>5, <1>6 DEF Cleanup

\* Every step keeps the invariant.
LEMMA NextInv == IInv /\ [Next]_vars => IInv'
<1>1. IInv /\ UNCHANGED vars => Loaded' /\ Kept' /\ Weighed' /\ Keyed'
  <2> SUFFICES ASSUME IInv, UNCHANGED vars PROVE Loaded' /\ Kept' /\ Weighed' /\ Keyed'
    OBVIOUS
  <2>1. Doomed' = Doomed /\ Index' = Index
    BY SameReach DEF vars, world
  <2>. QED  BY <2>1 DEF IInv, Loaded, Kept, Weighed, Keyed, Cleaning, vars
<1>2. IInv => TypeOK
  BY DEF IInv
<1>. QED  BY <1>1, <1>2, NextType, UserInv, CommandInv, CleanupInv DEF Next, IInv

\* The invariant always holds.
THEOREM Invariant == Spec => []IInv
<1>1. Init => IInv
  BY InitType, InitInv DEF IInv
<1>. QED  BY <1>1, NextInv, PTL DEF Spec

-----------------------------------------------------------------------------
(***************************************************************************)
(* What cleanup promises.                                                  *)
(***************************************************************************)
\* A cleanup that came as far as the save has left nothing in a scanned tree
\* that no recorded project reaches (cleanup/remove.go, roles.go): what is still
\* to be removed is at every step what nobody reaches then.
THEOREM UnreachedIsGone == Spec => []NothingUnreachedStays
<1>1. IInv => NothingUnreachedStays
  BY DEF IInv, Weighed, Doomed, Index, NothingUnreachedStays
<1>. QED  BY <1>1, Invariant, PTL

\* Cleanup removes no copy that a recorded project reaches from its own
\* requirements through its own tree (cleanup/reachable.go, roles.go): what one
\* project needs of its own tree is among what all of them reach in all trees, by the
\* records of the roles where there are any.
THEOREM ReachedIsSpared == Spec => SparesTheReached
<1> DEFINE A == pc = "remove" => \A p \in Registered : Own(p) \subseteq tree'[home[p]]
<1>1. IInv /\ [Next]_vars => [A]_vars
  <2> SUFFICES ASSUME IInv, Next, pc = "remove", NEW p \in Registered
               PROVE  Own(p) \subseteq tree'[home[p]]
    OBVIOUS
  <2>1. Own(p) \subseteq tree[home[p]]
    BY OwnIsReached DEF IInv, Scanned, ScannedRoles, Opened
  <2>2. CASE UNCHANGED tree
    BY <2>1, <2>2
  <2>3. CASE Remove \/ RemoveFails
    <3>1. Kin(Next1) \cap Own(p) = {}
      <4>1. Next1 \in Index \ Reachable
        BY <2>3, NextIsLeft DEF IInv, Weighed, Doomed, Remove, RemoveFails
      <4>. QED  BY <4>1, OwnIsReached, ReachedByName DEF IInv
    <3>2. home[p] \in Workspaces
      BY DEF IInv, TypeOK, Registered
    <3>3. tree'[home[p]] \in {tree[home[p]], tree[home[p]] \ Kin(Next1)}
      BY <2>3, <3>2 DEF Remove, RemoveFails
    <3>. QED  BY <2>1, <3>1, <3>3
  <2>4. UNCHANGED tree \/ Remove \/ RemoveFails
    BY DEF Next, User, Command, Cleanup, Edit, Move, Age, Upgrade, Quiet, Begin, Idle, Plan, Install,
           Warm, Save, Stop, BeginCleanup, Weigh, Sweep, Finish
  <2>. QED  BY <2>2, <2>3, <2>4
<1>2. Spec => [][A]_vars
  BY <1>1, Invariant, PTL DEF Spec
<1>. QED  BY <1>2 DEF SparesTheReached

\* The sweep of the extracted store spares what a save warmed within the window
\* and what a save recorded as installed, no later save replaced in the record of its
\* key, and a recorded project still reaches (cleanup/sweep.go, store/snapshot.go).
THEOREM UsedIsSpared == Spec => SweepSparesTheUsed
<1> DEFINE A == pc = "remove" =>
                  \A i \in extracted \ extracted' :
                    /\ saved.warmed[i] > Retention
                    /\ (\E e \in saved.installed : e.item = i) => \A p \in Registered : i \notin Own(p)
<1>1. IInv /\ [Next]_vars => [A]_vars
  <2> SUFFICES ASSUME IInv, Next, pc = "remove", NEW i \in extracted \ extracted'
               PROVE  /\ saved.warmed[i] > Retention
                      /\ (\E e \in saved.installed : e.item = i) => \A p \in Registered : i \notin Own(p)
    OBVIOUS
  <2>1. Sweep
    BY DEF Next, User, Command, Cleanup, Edit, Move, Age, Upgrade, Quiet, Begin, Idle, Plan, Install,
           Warm, Save, Stop, BeginCleanup, Weigh, Remove, RemoveFails, Finish
  <2>2. i \in Items /\ i \notin KeepSet(mem, job.removed)
    BY <2>1 DEF Sweep, IInv, TypeOK
  <2>3. saved.warmed[i] > Retention
    <3>1. saved.warmed[i] \in Nat /\ disk.warmed[i] \in Nat
      BY <2>2, AgeFacts DEF IInv, TypeOK, Snapshot
    <3>2. mem.warmed = disk.warmed /\ ~(mem.warmed[i] <= Retention)
      BY <2>2 DEF KeepSet, Fresh, IInv, Loaded, Cleaning
    <3>3. saved.warmed[i] <= Retention => disk.warmed[i] <= saved.warmed[i]
      BY <2>2 DEF IInv, Kept
    <3>. QED  BY <3>1, <3>2, <3>3
  <2>4. ASSUME NEW e \in saved.installed, e.item = i, NEW p \in Registered, i \in Own(p) PROVE FALSE
    <3>1. e \in disk.installed
      BY <2>4 DEF IInv, Kept
    <3>2. i \in Index
      BY <2>4, OwnIsReached DEF IInv, Index
    <3>3. i \notin job.removed
      BY <3>2 DEF IInv, Weighed
    <3>4. mem.installed = {f \in disk.installed : f.item \notin job.removed}
      BY DEF IInv, Loaded, Cleaning
    <3>. QED  BY <2>2, <2>4, <3>1, <3>3, <3>4 DEF KeepSet, Recorded
  <2>. QED  BY <2>3, <2>4
<1>2. Spec => [][A]_vars
  BY <1>1, Invariant, PTL DEF Spec
<1>. QED  BY <1>2 DEF SweepSparesTheUsed
=============================================================================
