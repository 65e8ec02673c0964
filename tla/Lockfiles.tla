------------------------------ MODULE Lockfiles ------------------------------
(***************************************************************************)
(* galaxy.lock: internal/galaxy/lockfile and the lock commands of          *)
(* internal/galaxy/collections (lock.go, lock_command.go, role_lock.go).   *)
(*                                                                         *)
(* A lock run renders a resolution as a file; hands and merges change the  *)
(* file; lock --check compares it with a fresh resolution; a frozen run    *)
(* takes it in the place of one.  Upstream, the requirements file and the  *)
(* server list change in between.                                          *)
(*                                                                         *)
(* The entries of a file are a set: their order is canonicalised and means *)
(* nothing.  Dependencies are a bag, from names to counts.  Unset is an    *)
(* empty field and Malformed one that no grammar accepts.  A download URL  *)
(* is its server, the artifact it ends in and, when it has one, a suffix.  *)
(***************************************************************************)
EXTENDS Naturals, Sequences, FiniteSets

CONSTANTS
  Projects,            \* what a requirements file may ask for
  ServerLists,         \* server lists: [default, ids], ids from id to base
  Worlds,              \* what the servers and the repositories may hold
  Unresolvable(_, _, _),   \* whether resolving a project under a server list and a world fails,
  ResolutionOf(_, _, _),   \* and else the resolution
  Metadata(_, _, _),   \* sha and url of a version: name, resolved collection, world
  Edits(_)             \* what a hand or a merge may make of a file

VARIABLES
  project, config, world,
  file,       \* the lockfile: <<>> if there is none, else <<its content>>
  checked,    \* what the file was locked for or last passed a check for
  got         \* what the last frozen run made of the file
lockfilesVars == <<project, config, world, file, checked, got>>

Unset == ""
Malformed == "malformed"
Given(v) == v \notin {Unset, Malformed}

-----------------------------------------------------------------------------
\* The file: lockfile.go, roles.go

SchemaVersion == 1
SchemaVersionGit == 2
SchemaVersionRoles == 3
SchemaVersionURL == 4
SchemaVersionDownloadURL == 5

\* Mutant: a file with a role is version 3 even if it has a url entry.
SchemaRolesFirst(entries, roles) ==
  CASE \E e \in entries : e.type = Unset -> SchemaVersionDownloadURL
    [] (\A e \in entries : e.type # Unset) /\ roles # {} -> SchemaVersionRoles
    [] (\A e \in entries : e.type # Unset) /\ roles = {} /\ (\E e \in entries : e.type = "url") -> SchemaVersionURL
    [] OTHER -> SchemaVersionGit

\* The schema follows the content, the highest feature first.
SchemaVersionFor(entries, roles) ==
  CASE \E e \in entries : e.type = Unset -> SchemaVersionDownloadURL
    [] (\A e \in entries : e.type # Unset) /\ (\E e \in entries \cup roles : e.type = "url") -> SchemaVersionURL
    [] (\A e \in entries \cup roles : e.type \notin {Unset, "url"}) /\ roles # {} -> SchemaVersionRoles
    [] roles = {} /\ entries # {} /\ (\A e \in entries : e.type = "git") -> SchemaVersionGit
    [] entries \cup roles = {} -> SchemaVersion

canonical(f) == [f EXCEPT !.schema = SchemaVersionFor(f.collections, f.roles)]

\* Save and Hash: the bytes are as distinct as the canonical content.
Hash(f) == canonical(f)

OncePerName(entries) == \A d, e \in entries : d.name = e.name => d = e

NoGitFields(e) == e.ref = Unset /\ e.commit = Unset /\ e.subdir = <<>>

validateEntryType(e, schema) ==
  \/ /\ e.type = Unset /\ NoGitFields(e)
     /\ schema >= SchemaVersionDownloadURL
     /\ Len(e.url) = 3
  \/ /\ e.type = "git" /\ schema >= SchemaVersionGit
     /\ e.url = <<>> /\ e.sha = Unset
     /\ Given(e.source) /\ Given(e.ref) /\ Given(e.commit) /\ e.subdir # <<Malformed>>
  \/ /\ e.type = "url" /\ schema >= SchemaVersionURL
     /\ e.url = <<>> /\ NoGitFields(e)
     /\ Given(e.source) /\ Given(e.sha)

CommitPin(e) == Given(e.ref) /\ Given(e.commit) /\ e.sha = Unset
NoGalaxyFields(e) == e.galaxy = Unset /\ e.repository = Unset

roleEntryOK(e, schema) ==
  /\ schema >= SchemaVersionRoles
  /\ Given(e.version)
  /\ \/ e.type = "git" /\ CommitPin(e) /\ Given(e.source) /\ NoGalaxyFields(e)
     \/ e.type = "galaxy" /\ CommitPin(e) /\ Given(e.galaxy) /\ Given(e.repository) /\ e.source # Malformed
     \/ /\ e.type = "url" /\ schema >= SchemaVersionURL
        /\ Given(e.source) /\ Given(e.sha) /\ NoGalaxyFields(e)
        /\ e.ref = Unset /\ e.commit = Unset

\* Load accepts the file.
Loadable(f) ==
  /\ f.schema \in SchemaVersion .. SchemaVersionDownloadURL
  /\ OncePerName(f.collections) /\ OncePerName(f.roles)
  /\ \A e \in f.collections :
       Given(e.version) /\ e.source # Malformed /\ validateEntryType(e, f.schema)
  /\ \A e \in f.roles : roleEntryOK(e, f.schema)

-----------------------------------------------------------------------------
\* The comparison: compare.go

comparedFields == {"version", "source", "url", "type", "ref", "commit", "subdir", "sha", "deps"}
comparedRoleFields == {"type", "version", "galaxy", "source", "repository", "ref", "commit", "sha", "deps"}

\* Mutant: dependencies compared as sets.
differsBySet(d, e, fields) ==
  {x \in fields : IF x = "deps" THEN DOMAIN d.deps # DOMAIN e.deps ELSE d[x] # e[x]}

\* sameEntry and Change.Fields: what differs between two entries of one name.
Fields(d, e, fields) == {x \in fields : d[x] # e[x]}

Names(entries) == {e.name : e \in entries}

diffIndexes(before, after, fields) ==
  [added |-> {e \in after : e.name \notin Names(before)},
   removed |-> {e \in before : e.name \notin Names(after)},
   updated |-> {c \in before \X after : c[1].name = c[2].name /\ Fields(c[1], c[2], fields) # {}}]

NoChange == [added |-> {}, removed |-> {}, updated |-> {}]

Compare(before, after) ==
  [server |-> before.server # after.server,
   collections |-> diffIndexes(before.collections, after.collections, comparedFields),
   roles |-> diffIndexes(before.roles, after.roles, comparedRoleFields)]

EmptyDiff(diff) == ~diff.server /\ diff.collections = NoChange /\ diff.roles = NoChange

\* The fields of what a file is parsed into, whoever wrote it.
HasFields(f) ==
  /\ f = [schema |-> f.schema, server |-> f.server, collections |-> f.collections, roles |-> f.roles]
  /\ \A e \in f.collections : e = [x \in comparedFields \cup {"name"} |-> e[x]]
  /\ \A e \in f.roles : e = [x \in comparedRoleFields \cup {"name"} |-> e[x]]
IsFile(files) == files # <<>> => files = <<files[1]>> /\ HasFields(files[1])

-----------------------------------------------------------------------------
\* Locking: lock.go, role_lock.go

pinnedServer(cfg, source) == IF source \in DOMAIN cfg.ids THEN cfg.ids[source] ELSE source
lockedServerBase(cfg, source) == IF source = Unset THEN cfg.default ELSE pinnedServer(cfg, source)

\* The server's own origin, and the file name of this very artifact.
serverArtifactURL(name, version, server, url) == url = <<server, name, version>>

\* A fragment is dropped; a query is refused.
lockableDownloadURL(url) == IF Len(url) = 4 /\ url[4] = "fragment" THEN SubSeq(url, 1, 3) ELSE url

Entry(name, type, version, source, deps) ==
  [name |-> name, type |-> type, version |-> version, source |-> source, url |-> <<>>, ref |-> Unset,
   commit |-> Unset, subdir |-> <<>>, sha |-> Unset, deps |-> deps]

galaxyLockfileEntry(name, col, meta) ==
  [Entry(name, Unset, col.version, col.at, col.deps)
     EXCEPT !.url = lockableDownloadURL(meta.url), !.sha = meta.sha]

\* A ref lost in an old snapshot is replaced by the commit.
gitLockfileEntry(name, col) ==
  [Entry(name, "git", col.version, col.at, col.deps)
     EXCEPT !.ref = IF col.ref = Unset THEN col.pin ELSE col.ref, !.commit = col.pin, !.subdir = col.subdir]

urlLockfileEntry(name, col) == [Entry(name, "url", col.version, col.at, col.deps) EXCEPT !.sha = col.pin]

LockEntry(name, col, w) ==
  CASE col.kind = "galaxy" -> galaxyLockfileEntry(name, col, Metadata(name, col, w))
    [] col.kind = "git" -> gitLockfileEntry(name, col)
    [] col.kind = "url" -> urlLockfileEntry(name, col)

\* What the lock refuses before it writes anything.
Lockable(name, col, cfg, w) ==
  /\ Given(col.version)
  /\ col.kind = "galaxy" =>
       LET e == LockEntry(name, col, w) IN
       /\ e.sha # Malformed
       /\ serverArtifactURL(name, col.version, lockedServerBase(cfg, col.at), e.url)

RoleEntry(name, r, cfg) ==
  LET galaxy == r.kind = "galaxy" IN
  [name |-> name, type |-> r.kind, version |-> r.version,
   galaxy |-> IF galaxy THEN r.galaxy ELSE Unset,
   source |-> CASE ~galaxy -> r.at
                [] galaxy /\ r.server = Unset -> cfg.default
                [] OTHER -> r.server,
   repository |-> IF galaxy THEN r.at ELSE Unset,
   ref |-> IF r.kind = "url" THEN Unset ELSE r.ref,
   commit |-> IF r.kind = "url" THEN Unset ELSE r.pin,
   sha |-> IF r.kind = "url" THEN r.pin ELSE Unset,
   deps |-> r.deps]

\* buildLockfile: one file, or none when there is no resolution or it cannot be locked.
Built(p, cfg, w) ==
  LET r == ResolutionOf(p, cfg, w)
      f == [schema |-> 0, server |-> cfg.default,
            collections |-> {LockEntry(n, r.collections[n], w) : n \in DOMAIN r.collections},
            roles |-> {RoleEntry(n, r.roles[n], cfg) : n \in DOMAIN r.roles}]
  IN IF ~Unresolvable(p, cfg, w) /\ \A n \in DOMAIN r.collections : Lockable(n, r.collections[n], cfg, w)
     THEN {canonical(f)} ELSE {}

-----------------------------------------------------------------------------
\* Frozen runs

Index(entries) == [n \in Names(entries) |-> CHOOSE e \in entries : e.name = n]

\* indexLockfile: an entry without a source is the run's server's.
indexLockfile(f, cfg) ==
  Index({IF e.source = Unset /\ e.type = Unset THEN [e EXCEPT !.source = cfg.default] ELSE e : e \in f.collections})

subdirWithin(subdir, root) ==
  subdir = root \/ (subdir # <<>> /\ SubSeq(subdir, 1, Len(subdir) - 1) = root)

lockedFromGitRoot(e, root) == e.type = "git" /\ e.source = root.at /\ subdirWithin(e.subdir, root.subdir)

\* Mutant: the ref is not compared.
verifyGitAnyRef(root, idx) ==
  IF \E n \in DOMAIN idx : lockedFromGitRoot(idx[n], root) THEN {TRUE} ELSE {FALSE}

\* The entries are met in the map's order: a named root is content as soon as
\* it meets its own, and refuses the first with another ref that it meets.
verifyGitRoot(root, idx) ==
  LET from == {n \in DOMAIN idx : lockedFromGitRoot(idx[n], root)}
      drifted == {n \in from : idx[n].ref # root.ref}
      own == from \cap {root.name}
  IN (IF own \ drifted # {} \/ (root.name = Unset /\ from # {} /\ drifted = {}) THEN {TRUE} ELSE {})
     \cup (IF drifted # {} \/ from = {} \/ (root.name # Unset /\ own = {}) THEN {FALSE} ELSE {})

verifyURLRoot(root, idx) ==
  {\E n \in DOMAIN idx : /\ idx[n].type = "url" /\ idx[n].source = root.at
                         /\ root.version # Unset => idx[n].version = root.version}

verifyGalaxyRoot(root, idx) == {root.name \in DOMAIN idx /\ idx[root.name].version \in root.admits}

verifyRoot(root, idx) ==
  CASE root.kind = "git" -> verifyGitRoot(root, idx)
    [] root.kind = "url" -> verifyURLRoot(root, idx)
    [] root.kind = "galaxy" -> verifyGalaxyRoot(root, idx)

verifyRoleRoot(root, idx) ==
  /\ root.name \in DOMAIN idx
  /\ LET e == idx[root.name] IN
     CASE root.kind = "galaxy" -> /\ e.type = "galaxy" /\ e.galaxy = root.src
                                  /\ root.version # Unset => e.version = root.version
       [] root.kind = "git" -> e.type = "git" /\ e.source = root.src /\ e.ref = root.version
       [] root.kind = "url" -> /\ e.type = "url" /\ e.source = root.src
                               /\ root.version # Unset => e.version = root.version

\* What an install works from: a collection's identity, pins and graph edges.
Collection(e, idx, verifying) ==
  [kind |-> IF e.type = Unset THEN "galaxy" ELSE e.type,
   version |-> e.version, at |-> e.source, subdir |-> e.subdir, ref |-> e.ref, commit |-> e.commit,
   sha |-> e.sha, url |-> IF verifying THEN <<>> ELSE e.url,
   edges |-> {<<d, idx[d].version>> : d \in DOMAIN e.deps \cap DOMAIN idx}]

materializeLockfile(idx, verifying) == [n \in DOMAIN idx |-> Collection(idx[n], idx, verifying)]

\* resolvedRoleFromLockfile
Role(e) ==
  [kind |-> e.type, version |-> e.version, galaxy |-> e.galaxy,
   server |-> IF e.type = "galaxy" THEN e.source ELSE Unset,
   at |-> IF e.type = "galaxy" THEN e.repository ELSE e.source,
   ref |-> e.ref, pin |-> IF e.type = "url" THEN e.sha ELSE e.commit, deps |-> DOMAIN e.deps]

Refusal(verdict) == [verdict |-> verdict, collections |-> <<>>, roles |-> <<>>]

checkLockedDownloadURLs(idx, cfg) ==
  \A n \in DOMAIN idx :
    idx[n].type = Unset => serverArtifactURL(n, idx[n].version, lockedServerBase(cfg, idx[n].source), idx[n].url)

\* resolveFromLockfile and resolveRolesFromLockfile: what the run may do.
Frozen(files, p, cfg, verifying) ==
  IF files = <<>> THEN {Refusal("missing")}
  ELSE IF ~Loadable(files[1]) THEN {Refusal("invalid")}
  ELSE
    LET f == files[1]
        idx == indexLockfile(f, cfg)
        roles == Index(f.roles)
        accepts == /\ \A r \in p.roots : TRUE \in verifyRoot(r, idx)
                   /\ \A r \in p.roles : verifyRoleRoot(r, roles)
        refuses == \/ \E r \in p.roots : FALSE \in verifyRoot(r, idx)
                   \/ \E r \in p.roles : ~verifyRoleRoot(r, roles)
    IN (IF refuses THEN {Refusal("mismatch")} ELSE {})
       \cup (IF accepts /\ ~checkLockedDownloadURLs(idx, cfg) THEN {Refusal("invalid")} ELSE {})
       \cup (IF accepts /\ checkLockedDownloadURLs(idx, cfg)
             THEN {[verdict |-> "ok", collections |-> materializeLockfile(idx, verifying),
                    roles |-> [n \in DOMAIN roles |-> Role(roles[n])]]}
             ELSE {})

-----------------------------------------------------------------------------
\* The commands and what happens between them

Here == [project |-> project, config |-> config, world |-> world]

Lock ==
  /\ \E f \in Built(project, config, world) : file' = <<f>>
  /\ checked' = <<Here>> /\ got' = <<>>
  /\ UNCHANGED <<project, config, world>>

\* lockCheck's verdict: the file is there, loads and is what lock would write.
Passes ==
  /\ file # <<>> /\ Loadable(file[1])
  /\ \E f \in Built(project, config, world) : EmptyDiff(Compare(file[1], f))

LockCheck ==
  /\ Passes
  /\ checked' = <<Here>>
  /\ UNCHANGED <<project, config, world, file, got>>

InstallFrozen ==
  /\ got = <<>>
  /\ \E verifying \in BOOLEAN : \E o \in Frozen(file, project, config, verifying) :
       got' = <<[outcome |-> o, verifying |-> verifying]>>
  /\ UNCHANGED <<project, config, world, file, checked>>

EditFile ==
  /\ \E f \in Edits(file) : IsFile(f) /\ file' = f
  /\ checked' = <<>> /\ got' = <<>>
  /\ UNCHANGED <<project, config, world>>

ChangeProject ==
  /\ \E p \in Projects \ {project} : project' = p
  /\ got' = <<>> /\ UNCHANGED <<config, world, file, checked>>

ChangeConfig ==
  /\ \E c \in ServerLists \ {config} : config' = c
  /\ got' = <<>> /\ UNCHANGED <<project, world, file, checked>>

ChangeWorld ==
  /\ \E w \in Worlds \ {world} : world' = w
  /\ UNCHANGED <<project, config, file, checked, got>>

LockfilesInit ==
  /\ project \in Projects /\ config \in ServerLists /\ world \in Worlds
  /\ file = <<>> /\ checked = <<>> /\ got = <<>>

LockfilesNext == Lock \/ LockCheck \/ InstallFrozen \/ EditFile \/ ChangeProject \/ ChangeConfig \/ ChangeWorld
LockfilesSpec == LockfilesInit /\ [][LockfilesNext]_lockfilesVars

-----------------------------------------------------------------------------
\* What a resolution is

\* A root of the requirements is met,
RootMet(root, r) ==
  CASE root.kind = "galaxy" -> root.name \in DOMAIN r.collections /\ r.collections[root.name].version \in root.admits
    [] root.kind = "git" -> \E n \in DOMAIN r.collections :
         /\ r.collections[n].kind = "git" /\ r.collections[n].at = root.at
         /\ subdirWithin(r.collections[n].subdir, root.subdir)
         /\ root.name \in {Unset, n}
    [] root.kind = "url" -> \E n \in DOMAIN r.collections :
         /\ r.collections[n].kind = "url" /\ r.collections[n].at = root.at
         /\ root.version \in {Unset, r.collections[n].version}
RoleRootMet(root, r) ==
  /\ root.name \in DOMAIN r.roles
  /\ LET role == r.roles[root.name] IN
     /\ role.kind = root.kind
     /\ root.kind = "galaxy" => role.galaxy = root.src
     /\ root.kind # "galaxy" => role.at = root.src
     /\ root.kind = "git" => role.ref = root.version
     /\ root.kind # "git" => root.version \in {Unset, role.version}

\* nothing comes from a repository or a url but by a root, and every
\* dependency is there.
CollectionKnown(col, p, r) ==
  /\ Given(col.at) /\ DOMAIN col.deps \subseteq DOMAIN r.collections
  /\ \/ col.kind = "galaxy" /\ \A c \in ServerLists : col.at \notin DOMAIN c.ids
     \/ /\ col.kind = "git" /\ Given(col.pin) /\ Given(col.ref) /\ col.subdir # <<Malformed>>
        /\ \E root \in p.roots : root.kind = "git" /\ root.at = col.at /\ root.ref = col.ref
     \/ /\ col.kind = "url" /\ Given(col.pin)
        /\ \E root \in p.roots : root.kind = "url" /\ root.at = col.at
RoleKnown(role) ==
  /\ Given(role.version) /\ Given(role.at) /\ Given(role.pin)
  /\ \/ role.kind = "url"
     \/ role.kind = "git" /\ Given(role.ref)
     \/ role.kind = "galaxy" /\ Given(role.ref) /\ Given(role.galaxy) /\ role.server # Malformed

ASSUME LockfilesAssumption ==
  /\ \A c \in ServerLists : c.default # Malformed
  /\ \A p \in Projects : /\ \A root \in p.roots : root.kind \in {"galaxy", "git", "url"}
                         /\ \A root \in p.roles : root.kind \in {"galaxy", "git", "url"}
  /\ \A p \in Projects, c \in ServerLists, w \in Worlds :
       ~Unresolvable(p, c, w) =>
       LET r == ResolutionOf(p, c, w) IN
       /\ \A root \in p.roots : RootMet(root, r)
       /\ \A root \in p.roles : RoleRootMet(root, r)
       /\ \A n \in DOMAIN r.collections : CollectionKnown(r.collections[n], p, r)
       /\ \A n \in DOMAIN r.roles : RoleKnown(r.roles[n])

\* No requirements file asks for two refs of one repository.
OneRefEach ==
  \A p \in Projects : \A q, root \in p.roots :
    q.kind = "git" /\ root.kind = "git" /\ q.at = root.at => q.ref = root.ref

-----------------------------------------------------------------------------
\* Properties

\* A frozen run installs what was resolved at a moment, with the digests and
\* the addresses that the servers answered then.
Honours(o, at, verifying) ==
  LET r == ResolutionOf(at.project, at.config, at.world)
      Same(n) ==
        LET c == r.collections[n]
            g == o.collections[n]
            meta == Metadata(n, c, at.world)
        IN /\ g.kind = c.kind /\ g.version = c.version /\ g.at = c.at
           /\ g.edges = {<<d, r.collections[d].version>> : d \in DOMAIN c.deps}
           /\ c.kind = "galaxy" => g.sha = meta.sha /\ (verifying \/ g.url = <<c.at, n, c.version>>)
           /\ c.kind = "git" => g.commit = c.pin /\ g.subdir = c.subdir /\ g.ref = c.ref /\ g.sha = Unset
           /\ c.kind = "url" => g.sha = c.pin
      SameRole(n) ==
        LET c == r.roles[n]
            g == o.roles[n]
        IN /\ g.kind = c.kind /\ g.version = c.version /\ g.at = c.at /\ g.pin = c.pin /\ g.deps = DOMAIN c.deps
           /\ c.kind # "url" => g.ref = c.ref
           /\ c.kind = "galaxy" => g.galaxy = c.galaxy /\ (c.server = Unset \/ g.server = c.server)
  IN /\ o.verdict = "ok"
     /\ DOMAIN o.collections = DOMAIN r.collections /\ \A n \in DOMAIN r.collections : Same(n)
     /\ DOMAIN o.roles = DOMAIN r.roles /\ \A n \in DOMAIN r.roles : SameRole(n)

\* A frozen run over a file that lock wrote, or that passed lock --check, and
\* over the same requirements, is not refused and installs the very resolution
\* of that moment: versions, sources, pins and graph, whatever was published
\* or configured since (docs/ci.md: install exactly the locked versions).
CheckedIsHonoured ==
  checked # <<>> /\ got # <<>> /\ checked[1].project = project
    => Honours(got[1].outcome, checked[1], got[1].verifying)

\* lock --check passes exactly the files that lock would not change: for a file
\* that loads, no difference means an equal hash (compare.go, Compare).
CompareIsHash ==
  file # <<>> /\ Loadable(file[1]) =>
    \A f \in Built(project, config, world) : EmptyDiff(Compare(file[1], f)) <=> Hash(file[1]) = Hash(f)

\* A frozen run that is not refused was asked for what the file was locked
\* for: a git root's repository and ref and a url root's address are among
\* those of the lock run, a role from a repository was resolved from it at that
\* ref, and the versions asked for are those installed.
FrozenKeepsTheAsk ==
  checked # <<>> /\ got # <<>> /\ got[1].outcome.verdict = "ok" =>
    LET then == checked[1].project
        was == ResolutionOf(then, checked[1].config, checked[1].world).roles
        cols == got[1].outcome.collections
    IN /\ \A r \in project.roots :
            CASE r.kind = "git" -> \E q \in then.roots : q.kind = "git" /\ q.at = r.at /\ q.ref = r.ref
              [] r.kind = "url" ->
                   /\ \E q \in then.roots : q.kind = "url" /\ q.at = r.at
                   /\ r.version # Unset => \E n \in DOMAIN cols : cols[n].at = r.at /\ cols[n].version = r.version
              [] r.kind = "galaxy" -> cols[r.name].version \in r.admits
       /\ \A r \in project.roles : r.kind = "git" =>
            /\ r.name \in DOMAIN was /\ was[r.name].kind = "git"
            /\ was[r.name].at = r.src /\ was[r.name].ref = r.version
=============================================================================
