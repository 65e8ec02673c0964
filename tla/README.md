# A verification development of go-galaxy

go-galaxy installs Ansible collections and roles. It resolves what a
requirements file asks for, fetches the artifacts, keeps them in a cache that
other runs share (a directory, or an S3 bucket), unpacks them once into a
content-addressed store, and links or copies the trees into the project. This
directory holds TLA+ models of the parts of that program whose correctness
depends on what happens at the same time, in which order, in which earlier run,
or after something failed; TLC checks them on small instances, and TLAPS proves
the most important theorems for every instance. Paths below are relative to the
repository.

Every definition is translated from the Go code. `PROJECT.json` maps each one to
the lines it stands for, and lists the hazards of the code, the properties that
cover them, and the mutations of the models (plausible bugs: a dropped check, a
missing wait, a swapped order) that each property was seen to catch.

## The system

| Component | State it keeps | Operations | Hard behaviour | What makes it correct |
|---|---|---|---|---|
| S3 cache lock (`internal/cache/s3/lock.go`) | one object with a token and a deadline; the holder's heartbeat, loss flag and context | acquire (create, reclaim, read back), refresh, release | several processes, clocks, suspended processes, lost answers, writes that land late, kills | one holder at a time while timings hold; no live lock is taken over; every wait ends; nothing left behind |
| Extracted store (`internal/galaxy/extracted`) | trees by digest, ready markers, temp trees, one mutex per digest | Ensure, IngestReader, Promote, Discard, Sweep, SweepTemp | concurrent workers, a download unpacked while it streams, kills, failed removals | a ready tree is whole and is what its name says; a tree in use stays |
| Run lifecycle (`collections/run.go`, `install_command.go`, `warm_command.go`, `cmd/go-galaxy/main.go`) | the open backend, the lock, the error of the run | lock, load, plan, install levels and roles, save, close, release, exit code | signals and lock loss at any point, deferred cleanups in a fixed order | exit 0 means done and saved; workers end before the lock is given back |
| Prefetcher (`collections/prefetch.go`) | a task and a channel per artifact, downloads nobody took | schedule, finish, Wait, Close | two pools that wait for each other, temp files with two possible owners | no wait in vain, each temp file removed exactly once |
| Git and url discovery, roles (`collections/git_discovery.go`, `url_discovery.go`, `role_resolve.go`, `galaxyv1`) | pins of what a ref or an address meant; under `--no-cache`, the builds they own | expand a root, resolve the levels of a role graph, look a Galaxy role up, fetch, build, install | parallel requests that meet in one map; upstream that moves between two of them; runs that fail after a pin was written | a pin holds until it is refreshed; offline repeats; what is installed is what was read; no build outlives the run |
| Collection install (`collections/install.go`, `marker.go`, `galaxy_info.go`) | artifact, sidecar, tree, marker, record | skip check, fetch, verify, recover once, extract, record | state written at different times, kills between the writes, corrupt cache entries | a skip is safe; an eviction happens once; a pin never installs other bytes |
| Resolution front end (`collections/resolve.go`, `provider.go`, `metadata.go`) | the last resolution and what it was asked; caches of answers | replay, merge, solve; bind a collection to a server, list, read dependencies | several servers, any of which may fail; answers of different ages; flags that change what an answer means | a plan meets the requirements; a collection comes from the server that owns it; a refresh sees what is published |
| Solver (`internal/galaxy/solver`), version sets (`verset.go`, `versetbuild.go`) | incompatibilities, partial solution; intervals of versions | propagate, decide, resolve conflicts; build, meet, join, negate | backjumping; bounds that touch, prereleases, the successor of a segment | a solution satisfies every constraint; failure only when none exists; a set is what the library says |
| Snapshot, registry, cleanup (`internal/galaxy/store`, `internal/galaxy/cleanup`) | records of installs, warmed entries, projects | save, load, register, remove what nobody reaches | evidence written by other projects, corrupt or missing files | nothing that is still in use is removed; nothing unused stays |
| Lockfile (`internal/galaxy/lockfile`, `collections/lock.go`) | a file that people edit and merge | lock, check, diff, frozen install | upstream, servers and requirements change around the file | what was locked or checked is what a frozen run installs |
| Requests (`internal/galaxy/fetch`, `internal/galaxy/cache`, `internal/cache/s3/client.go`) | attempts, budgets, one error | try, retry, stall, give up, classify | four reasons to end one read, in any order | only a signal exits as interrupted; a worker's wrong digest always alarms; the run ends |
| Local cache backend (`internal/cache/local`) | artifacts with digest sidecars, a file lock | commit, fetch, delete, sweep | kills between two renames | a pair of files never lies silently |
| Signatures, archives, builds, configuration, reports | files and values | parse, compare, judge, render | little concurrency | data; not modelled |

The components meet in few places. Every command that writes goes through
`withBackend`: it opens the backend, takes the cache lock (`S3Lock` when the
cache is a bucket, a file lock otherwise), runs the work under the *holder
context* that the heartbeat cancels on a loss, and closes and releases in that
order. Inside the work, discovery expands git and url roots, the resolution front
end feeds the solver and turns its answer into a plan, install workers call the
prefetcher and the discovery memo for temp files, the extracted store for trees,
and the in-memory store for records, which the run saves at its end; a frozen run
takes the lockfile in the place of discovery and resolution. Each request any of
them makes goes through the same retry loop. Cleanup takes the same lock, so that
its sweep of the extracted store never meets a run's workers.

## Modules

| Module | Models | State and actions |
|---|---|---|
| `S3Lock` | `lock.go`, all of it, with S3 as an environment | `obj` is the lock object, `late` the requests S3 may still apply, `pc[r]` where a run's acquisition, work or release is, `hb[r]` its heartbeat goroutine, `cause[r]` why its holder context ended, `interrupted[r]` whether its caller's, the parent of that, did. One action per request and outcome, so that another run, time, or a kill comes between any two |
| `S3LockPrompt` | the environment the timings are chosen for | the same steps, restricted: no process sleeps past its own deadline, no abandoned request lands, at most `MaxMissed` refreshes fail in a row |
| `ExclusiveLock` | what `cache/backend.go` promises of `Lock` | a set of holders, of at most one |
| `ExtractedStore` | `extracted/store.go`, the streamed download of `install.go`, the sweep of `cleanup/sweep.go` | the disk (`entry`, `shaTmp`, `ingest`, `orphan`), the per-digest mutexes, and each worker's position and locals. Each action is a file-system call or a step of the pipe between a download and its untar |
| `ContentStore` | what the store is for: a set of contents, some of them held | put, take, release, drop |
| `InstallRun` | one run of `install` or `warm` | `phase` is the main goroutine; `st` the items of the worker pools, `pf` the prefetch tasks; `shelf`, `memo`, `hand` are the owners of temp files and `files` the disk; `caught`, `canceled`, `lost` the ways the run can be cut short; `errs` and `exit` its result |
| `CollectionInstall` | `install.go`, `marker.go`, `extract.go`: what successive runs over one cache do to one collection | `slot` and `label` are the cached artifact and its digest, `cas` the extracted store, `tree`, `whole`, `mark` and `yml` the project, `snap` and `mem` the records; `pc` is where the run's worker is and `got`, `named`, `own`, `hit` its payload. One action per file written, so that a kill comes between any two |
| `Solver` | `internal/galaxy/solver` without its report | `incs` is the store of incompatibilities, `asg` the partial solution, `level` its decisions, `changed`, `pkg` and `at` the worklist and the scan, `conflict` what is being resolved, `attempt` a decision whose dependencies are being added, `registry` what is published. One action per step: a derivation, a resolution, a backjump, a decision, a dependency |
| `VersionSets` | `verset.go`, `versetbuild.go` and the operand parsing of the semver library they follow | operators: comparators, the interval lists built from them, and the set algebra; `MCVersionSets` walks through the constraints |
| `Resolution` | `resolve.go`, `provider.go`, `solve.go`, `metadata.go`, `deps.go`, the API cache and its policies: what successive runs make of one requirements file | `serves` is what the servers publish, `disk` and `st` the snapshot on disk and in the run (the root documents, version documents and dependencies it caches, the last resolution), `run` the flags and the stage, `asked` what this solve was answered, `result` the plan. Actions for a prewarm fetch, a listing, a version's dependencies, the end of a solve, the save |
| `Discovery` | `git_discovery.go`, `url_discovery.go`, `git_fetch.go`, `role_*.go`, `galaxyv1` | `tip` and `tags` are upstream, `saved` and `pins` the pins on disk and in the run, `arts` the cached artifacts, `disk` what is installed; `level` the requests being resolved at once, `work` where each is, `found` what is resolved. One action per step of a request: replay, look-up, resolve, fetch, build, read dependencies |
| `Lockfiles` | `internal/galaxy/lockfile`, `lock.go`, `lock_command.go`, `role_lock.go` | `file` is the lockfile, `project`, `config` and `world` what it is made from, `checked` what it was last locked or checked for, `got` what a frozen run made of it. Actions: lock, check, frozen install, an edit, a change of the rest |
| `Registry` | `internal/galaxy/store`, `internal/galaxy/cleanup`, and what install, warm and lock write there | `recorded` is `projects.json`, `disk` and `mem` the snapshot (a role recorded by its install name alone), `tree` the install paths, `extracted` the shared store; `pc` and `job` the running command. Cleanup is three actions (weigh the evidence, remove, save), so that it may be killed between them |
| `Attempts` | `fetch/watchdog.go`, `fetch/client.go`, `cache/retry.go`, `cache/statedeadline.go`, `collections/deadline.go`, `s3/retry.go`, `helpers/retry.go`, `exitcode.go` | `op[o]` is an operation: where its request is, its context and its error, which is the *set* of sentinels `errors.Is` finds in it; `stage` the run, `outcome` and `verdict` its end. An artifact is downloaded ahead by the prefetcher (request 0), whose error is a warning, or by its worker (request 1), which downloads again after one |
| `MC...` (one per run) | instances for TLC | |
| `S3LockProofs`, `ExtractedStoreProofs`, `CollectionInstallProofs`, `SolverProofs`, `InstallRunProofs`, `UpstreamProofs`, `RegistryProofs`, `ResolutionProofs` | the theorems; `UpstreamProofs` has those of `Attempts` and `Discovery`, `ResolutionProofs` those of `Resolution` and `Lockfiles` | |

The modules compose by contract. `ExclusiveLock` is what `InstallRun` (`held`),
`CollectionInstall` and `Registry` (serialized commands) assume of `S3Lock`;
`ContentStore` is what `CollectionInstall` (`cas`) and `Registry` (`extracted`)
assume of `ExtractedStore`; `Resolution` takes a solver that answers as
`ResultIsSelection` and `FailsOnlyIfNone` say; `Solver` takes version sets that
are sets, which is `AlgebraIsExact`; and `InstallRun`'s errors are classified as
`Attempts` says.

Operators whose comment begins with *Mutant* are not part of any specification:
they are the mutations the properties are tried against.

### Abstractions

* **Locks.** A signal ends the caller's context at any moment (`Interrupt`): an
  acquisition is then over at its next step, whichever check or request meets it, and
  a holder's context, which derives from the caller's, keeps that cause even when the
  heartbeat, which goes on until the release, finds a loss later. An S3 ETag is the digest of the lock's body, which repeats token and
  deadline, so two lock objects have one ETag exactly when they are equal: the
  model compares objects. All runs read one clock; a skew of d between machines
  acts like a lease shorter by d. Digests and artifacts are model values, and a
  tarball's digest is itself.
* **Store and run.** Materializing a tree into the install path is one step of
  `ExtractedStore` (what matters there is that the tree stays until it is over),
  and what one worker does to its collection is one step of `InstallRun`, whose
  errors are of three kinds, as much as the exit code of these paths depends on:
  a cancellation, contention, any other. The dry run and the recovery of a
  refused artifact are left out of it.
* **`CollectionInstall`** has one worker, one collection and one install
  directory: workers of one run never share a collection, and runs over one cache
  are serialized by its lock. A tree is the artifact it was unpacked from and
  whether all of it is there; a marker is the tally of a tree (the number of its
  entries and directories, and its bytes), which several trees may share. What a
  tree lacks after files were lost may give it any tally but its own.
* **`Solver`.** A version is its rank in the order the solver sorts a universe in,
  a version set the set of points in semver precedence it contains, with the
  version it was built from if there is one. An accumulation is computed from the
  assignments, as `rebuildPackageAssignments` does. A provider call that fails,
  and a canceled context, may end the search at any decision (`Abort`). A package
  that lists itself as a dependency is left out, and so are the two iteration
  limits (`fuelLimit`, and 10,000 resolutions): `SolveEnds` says that they are
  not needed.
* **`VersionSets`** has the library's operands after lexing; a segment is a small
  number, so that the overflow of a successor does not occur in its run (see
  Disagreements).
* **`Resolution`.** Servers only gain versions, and only between two runs. The root
  document and the versions list of a collection are one document; the API roots
  of one server count as one; paging is in `Attempts`. At most one server fails per
  question. The solver is an oracle that answers with any selection, or fails when
  there is none. Installing, between `Finish` and `Save`, is left out, and so are
  git and url roots. A server list changes from both servers to one and back, and
  the flags are used one at a time. An exact pin under `--no-deps` that names no
  server takes the first one unasked, and a merged resolution may keep a
  collection from a server that only a removed root pinned it to: the properties
  speak of what a solve decides.
* **`Discovery`.** What a role depends on is a function of its source and number;
  answers of the v1 API are not cached; no two names compare equal component by
  component. Two requests of the run that share a pin share one that does not move
  (`PinsApart`, disagreement 10): no two role names have a moving ref in common, a
  url has one label, and two roots of a file never fetch one moving ref each for
  itself. Collections from Galaxy are in `Resolution`; the dry run
  and the differences of `lock` and `warm` are not modelled here.
* **`Lockfiles`.** The entries of a file are a set, because lock and parse put them
  in order; the dependencies of one are a bag, a line written twice being an
  error of its own. A field is a value, `Unset` or `Malformed`. A url is the server,
  the artifact and perhaps a suffix. A git collection carries the ref it was
  resolved at. What a resolution is, where there is one,
  is `LockfilesAssumption`. A root from Galaxy is matched by its name and version alone, as in
  the code.
* **`Registry`.** A role is an install name at a version; records, requirements and
  dependencies know it by the name (`Kin`), so that a record replaces that of another
  version, a root or a dependency keeps whatever copy goes by the name, and a removal
  takes them all. What cleanup follows from a scanned role is the record for its
  directory, if there is one (`Deps`), which need not be that of the version in place.
  One name and version has one content, for collections and for roles: sources that
  publish different bytes under one would share a record as two versions of a role do
  (disagreement 12). The artifact digest of a record is its item, and a role's own
  metadata can be read. A run whose project could not be recorded goes on with a warning
  and is not in the registry. Requirements are edited between commands. There is
  one health (readable, lost or corrupt) per install path and a sweep removes all
  it wants or nothing: `ExtractedStore` has the half-way one. A corrupt registry or
  snapshot means that the command does not start. Stamps in the future and the
  sweep of legacy artifacts are left out. The pin of a git or url source is shared
  by every project: once it moved, cleanup removes a copy of an older commit that
  another project still has; the properties speak of what a project reaches
  under the current pins.
* **`Attempts`.** The classes of errors other than an interrupt, contention, an
  integrity failure and success are one, "failed". Pages and prewarm fetches come
  one at a time, downloads side by side. Every artifact's worker starts, where a
  cancelled run stops to dispatch them (`InstallRun`); a prefetch that fails before its
  download is one that did not take place. Cache hits and commits are in
  `CollectionInstall`.

## Runs

| Run | Checks | Instance |
|---|---|---|
| `S3LockPrompt` | `MutualExclusion`, `ObservedMeansHeld`, `LeavesNoOrphan`, the refinement `IsExclusiveLock` | two runs, one kill, two failed requests, one refresh that may miss |
| `S3LockPaused` | `LossIsTheCause`, `TakesNoLiveLock`, `WaitEnds`, when processes sleep and writes land late | two runs, one late write, one kill, one failed request; signals at any moment |
| `ExtractedStore` | `ReadyMeansWhole`, the refinement `IsContentStore`, `JobsEnd` | two digests, two workers, two artifacts, one kill or half-way removal |
| `InstallRun` | `JoinedBeforeRelease`, `OkMeansDone`, `TempsReclaimed`, `RunEnds`, `LossReported` | two git roots, three collections of which one needs another (or a cycle), one role, two workers, one download worker |
| `CollectionInstall` | `MarkersTellTruth`, `OkMeansInstalled`, `PinGuardsTree`, `CacheIsKept` | two versions, one of them at two servers; two artifacts whose trees have one tally and a third that does not unpack; two runs, one fault; either backend, any mode and pin, and a cache that another project may have filled |
| `Solver` | `FailsOnlyIfNone`, `ResultIsSelection`, `SolveEnds` | three packages with up to two published versions each and one that is never published; 1332 registries |
| `VersionSets` | `AgreesWithCheck`, `AlgebraIsExact` | every comparator over segments 0, 1 and x and three prereleases, alone, with a second that must hold too, or with one as an alternative |
| `Resolution` | `PlanMeetsRequirements`, `AnsweredByItsServer`, `DepsAreTheServersOwn`, `RefreshSeesTheCurrent` | two collections, two versions, two servers that publish different things; three runs over three requirements files and six ways to call them; one change of the world |
| `Discovery` | `PinHolds`, `OfflineRepeats`, `InstalledIsRead` | two git repositories and a tagged one, two urls, role dependencies in a circle; three runs in four modes, two outside events |
| `Lockfiles` | `CheckedIsHonoured`, `CompareIsHash`, `FrozenKeepsTheAsk` | six projects, two server lists, eight states of the servers, one edit or merge of the file |
| `Registry` | `NothingUnreachedStays`, `SparesTheReached`, `SweepSparesTheUsed` | two projects with install paths of their own or a shared one, a collection, a repository with two versions of another, a role of two versions of which one needs a second role; three commands, one event |
| `Attempts` | `NoFalseInterrupt`, `MismatchAlarms`, `RunJudged` | two artifacts side by side, each prefetched or not, two tries, two requests each |

Each property was seen to fail when the model is changed as a plausible bug would
change it; the changes are listed under "mutants".

**Bounds.** The lock needs two runs for every race it has: its state is one object,
and a third run can only repeat what the second does to the first. The time
bounds let one run acquire, lose its lease, and a second acquire after it. Two
digests and two workers in the store let workers meet on one digest by either
route (a file or a stream) while a different digest is unaffected; one chunk is
enough to have the untar end before, during and after the copy. In `InstallRun`,
one download worker with three artifacts makes install workers hold every slot
while the artifact they wait for is still queued, which is where a deadlock would
be. In `CollectionInstall` a second run meets everything a first one can leave, a
fault included; `Shared` says which keys another project may have cached and
`Pins` what lockfiles pin, both so as to have a right and a wrong one. In
`Solver` nothing is bounded but the registries: three packages are the fewest in
which a conflict is resolved through another package's cause and jumps over a
decision that had no part in it, and two published versions beside one that is not
give constraints that are met by every, some or no version. `Top` = 2 in
`VersionSets` leaves a version above every bound an operand can name. `Resolution`
and `Discovery` have a first run that leaves state, a second that changes it, and a
third that meets both; the hub of `Resolution` lacks what the mirror has, so that
each order of the servers answers differently, and the circle of roles in
`Discovery` passes through one that asks for an older commit of the first. The
edits of `Lockfiles` are one field, one line, the header, or the collections of any
other lock that these projects could have written. In `Registry`, the two projects
reach, keep and lose copies under one install path or under two; three commands are
an install, one that changes what is needed, and a cleanup; `Retention` = 0 makes a
stamp expire at the first tick. Two tries in `Attempts` have a first and a last.
`MaxCrashes`, `MaxJobs`, `MaxTime`, `MaxFaults`, `MaxLate`, `MaxRuns`, `MaxChanges`,
`MaxCommands`, `MaxEvents`, `MaxTip` and `MaxRoles` bound only how often something
happens; the theorems hold for every value of those in their modules.

**Fairness.** Goroutines are scheduled: weak fairness of each goroutine's steps; in
`Solver`, of the one goroutine of `Solve`. Every request, download and untar ends,
because the code gives each a deadline or cancels it (`heartbeatOpTimeout`,
`lockReleaseTimeout`, `lockWaitCeiling`, the artifact and git deadlines of
`infra`); `Attempts` shows this of the requests themselves, and there the run's
steps, the budgets and the watchdogs are fair, while nothing obliges a server to
finish a body. A Go mutex passes to a waiter within bounded time: a worker blocked
on a digest's mutex gets it after its holder finished, which in this instance weak
fairness already gives. Nothing is assumed about signals, lock loss, kills, or about
a run's work returning in `S3Lock`.

Deadlock is checked where the program may not stop, and switched off where a
finished run stops or a bound ends what may happen.

Some of the runs' answers are worth knowing though they contradict no statement
of the repository. `MaxMissed` = 0 is the most the shipped timings of the lock
allow (see the proofs). `CollectionInstall` lets a digest sidecar stay stale when the
artifact beside it was replaced and the sidecar's write then failed (`writeSidecar`
swallows it): a run without a pin believes it, and installs the old digest's tree if
the store still holds it. That is why `OkMeansInstalled` speaks of the recorded
digest, and why `PinGuardsTree` says "believes". An offline run that finds the
extracted tree gone as well refuses only after the installed tree was removed. In
`Registry`, cleanup drops the records of an absent project's copy when another
project has an unreachable copy of the same key: the copy is then installed again.

## Disagreements

What the models show of the code and a statement of the repository does not say.
They are not among the runs, which keep to what the code does guarantee; each says
how to see it.

1. *The release's DELETE is not the one unarbitrated write*
   (`docs/architecture.md:2012`, `lock.go:416`). The heartbeat's refresh is another:
   it is decided on a HEAD and then written unconditionally (`lock.go:411`), and a
   process suspended between the two overwrites the live lock of the run that
   reclaimed its expired one. (`MutualExclusion` under `Spec` of `S3Lock`, as in
   `S3LockPaused`.)
2. *A lost lock does not always exit 8* (`docs/exit-codes.md:110`, "whatever the run
   returned"). The run judges by its holder context (`run.go:90`), which a heartbeat
   cancels: work that returns before the next tick is reported as a success. (Under
   the same `Spec`, a run reaches its release with a lock that is another's.)
3. *A partial tree can be taken for a finished one* (`docs/architecture.md:921`).
   `Sweep` removes a tree in directory order, the ready marker among its files
   (`store.go:353`), so that a removal that fails or is killed half way may leave the
   marker and not the rest. (`MarkerStays = TRUE` in `ExtractedStore.cfg`.)
4. *A --no-cache build can be left behind* (`git_discovery.go:82`, "removes every
   --no-cache build nobody took"). A second root that expands to the same collection
   overwrites the first one's memo entry before the run is refused for the duplicate,
   and with it the only reference to that build; `urlDiscoveryMemo.put` does the
   same. A later run sweeps it. (`MCYields` with both roots at `a`.)
5. *Two spellings of a version are one to the solver.* `1.0.0` and `1.0.0+build`
   share a precedence point, and the term of a decision is that point
   (`decide.go:316`): what the one needs is stored against the other as well, so that
   `Solve` may return a conflict error although there is a selection, where
   `docs/architecture.md:619` has it choose "or prove no such choice exists". And
   when the two need the same, `add` (`incompat.go:192`) drops the second's equal
   incompatibility together with its edge: `decidedDependencyNames` then misses the
   dependency, and the result lacks it, against `solver.go:124-126`, "rather than
   returning an incomplete resolution that would under-install". `term_test.go:79`
   has a universe with both spellings. (`MCPoint` that gives two versions one point.)
6. *A pinned server can be passed over* (`docs/servers-and-auth.md:318`, "pins it to
   one server for the whole run"). A partial solve does not know the sources of the
   roots it leaves alone, and the merge compares versions and names of dependencies,
   not servers (`resolve.go:746`).
7. *A frozen run may accept or refuse by chance* (`docs/ci.md:10`, "install exactly
   the locked versions"). Two roots that name two collections of one repository at
   two refs are matched in the order of a Go map (`lock.go:366`). (`"branches"` in
   `Some`.)
8. *An overflowed successor is not exact* (`verset.go:342`, `versetbuild_test.go:73`).
   `=1.2.18446744073709551615` admits 1.3.0 to the interval set and not to the library:
   the successor of the last segment's largest value carries into the next.
   (`Segments` = {0, 1, 2} puts the top of the range among the operands.)
9. *An owner that disappears keeps what it owned* (`metadata.go`, the comment of
   `loadRootMetadataCached`; `docs/servers-and-auth.md:301`). If a server drops a
   collection that a later one also has, a cached root document still binds the
   second walk, for dependencies, to the old server, and they are filed under the
   new one's key. (`Resolution` with servers that may lose a version.)
10. *Editing one role line can move another's pin* (`docs/caching.md`, "re-resolves
    that role and nothing else"). A second install name for one repository and ref
    resolves the pair again (`role_resolve.go`). A url role under two names with two
    labels flips one pin at each run and never works offline for both. Under
    `--refresh`, a requested version of a Galaxy role is answered from the cached v1
    documents, though `--refresh` is said to ask again. And the "already requested"
    warning of a url role compares with an empty source.
11. *A drip can hold `Open`.* `statedeadline.go` gives the opening of the cache no
    budget, because of its "tiny fixed-size bodies with no drip surface"; the body of
    a refused request (`s3StatusError`) has one. That is the exception in `RunJudged`.
12. *The sweep can drop the tree of an installed role* (`docs/caching.md:183`, "keeps
    the trees of every installed role that is not being removed"). `installed_roles` has
    one entry, with one digest, per install name (`role_install.go:398`), and the sweep
    keeps by those (`cleanup/roles.go:267`). When two projects with roles paths of their
    own install two versions of one role, the second's save replaces the first's entry,
    and the next cleanup drops the extracted tree of the first, which is installed and
    reached. Its next install unpacks it again. `SweepSparesTheUsed` speaks of the last
    save under a name. (`saved.installed` that only grows in `Save`.)
13. *A role in use can be removed after a killed upgrade.* Cleanup takes the
    dependencies of a role it scans from the record for its directory, and reads the
    role's own metadata only where there is none (`cleanup/roles.go:92`). An install
    that is killed after it replaced a role's tree and before its save leaves the other
    version's record there: the dependencies followed are then that version's, and a
    role which only the installed one needs is removed. `docs/architecture.md:1093` has
    cleanup follow "the recorded dependencies of every installed copy", and speaks of
    edges that the snapshot forgot, not of edges it remembers wrongly. `Needs` excepts
    this case. (`Needs` as `Named(Edges[i])`.)
14. *A prefetched mismatch does not alarm* (`docs/cli.md:340`, "a downloaded artifact
    that does not match ... fails that collection, and the run fails with the integrity
    code"; `docs/exit-codes.md:97`, where integrity outranks a network failure). The
    prefetcher's error is only a warning, whatever it is (`install_command.go:192`,
    `warm_command.go:204`), and the worker downloads again: if that succeeds, the run
    exits 0, and if the network then fails, with that. `MismatchAlarms` speaks of a
    worker's own downloads. (`mismatch' = TRUE` in `Read`.)

## Proofs

TLC explores the instances above; the following hold for every set of runs,
workers, operations and digests and every value of the bounds, machine-checked by
TLAPS.

**`S3LockProofs`.** `TypeCorrect`, and in every environment `LossCauseKept` (a loss
recorded is the cause of the holder context, unless the caller's context had ended
before) and `NoLiveTakeover`. For the prompt environment, `Exclusion` (mutual exclusion, and
no holder loses its lock) and `ImplementsExclusiveLock`. Mutual exclusion is not
inductive: whether a run may still believe it holds the lock depends on deadlines
it computed before other requests. The invariant `LeaseInv` says that whoever may
still act on the lock as its own has its token on the object, and that the
object's deadline lies beyond the last moment at which it may do so; for a holder
that is its next tick, plus the ticks it may still miss (`Grace`), plus a tick's
timeout and a release. Each step of a run keeps its own part and disturbs no other
run's, because it writes only an absent, expired or own object (`Frame`). The
proof needs the assumption

    Ceiling + (MaxMissed + 1) * Heartbeat + OpTimeout + RelTimeout < TTL

With the code's values (300 + (MaxMissed + 1) * 180 + 30 + 30 < 600 seconds) it
holds for `MaxMissed = 0` and not for 1: the shipped timings leave no room for a
missed refresh after an acquisition that used all of its ceiling.

In the same environment `NoOrphan`: each way out of an acquisition or a release
either removes the run's object or sets `stray`, nobody else writes an object with
its token, and `LeaseInv` excludes that its heartbeat does once it is over.
`ObservedIsHeld` needs one thing more. The swap of an acquisition may lose to an
object written after its HEAD, and the run then reports a holder without looking
again; the report is true because that object outlives the run's wait (`SeesLive`),
which takes `TwoWaitsFit`,

    2 * Ceiling <= TTL

a hypothesis of the theorem and not of the module. The code's 300 and 600 seconds
just meet it: any longer ceiling, and the report may be about a lock that has expired.

**`ExtractedStoreProofs`.** `TypeCorrect`, `ReadyIsWhole`, `HandedTreeStays`,
`TempsAreOwned` and `ImplementsContentStore`; all but the first for
`~MarkerStays`, where a removal that stops half way has taken the ready marker
(disagreement 3 is why this must be assumed). The inductive invariant `IInv` adds
to the properties that a worker filing a tree holds its digest's mutex and found
no ready tree there (`Locked`), that the digest it works under is that of its
bytes (`Named`), and what its temp tree holds at each stage (`TempFilled`,
`IngestFilled`). That a tree that was handed out stays, and that every temp tree
has one owner, are proved only.

**`InstallRunProofs`.** `TypeCorrect`, `WorkersJoined`, `OkIsDone`, and, if no two
roots expand to one collection (`OneRootEach`; disagreement 4), `TempsAreReclaimed`.
No property can be seen from the run's position alone. `Pooled` says which items
may be busy in which phase and that a pool is over before its phase is;
`Fetching`, that downloads live only until the prefetcher is closed; `Locked`, that
the lock is held from the first to the last of these. For the temp files, a file
in existence is on a shelf, in the memo or in one hand (`Owned`, `Filed`), what is
handed out is in one place (`Hands`, `Disjoint`), and no worker has started where
the plan still has to come (`Fresh`). For the exit code, whatever cut the run short
still shows in its error, its signal or its lost lock (`Shown`), what was installed
so far is exactly what the levels passed demand (`ColsDone`, `RolesDone`), and a
snapshot is saved only after that (`Saved`).

**`CollectionInstallProofs`.** `TypeCorrect`, `MarkersTrue`, `OkIsInstalled`,
`PinIsAskedFirst` and `CacheKept`. That a marker tells the truth cannot be seen
from the marker and the tree alone, since trees may share a tally: the invariant
`IInv` says that a marker that parses is its own digest's and that the tree in
place, if there is one, is that digest's, in part or whole (`Claims`); that no
marker is left once unpacking starts, and that what is unpacked is what the payload
names (`Placed`, `InHand`); and what was asked before each step: the pin before an
extraction, the mode before a download or an eviction (`Asked`). A lemma for each
action shows that it keeps `IInv`; the properties of steps follow from `IInv` and
from which steps touch the tree or a slot.

**`SolverProofs`.** `TypeCorrect`, and `ConflictIsProof`: whenever resolution ends in
a terminal incompatibility, no selection of published versions meets the
requirements, for every registry, with any number of packages and versions, and
whatever the heuristics decide. That is a property of a final state; what makes it
so is the invariant `IInv`, that every incompatibility in the store and the one
being resolved is implied by the registry (`Stores`, `Resolving`): every selection
falsifies one of its terms. The initial one and the dependencies are implied by
definition (`DependencyImplied`, which is where two spellings of a version would
break it), a leaf without versions because nothing published is allowed
(`NoVersionsImplied`), and a learned one because it is a resolvent of two implied
ones over an assignment that is the negation of its cause's term
(`ResolventImplied`, `Causes`), of which normalization drops only what is true in
every selection. `RootFirst` is what makes the root's terms harmless: its version
is assigned at level 0, so that no backjump removes it, and no assignment to the
root is anything but that version. The hypothesis `OneSpelling` says that no
package publishes two versions of one precedence point; disagreement 5 is why it is
needed.

`ResultIsRight`, the other half: what `Solve` returns is a selection
(`ResultIsSelection`), under the same hypothesis. `IInv` says nothing of it; what
does is a second invariant, `RInv`, inductive beside `IInv`. Every decision is a
version whose dependencies were asked for, and agrees with all that is assigned to
its package (`Decisive`, `Deciding`; `Carriers` is why this holds of a pin decided
before its universe is fetched). What was asked for is stored and on record for the
result to follow (`Recorded`): `add` stores no incompatibility twice, and would leave
a dependency off the record if its terms were stored for another reason; `Affirmed`
and `Fresh` say that nothing positive names a published version before its
dependencies are added, not even what was learned (`ResolventKeeps`). Each dependency
of a decision is met by what is assigned up to the decision's level, or propagation
has still to look at it, or the conflict it led to is being resolved (`Settled`). A
scan discharges what it passes (`NotTellingMeets`, `UnitMeets`), and a backjump always
undoes a level (`JumpsBack`), so that what it keeps was met before the conflict. When
propagation has ended nothing is pending, and `ExtractSelects` reads the result off.

**`UpstreamProofs`.** Of `Attempts`, `TypeCorrect`, `Interrupted` and `Alarmed`: the exit codes for
an interrupt and for an integrity failure of a worker's own download, for any number
of artifacts, tries and requests. `OpInv` says of each operation that a cancellation in its error means
that its context was canceled from outside (`Excused`), that it ended with what its
context says (`Ended`), that a mismatch found is in its error, whatever the budget
did meanwhile (`Mismatched`), and that its tries are bounded (`Tried`). `OutcomeInv`
carries this into the run's error, which unites those of the stage's operations
(`Staged`, `Judged`, `Kept`); a prefetch is replaced by its worker's own download
before that (`BegunInv`).

Of `Discovery`, `MeaningsAreKept` (the invariant itself), `RequestsRepeat`,
`OfflineRefusesNothingKept` and `InstallsWhatWasRead`, for any requirements files,
sources, Galaxy servers and numbers of runs and events. The first three suppose
`PinsApart`, and they except what the code does: a role whose artifact was taken away
is looked up anew, and refused offline. That a request still means
what it meant when last saved cannot be seen from the saved pins alone: the run works
on its own copy, several requests write to it at once, and an artifact behind a pin
may be purged. The invariant `DInv` says what a pin may name at all, a commit its ref
once stood for and, of a role, its label (`Served`, `PinsKnown`); that every meaning
saved is kept under its key, and by a run that does not refresh also in its copy
(`Remembered`); what each request under way has found out, that it asks for nothing
that is kept, and that one that is done holds its pin (`Working`); the same of what is
found (`Findings`); and that a refresh has lost only meanings that it pinned anew
(`Refreshing`), which is why saving it loses none. `RunStaged` ties the stage to the
level being resolved. One lemma per action shows that it keeps `DInv`, and the bulk of
each is that what one request writes leaves what the others hold alone. That is where
`PinsApart` is needed: two requests that share a pin to a moving ref can resolve it at
two moments of one run, and the later then rewrites what the earlier had read, as
disagreement 10 shows of roles. `InstallsWhatWasRead` needs no invariant and no
hypothesis: an install compares with what was found, or refuses.

**`RegistryProofs`.** `TypeCorrect`, `UnreachedIsGone`, `ReachedIsSpared` and
`UsedIsSpared`, for any projects, install paths, items and dependencies. Cleanup
weighs its evidence once and then removes over several steps, each of which changes
the trees and records that the evidence was about, while tools outside edit
requirements only between commands. `Weighed` says that what is left to remove is
nevertheless what nobody reaches at that moment: taking away what is unreached
leaves every closure as it was, since a closure is the least set that is closed and
what it contains is reached by way of reached items alone. `Loaded` ties the
command's store to the snapshot (more installed, warmed no longer ago, or, for a
cleanup, less exactly what it removed), and `Kept` what saves promised to what is on
disk, which is what the sweep goes by. That a project's own reach is spared follows
from one closure being contained in another: each project's through its own tree in
that of all roots through all trees, since both follow the same names there
(`FollowHolds`, `ReachedByName`). Records are kept by key: `Keyed` says that no store
holds two records of one name, and `PutKeys` that a new one replaces the old, which is
why the entry that was saved last under a name is the one the sweep goes by, and why
removing a name takes its record with it (`KinSlot`).

**`ResolutionProofs`.** `TypeCorrect`, `PlanIsRight`, `OwnersAnswer`, `DepsAreOwn` and
`RefreshIsCurrent`, for any servers, collections, versions, requirements files and
server lists. They rest on two facts. Servers only gain versions, so that what is
cached of one stays true of it (`Sound`, for the snapshot in memory and the one on
disk, and `SoundIf` for what a run adds to it); and a walk along the candidates of a
collection that is answered is answered by the first of them that has it, be it from
the cache, prewarmed or fetched, while one that could not ask an earlier one fails
(`WalkEnds`). `Bindings` carries this through a solve: a collection is bound to that
first server, and the versions and dependencies the solver was told are that
server's. From it a selection makes a plan that meets the requirements
(`ResolvedMeets`). `Planned` covers the other two ways to a plan: a plan on record
meets the requirements whose hash it is recorded under, so that a replay does; and
of a merge, the part kept is the closure of the unchanged roots, which is closed, and
nothing of it is superfluous because it is the least such set (`ClosureIsLeast`), and
agrees with the new part where they meet, as `Mergeable` tests (`MergedMeets`).

Of `Lockfiles`, `ChecksWhatLockWrites`, `LockedIsInstalled` and `AskedIsLocked`, for any
projects, servers, worlds and edits. The file's form and the resolution it came from
are two different things, and the run that reads it may have another server list: what
ties them is `Lasts`, that a file locked or checked loads and holds exactly the entries
of the resolution at that moment (`LockedAs`), and that a frozen run took one of the
outcomes of the present file. Locking establishes it because a schema that follows the
content admits that content (`SchemaFollows`, `LockedLoads`); checking because no
difference field by field, in lists without doubles, is equality (`NoChangeIsSame`),
from which that the hashes are equal also follows (`CompareIsContent`). Such a file
refuses none of its own roots (`RootIsVerified`, `RoleRootIsVerified`), and what is
read back from its entries is the resolution (`TakenIsHonoured`). The hypothesis
`OneRefEach` of `LockedIsInstalled` says that no requirements file asks for two refs of
one repository; disagreement 7 is why it is needed. The module assumes of a resolution
what makes it one, where resolving does not fail: it meets its roots, holds every dependency, and has nothing from a
repository or a url but by a root.

Assumptions on constants are named in the modules and are, besides the lease
inequality, no more than that bounds are naturals, that null values are not members
of the sets they stand beside, that the operations are distinct, that a server list
is not empty, that a root of a requirements file is of one of its two lists, that
a registry holds what its types say, no package that needs itself and no constraint
that carries a version it does not consist of, that every ref a request may mean has
a history whose commits have a content, and what a resolution is (above). What a
theorem assumes beyond that is in its statement: `TwoWaitsFit`, `~MarkerStays`,
`OneRootEach`, `OneSpelling`, `PinsApart`, `OneRefEach`.

**Only model-checked.** The properties of `VersionSets`, which is
recursive: what a recursive definition computes is out of the prover's reach. And
the liveness properties (`WaitEnds`, `JobsEnd`, `RunEnds`, `LossReported`,
`SolveEnds`, `RunJudged`): the prover has neither fairness nor ENABLED.

## Not modelled

Configuration parsing, archive and manifest formats, git transport and building of
archives, progress output and reports: sequential, without shared state; their
outcomes are inputs of the modules above (a download that fails, a digest that
does not match, a tree that unpacks or does not). The verdict of a signature check
is an input of `CollectionInstall`. The file lock of the local backend is the
operating system's. The snapshot's encoding, migration and quarantine, the clean-save
skip and the legacy sweep are left out of `Registry`; `outdated` and the dry runs only
read. Test servers and the benchmark are not part of the program.

## Plan

What could still be added: in `Discovery`, requests that share a moving pin, with a
property that says what holds of them; the verdict of a signature check, which is an input of
`CollectionInstall`; and the paging of a versions list, which `Attempts` has as
requests and `Resolution` as one answer.
