------------------------- MODULE CollectionInstall -------------------------
(***************************************************************************)
(* The installs of one collection by successive runs over one cache        *)
(* (internal/galaxy/collections/install.go, extract.go, marker.go): the    *)
(* skip check, the artifact cache and its sidecar, the download, the pin,  *)
(* the one recovery from a refused cached artifact, and the order in which *)
(* the installed tree, its marker, GALAXY.yml and the record are replaced. *)
(* A run may be killed anywhere, and a write may fail.                     *)
(*                                                                         *)
(* An item is a version of the collection at a server; all items install   *)
(* into one directory.  An artifact and its unpacked tree are named by the *)
(* artifact's digest.  The extracted store is the set of digests whose     *)
(* trees it holds: module ContentStore is what it promises.                *)
(***************************************************************************)
EXTENDS Naturals, FiniteSets

CONSTANTS
  Items,      \* what may be installed
  Version,    \* Version[i]: the item's version
  Source,     \* Source[i]: the server it is resolved from
  Digests,    \* digests, and the artifacts that have them
  Shared,     \* bound: items other projects may have cached already
  Pins,       \* bound: the digests lockfiles pin
  Broken,     \* artifacts that do not unpack
  Tally,      \* Tally[d]: entries, directories and bytes of d's tree
  None,       \* no artifact, digest, record or marker
  Torn,       \* a marker that does not parse
  MaxRuns,    \* bound: runs
  MaxFaults   \* bound: kills, failed writes, damaged files

Versions == {Version[i] : i \in Items}
Sources  == {Source[i] : i \in Items}
Tallies  == {Tally[d] : d \in Digests}
Record   == [sha : Digests, source : Sources]

ASSUME NamesAssumption ==
  /\ Items # {} /\ Broken \subseteq Digests /\ Pins \subseteq Digests /\ Shared \subseteq Items
  /\ None \notin Digests /\ None \notin Tallies /\ None \notin Record
  /\ Torn \notin Tallies /\ Torn # None
ASSUME BoundsAssumption == MaxRuns \in Nat /\ MaxFaults \in Nat

VARIABLES
  backend,   \* where artifacts are cached
  slot,      \* the artifact cached under an item's key
  label,     \* the digest beside it: sidecar file or object metadata
  cas,       \* trees of the extracted store
  tree,      \* the artifact whose tree is at the install path
  whole,     \* whether all of that tree is there
  mark,      \* mark[v][d]: the tally in the marker of d in v's .info
  yml,       \* versions whose .info holds a GALAXY.yml naming them
  snap,      \* install records in the saved snapshot
  mem,       \* install records in the run's memory
  pc, item, pin,
  locked,    \* the lockfile gave the download URL
  mode,      \* --offline, --no-cache or neither
  got,       \* the artifact in hand
  named,     \* payload.artifactSHA
  own,       \* payload.artifactSHAComputed
  hit,       \* prepareInstall's cache hit
  force,     \* forceDownload
  early,     \* the prefetcher is downloading
  outcome,   \* what the run reports of the item
  runs, faults

cache   == <<slot, label, cas>>
project == <<tree, whole, mark, yml>>
order   == <<backend, item, pin, locked, mode, runs>>
payload == <<got, named, own, hit>>
vars    == <<order, cache, project, snap, mem, pc, payload, force, early, outcome, faults>>

Modes == {"online", "offline", "nocache"}

TypeOK ==
  /\ backend \in {"local", "s3"}
  /\ slot \in [Items -> Digests \cup {None}] /\ label \in [Items -> Digests \cup {None}]
  /\ cas \in SUBSET Digests
  /\ tree \in Digests \cup {None} /\ whole \in BOOLEAN
  /\ mark \in [Versions -> [Digests -> Tallies \cup {None, Torn}]]
  /\ yml \in SUBSET Versions
  /\ snap \in [Versions -> Record \cup {None}] /\ mem \in [Versions -> Record \cup {None}]
  /\ pc \in {"idle", "scan", "check", "prepare", "download", "commit", "sidecar", "judge",
             "evict", "unlabel", "extract", "reset", "wipe", "unpack", "mark", "info", "record", "end"}
  /\ item \in Items /\ pin \in Digests \cup {None} /\ locked \in BOOLEAN /\ mode \in Modes
  /\ got \in Digests \cup {None} /\ named \in Digests \cup {None}
  /\ own \in BOOLEAN /\ hit \in BOOLEAN /\ force \in BOOLEAN /\ early \in BOOLEAN
  /\ outcome \in {"none", "ok", "failed"}
  /\ runs \in Nat /\ faults \in Nat

version == Version[item]
Unmarked == [d \in Digests |-> None]
AnyItem == CHOOSE i \in Items : TRUE

Init ==
  /\ backend \in {"local", "s3"}
  /\ \E held \in [Items -> (Digests \ Broken) \cup {None}] :
       /\ {i \in Items : held[i] # None} \subseteq Shared
       /\ slot = held /\ label = held
       /\ cas \in {{}, {held[i] : i \in Items} \ {None}}
  /\ tree = None /\ whole = FALSE
  /\ mark = [w \in Versions |-> Unmarked] /\ yml = {}
  /\ snap = [w \in Versions |-> None] /\ mem = snap
  /\ pc = "idle" /\ item = AnyItem /\ pin = None /\ locked = FALSE /\ mode = "online"
  /\ got = None /\ named = None /\ own = FALSE /\ hit = FALSE
  /\ force = FALSE /\ early = FALSE /\ outcome = "none"
  /\ runs = 0 /\ faults = 0

Fault == faults < MaxFaults /\ faults' = faults + 1
Drop  == got' = None /\ named' = None /\ own' = FALSE /\ hit' = FALSE

\* The item fails; the run goes on to save its snapshot.
Fail ==
  /\ pc' = "end" /\ outcome' = "failed"
  /\ Drop

-----------------------------------------------------------------------------
(***************************************************************************)
(* A run, its prefetch and the skip check.                                 *)
(***************************************************************************)
\* An S3 cache is refused offline.  A locked download has a pin.
Begin(i, p, l, m) ==
  /\ pc = "idle" /\ runs < MaxRuns
  /\ l => p # None
  /\ m = "offline" => backend = "local"
  /\ pc' = "scan" /\ item' = i /\ pin' = p /\ locked' = l /\ mode' = m
  /\ runs' = runs + 1
  /\ mem' = snap
  /\ outcome' = "none"
  /\ UNCHANGED <<backend, cache, project, snap, payload, force, early, faults>>

\* Mutant: the server is not compared.
RecordOfAnyServer ==
  /\ mem[version] # None
  /\ pin \in {None, mem[version].sha}
  /\ mark[version][mem[version].sha] # None
  /\ version \in yml

\* installRecordMatches: record, marker file and GALAXY.yml agree on the item.
RecordMatches ==
  /\ mem[version] # None
  /\ mem[version].source = Source[item]
  /\ pin \in {None, mem[version].sha}
  /\ mark[version][mem[version].sha] # None
  /\ version \in yml

\* checkExtractMarker.  A tree that is not whole lacks some of its own tally,
\* and what is left of it may have that of another.
Matches(w, d) == whole /\ mark[w][d] = Tally[tree]
MayMatch(w, d) ==
  /\ tree # None
  /\ mark[w][d] \in Tallies
  /\ IF whole THEN mark[w][d] = Tally[tree] ELSE mark[w][d] # Tally[tree]

\* verifyExtractMarker removes a marker it rejects.
MarkerHolds(d)   == MayMatch(version, d) /\ UNCHANGED mark
MarkerRefused(d) == ~(tree # None /\ Matches(version, d)) /\ mark' = [mark EXCEPT ![version][d] = None]

Scan ==
  /\ pc = "scan"
  /\ early' = (mode # "nocache" /\ ~RecordMatches /\ slot[item] = None)
  /\ pc' = IF early' THEN "download" ELSE "check"
  /\ UNCHANGED <<order, cache, project, snap, mem, payload, force, outcome, faults>>

Skip ==
  /\ pc = "check" /\ RecordMatches
  /\ MarkerHolds(mem[version].sha)
  /\ pc' = "end" /\ outcome' = "ok"
  /\ Drop
  /\ UNCHANGED <<order, cache, tree, whole, yml, snap, mem, force, early, faults>>

NoSkip ==
  /\ pc = "check"
  /\ IF RecordMatches THEN MarkerRefused(mem[version].sha) ELSE UNCHANGED mark
  /\ pc' = "prepare"
  /\ UNCHANGED <<order, cache, tree, whole, yml, snap, mem, payload, force, early, outcome, faults>>

-----------------------------------------------------------------------------
(***************************************************************************)
(* prepareInstall.                                                         *)
(***************************************************************************)
Hand(a, d, computed, fromCache) ==
  got' = a /\ named' = d /\ own' = computed /\ hit' = fromCache

\* payloadFromPrefetched.
UsePrefetched ==
  /\ pc = "prepare" /\ named # None /\ ~force
  /\ pc' = "judge"
  /\ UNCHANGED <<order, cache, project, snap, mem, payload, force, early, outcome, faults>>

IsCacheHit == pc = "prepare" /\ named = None /\ ~force /\ mode # "nocache" /\ slot[item] # None

\* The S3 backend hashes what it fetches.  resolveArtifactSHA hashes a local
\* file under a pin, and else takes the server's digest, which only a
\* verifying run asked for, or the sidecar's, or hashes the file.
FetchCached ==
  /\ IsCacheHit
  /\ LET a == slot[item] IN
     \/ /\ backend = "s3" /\ label[item] \in {None, a}
        /\ Hand(a, a, TRUE, TRUE)
     \/ /\ backend = "local" /\ (pin # None \/ label[item] = None)
        /\ Hand(a, a, TRUE, TRUE)
     \/ /\ backend = "local" /\ pin = None
        /\ \E d \in Digests \cup {label[item]} : d # None /\ Hand(a, d, FALSE, TRUE)
  /\ pc' = "judge"
  /\ UNCHANGED <<order, cache, project, snap, mem, force, early, outcome, faults>>

\* S3: errArtifactSHA256Mismatch, the one failure to prepare worth an eviction.
FetchMismatch ==
  /\ IsCacheHit /\ backend = "s3" /\ label[item] \notin {None, slot[item]}
  /\ pc' = "evict" /\ force' = TRUE
  /\ UNCHANGED <<order, cache, project, snap, mem, payload, early, outcome, faults>>

FetchFails ==
  /\ IsCacheHit
  /\ Fault /\ Fail
  /\ UNCHANGED <<order, cache, project, snap, mem, force, early>>

\* fetchArtifactMiss.
Miss ==
  /\ pc = "prepare" /\ (named = None \/ force) /\ ~IsCacheHit
  /\ IF mode = "offline" THEN Fail ELSE pc' = "download" /\ UNCHANGED <<payload, outcome>>
  /\ UNCHANGED <<order, cache, project, snap, mem, force, early, faults>>

-----------------------------------------------------------------------------
(***************************************************************************)
(* The download, for the prefetcher or for the worker itself.              *)
(***************************************************************************)
\* A failed prefetch is a warning: the worker downloads itself.
Abort ==
  /\ IF early THEN pc' = "check" /\ Drop /\ UNCHANGED outcome ELSE Fail
  /\ early' = FALSE

Arrive == pc' = (IF early THEN "check" ELSE "judge") /\ early' = FALSE

\* The server sends a, and declared its digest, or another, or none; a locked
\* download is held to the pin instead (versionMetadata).  One that is
\* unpacked on the way is promoted before it is committed.
Declared(a) == IF locked THEN pin = a ELSE TRUE

Download(a) ==
  /\ pc = "download" /\ mode # "offline"
  /\ a \notin Broken /\ Declared(a)
  /\ Hand(a, a, TRUE, FALSE)
  /\ IF mode = "nocache"
       THEN Arrive /\ UNCHANGED cas
       ELSE pc' = "commit" /\ cas' \in {cas, cas \cup {a}} /\ UNCHANGED early
  /\ UNCHANGED <<order, slot, label, project, snap, mem, force, outcome, faults>>

\* Refused by the server, by verifyDownloadSHA, by the probe, or offline.
DownloadFails ==
  /\ pc = "download"
  /\ Abort
  /\ UNCHANGED <<order, cache, project, snap, mem, force, faults>>

\* Commit: an S3 object has its digest with it, a file gets a sidecar after.
Commit ==
  /\ pc = "commit"
  /\ slot' = [slot EXCEPT ![item] = got]
  /\ IF backend = "s3"
       THEN label' = [label EXCEPT ![item] = got] /\ Arrive
       ELSE pc' = "sidecar" /\ UNCHANGED <<label, early>>
  /\ UNCHANGED <<order, cas, project, snap, mem, payload, force, outcome, faults>>

CommitFails ==
  /\ pc = "commit"
  /\ Fault /\ Abort
  /\ UNCHANGED <<order, cache, project, snap, mem, force>>

\* writeSidecar, whose failure is swallowed.
Sidecar ==
  /\ pc = "sidecar"
  /\ \/ label' = [label EXCEPT ![item] = got] /\ UNCHANGED faults
     \/ Fault /\ UNCHANGED label
  /\ Arrive
  /\ UNCHANGED <<order, slot, cas, project, snap, mem, payload, force, outcome>>

-----------------------------------------------------------------------------
(***************************************************************************)
(* verifyAndExtract and its recovery.                                      *)
(***************************************************************************)
\* canRetryCacheHit.
CanRetry == hit /\ ~force /\ mode # "offline"

\* Mutant: the locked copy goes as well.
RefusedEvicting(repairable) ==
  IF CanRetry /\ repairable
    THEN pc' = "evict" /\ force' = TRUE /\ Drop /\ UNCHANGED outcome
    ELSE Fail /\ UNCHANGED force

\* prepareWithRecovery's answer to a refused payload: the cached copy of a
\* locked download is kept.
Refused(repairable) ==
  IF CanRetry /\ repairable
    THEN /\ pc' = IF locked THEN "prepare" ELSE "evict"
         /\ force' = TRUE /\ Drop /\ UNCHANGED outcome
    ELSE Fail /\ UNCHANGED force

\* evictCorruptCachedArtifact, whose error is ignored.
Evict ==
  /\ pc = "evict"
  /\ \/ /\ slot' = [slot EXCEPT ![item] = None]
        /\ IF backend = "s3"
             THEN label' = [label EXCEPT ![item] = None] /\ pc' = "prepare"
             ELSE UNCHANGED label /\ pc' = "unlabel"
        /\ UNCHANGED faults
     \/ Fault /\ UNCHANGED <<slot, label>> /\ pc' = "prepare"
  /\ UNCHANGED <<order, cas, project, snap, mem, payload, force, early, outcome>>

Unlabel ==
  /\ pc = "unlabel"
  /\ \/ label' = [label EXCEPT ![item] = None] /\ UNCHANGED faults
     \/ Fault /\ UNCHANGED label
  /\ pc' = "prepare"
  /\ UNCHANGED <<order, slot, cas, project, snap, mem, payload, force, early, outcome>>

\* Mutant: only a locked download is compared with its pin.
PinHoldsIfLocked == locked => pin = named

PinHolds == pin \in {None, named}

Judge ==
  /\ pc = "judge" /\ PinHolds
  /\ pc' = "extract"
  /\ UNCHANGED <<order, cache, project, snap, mem, payload, force, early, outcome, faults>>

\* A pin that differs, or a verifying run's refusal: one that another artifact
\* could repair, or not (unrepairableByRefetch).
JudgeRefuses ==
  /\ pc = "judge"
  /\ \E repairable \in BOOLEAN :
       /\ ~PinHolds => repairable
       /\ Refused(repairable)
  /\ UNCHANGED <<order, cache, project, snap, mem, early, faults>>

-----------------------------------------------------------------------------
(***************************************************************************)
(* extractTree.                                                            *)
(***************************************************************************)
\* The tree in place is the artifact's already.
AlreadyThere ==
  /\ pc = "extract"
  /\ MarkerHolds(named)
  /\ pc' = "info"
  /\ UNCHANGED <<order, cache, tree, whole, yml, snap, mem, payload, force, early, outcome, faults>>

Extract ==
  /\ pc = "extract"
  /\ MarkerRefused(named)
  /\ pc' = "reset"
  /\ UNCHANGED <<order, cache, tree, whole, yml, snap, mem, payload, force, early, outcome, faults>>

\* resetExtractionTarget: the tree first, then every version's .info.
Reset ==
  /\ pc = "reset"
  /\ tree' = None /\ whole' = FALSE
  /\ pc' = "wipe"
  /\ UNCHANGED <<order, cache, mark, yml, snap, mem, payload, force, early, outcome, faults>>

\* Mutant: the other versions' .info directories stay.
DirtyOwn == {w \in {version} : w \in yml \/ mark[w] # Unmarked}

Dirty == {w \in Versions : w \in yml \/ mark[w] # Unmarked}

\* resetCollectionInfo takes one .info directory after another; RemoveAll
\* takes the files of one in any order.
Wipe(w) ==
  /\ pc = "wipe" /\ w \in Dirty
  /\ \/ mark' = [mark EXCEPT ![w] = Unmarked] /\ yml' = yml \ {w}
     \/ mark' = [mark EXCEPT ![w] = Unmarked] /\ UNCHANGED yml
     \/ yml' = yml \ {w} /\ UNCHANGED mark
  /\ UNCHANGED <<order, cache, tree, whole, snap, mem, pc, payload, force, early, outcome, faults>>

Wiped ==
  /\ pc = "wipe" /\ Dirty = {}
  /\ pc' = "unpack"
  /\ UNCHANGED <<order, cache, project, snap, mem, payload, force, early, outcome, faults>>

\* A reset that fails half way, on the destination's side or another.
ResetFails ==
  /\ pc \in {"reset", "wipe"}
  /\ Fault
  /\ whole' = FALSE
  /\ \E repairable \in BOOLEAN : Refused(repairable)
  /\ UNCHANGED <<order, cache, tree, mark, yml, snap, mem, early>>

\* Ensure and Materialize, or ExtractTarGz without a cache.  Ensure hashes
\* the file first unless this run did, but only to add a tree it has not.
Stored == mode # "nocache" /\ named \in cas
Sound  == got \notin Broken /\ (own \/ got = named)

Unpack ==
  /\ pc = "unpack" /\ (Stored \/ Sound)
  /\ tree' = (IF Stored THEN named ELSE got) /\ whole' = TRUE
  /\ cas' = IF mode = "nocache" THEN cas ELSE cas \cup {tree'}
  /\ pc' = "mark"
  /\ UNCHANGED <<order, slot, label, mark, yml, snap, mem, payload, force, early, outcome, faults>>

UnpackRefuses ==
  /\ pc = "unpack" /\ ~(Stored \/ Sound)
  /\ Refused(TRUE)
  /\ UNCHANGED <<order, cache, project, snap, mem, early, faults>>

\* The store, when there is one, has the tree before any of it is copied.
PartlyUnpacked ==
  /\ pc = "unpack" /\ (Stored \/ Sound)
  /\ tree' = (IF Stored THEN named ELSE got) /\ whole' = FALSE
  /\ cas' = IF mode = "nocache" THEN cas ELSE cas \cup {tree'}

UnpackFails ==
  /\ pc = "unpack"
  /\ Fault
  /\ PartlyUnpacked \/ UNCHANGED <<cas, tree, whole>>
  /\ Refused(TRUE)
  /\ UNCHANGED <<order, slot, label, mark, yml, snap, mem, early>>

\* writeExtractMarker: the tally of the tree as it is.
Mark ==
  /\ pc = "mark"
  /\ mark' = [mark EXCEPT ![version][named] = Tally[tree]]
  /\ pc' = "info"
  /\ UNCHANGED <<order, cache, tree, whole, yml, snap, mem, payload, force, early, outcome, faults>>

MarkFails ==
  /\ pc = "mark"
  /\ Fault
  /\ \E m \in {None, Torn} : mark' = [mark EXCEPT ![version][named] = m]
  /\ Refused(TRUE)
  /\ UNCHANGED <<order, cache, tree, whole, yml, snap, mem, early>>

-----------------------------------------------------------------------------
(***************************************************************************)
(* The end of an install, and of a run.                                    *)
(***************************************************************************)
\* writeGalaxyInfo removes what it replaces; its failure is a warning.
Info ==
  /\ pc = "info"
  /\ \/ yml' = yml \cup {version} /\ UNCHANGED faults
     \/ Fault /\ yml' = yml \ {version}
  /\ pc' = "record"
  /\ UNCHANGED <<order, cache, tree, whole, mark, snap, mem, payload, force, early, outcome>>

RecordInstall ==
  /\ pc = "record"
  /\ mem' = [mem EXCEPT ![version] = [sha |-> named, source |-> Source[item]]]
  /\ pc' = "end" /\ outcome' = "ok" /\ Drop
  /\ UNCHANGED <<order, cache, project, snap, force, early, faults>>

\* The process is gone, and its memory and settings with it.
Over ==
  /\ pc' = "idle" /\ Drop
  /\ item' = AnyItem /\ pin' = None /\ locked' = FALSE /\ mode' = "online"
  /\ force' = FALSE /\ early' = FALSE /\ outcome' = "none"
  /\ mem' = snap'
  /\ UNCHANGED <<backend, runs>>

\* finalizeInstall saves, whether or not the item failed.
Save ==
  /\ pc = "end"
  /\ \/ snap' = mem /\ UNCHANGED faults
     \/ Fault /\ UNCHANGED snap
  /\ Over
  /\ UNCHANGED <<cache, project>>

\* What a kill leaves of the write it interrupts.
Halfway ==
  \/ UNCHANGED <<cas, project>>
  \/ /\ pc = "reset" /\ whole' = FALSE
     /\ UNCHANGED <<cas, tree, mark, yml>>
  \/ PartlyUnpacked /\ UNCHANGED <<mark, yml>>
  \/ /\ pc = "mark" /\ mark' = [mark EXCEPT ![version][named] = Torn]
     /\ UNCHANGED <<cas, tree, whole, yml>>
  \/ /\ pc = "info" /\ yml' = yml \ {version}
     /\ UNCHANGED <<cas, tree, whole, mark>>

Kill ==
  /\ pc # "idle"
  /\ Fault /\ Halfway
  /\ UNCHANGED <<slot, label, snap>>
  /\ Over

-----------------------------------------------------------------------------
(***************************************************************************)
(* Between runs: a cached file is damaged, files of the tree are deleted,  *)
(* --clear-cache.                                                          *)
(***************************************************************************)
Damage ==
  /\ pc = "idle" /\ Fault
  /\ \/ \E i \in Items, a \in Broken : slot[i] # None /\ slot' = [slot EXCEPT ![i] = a] /\ UNCHANGED whole
     \/ whole /\ whole' = FALSE /\ UNCHANGED slot
  /\ UNCHANGED <<order, label, cas, tree, mark, yml, snap, mem, pc, payload, force, early, outcome>>

ClearFiles ==
  /\ pc = "idle"
  /\ slot' = [i \in Items |-> None] /\ label' = slot' /\ cas' = {}
  /\ UNCHANGED <<order, project, snap, mem, pc, payload, force, early, outcome, faults>>

Fetching   == UsePrefetched \/ FetchCached \/ FetchMismatch \/ FetchFails \/ Miss
Acquiring  == (\E a \in Digests : Download(a)) \/ DownloadFails \/ Commit \/ CommitFails \/ Sidecar
Judging    == Judge \/ JudgeRefuses \/ Evict \/ Unlabel
Extracting ==
  \/ AlreadyThere \/ Extract \/ Reset \/ (\E w \in Versions : Wipe(w)) \/ Wiped \/ ResetFails
  \/ Unpack \/ UnpackRefuses \/ UnpackFails \/ Mark \/ MarkFails
Ending     == Info \/ RecordInstall \/ Save

Step == Scan \/ Skip \/ NoSkip \/ Fetching \/ Acquiring \/ Judging \/ Extracting \/ Ending

Next ==
  \/ \E i \in Items, p \in Pins \cup {None}, l \in BOOLEAN, m \in Modes : Begin(i, p, l, m)
  \/ Step
  \/ Kill \/ Damage \/ ClearFiles

Spec     == Init /\ [][Next]_vars
\* A run's worker is scheduled until it returns.
FairSpec == Spec /\ WF_vars(Step)

-----------------------------------------------------------------------------
(***************************************************************************)
(* Properties.                                                             *)
(***************************************************************************)
\* No marker can pass for a tree other than its digest's: whatever a killed
\* or failed run left, and although two trees may have one tally, the marker
\* that checkExtractMarker accepts tells which artifact is installed.
MarkersTellTruth ==
  \A w \in Versions, d \in Digests : MayMatch(w, d) => tree = d /\ whole

\* A run that reports an item installed, or skips it as installed already,
\* has the whole tree of the recorded digest in place, recorded for the
\* item's server, and of the pinned digest if there is a pin.
OkMeansInstalled ==
  (pc = "end" /\ outcome = "ok") =>
    /\ mem[version] # None /\ whole
    /\ tree = mem[version].sha
    /\ mem[version].source = Source[item]
    /\ pin \in {None, tree}

\* verifyPinnedSHA comes before any write: under a pin, a run touches the
\* installed tree only with an artifact it believes to be the pinned one, and
\* leaves there nothing of another.
PinGuardsTree ==
  [][(pc # "idle" /\ pin # None /\ <<tree, whole>>' # <<tree, whole>>) =>
       named = pin /\ tree' \in {tree, None, pin}]_vars

\* canRetryCacheHit: an offline run never gives up a cached artifact, which
\* it could not fetch again.
OfflineKeepsCache ==
  [][(pc # "idle" /\ mode = "offline") => UNCHANGED <<slot, label>>]_vars

\* refetchCachedArtifact: a locked run changes a slot only to the bytes its
\* pin names, so that a wrong pin empties no slot that other projects share.
\* Only an S3 object that contradicts its own metadata is deleted.
LockedKeepsSlot ==
  [][(pc # "idle" /\ locked /\ slot' # slot) =>
       \/ slot'[item] = pin
       \/ backend = "s3" /\ label[item] # slot[item]]_vars

\* What a run may not replace it does not give up either, although a refused
\* payload usually empties its slot before it is fetched again.
CacheIsKept == OfflineKeepsCache /\ LockedKeepsSlot
=============================================================================
