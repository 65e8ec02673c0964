--------------------------- MODULE ExtractedStore ---------------------------
(***************************************************************************)
(* The content-addressed store of unpacked artifacts (internal/galaxy/     *)
(* extracted/store.go) under the runs that use it: an install or a warm    *)
(* run, whose workers unpack, promote and hand out trees concurrently, and *)
(* a cleanup run, which sweeps trees no record names.  The cache lock      *)
(* keeps runs apart (module ExclusiveLock); a crash may end one anywhere.  *)
(*                                                                         *)
(* A tarball is named by the digest of its bytes, so that the digest of    *)
(* tarball c is c, and a tree by the tarball it was unpacked from.         *)
(***************************************************************************)
EXTENDS Naturals, FiniteSets

CONSTANTS
  Shas,        \* digests, and the tarballs that have them
  None,        \* no digest
  Workers,     \* the goroutines of one run
  Nobody,      \* no worker
  Chunks,      \* writes a download hands to the ingest pipe
  MaxJobs,     \* bound: artifacts one run's workers take up
  MaxCrashes,  \* bound: runs killed, and removals that stop half way
  MarkerStays  \* whether a removal that stops half way may leave the marker

ASSUME NoneAssumption == Shas # {} /\ None \notin Shas /\ Nobody \notin Workers
ASSUME BoundsAssumption ==
  /\ Chunks \in Nat /\ MaxJobs \in Nat /\ MaxCrashes \in Nat /\ MarkerStays \in BOOLEAN

VARIABLES
  run,      \* the run that holds the cache lock
  swept,    \* whether its SweepTemp removed every leftover
  plan,     \* what a cleanup run has still to sweep
  entry,    \* <cache>/extracted/<sha>
  shaTmp,   \* <cache>/extracted/<sha>.tmp
  ingest,   \* <cache>/extracted/ingest-<random> of a worker
  orphan,   \* whether ingest directories of no worker are left
  mutex,    \* Store.locks
  pc,       \* where each worker is
  kind,     \* whether its tree comes from a tarball file or a stream
  sha,      \* the digest it works under
  tar,      \* the bytes it works on
  own,      \* SHASelfComputed
  left,     \* writes of the download still to come
  pipe,     \* what IngestReader does with the pipe
  broken,   \* whether the download's copy failed
  jobs, crashes

disk   == <<entry, shaTmp, ingest, orphan>>
job    == <<kind, sha, tar, own>>
stream == <<left, pipe, broken>>
ends   == <<run, swept, plan, crashes>>
vars   == <<ends, disk, mutex, pc, job, stream, jobs>>

Tree        == [of : Shas \cup {None}, whole : BOOLEAN, ready : BOOLEAN]
TreeOf(c, whole, ready) == [of |-> c, whole |-> whole, ready |-> ready]
Absent      == TreeOf(None, FALSE, FALSE)
Begun(c)    == TreeOf(c, FALSE, FALSE)
Finished(s) == TreeOf(s, TRUE, TRUE)
\* A tree under an older ready marker, which isReady does not accept.
Legacy(s)   == TreeOf(s, TRUE, FALSE)

Streaming == {"stream", "write", "join"}
Filing    == {"recheck", "verify", "unpack", "mark", "clear", "rename"}

TypeOK ==
  /\ run \in {"none", "install", "cleanup"} /\ swept \in BOOLEAN /\ plan \in SUBSET Shas
  /\ entry \in [Shas -> Tree] /\ shaTmp \in [Shas -> Tree]
  /\ ingest \in [Workers -> Tree] /\ orphan \in BOOLEAN
  /\ mutex \in [Shas -> Workers \cup {Nobody}]
  /\ pc \in [Workers -> {"idle", "commit", "check", "lock", "handed"} \cup Streaming \cup Filing]
  /\ kind \in [Workers -> {"file", "stream"}]
  /\ sha \in [Workers -> Shas] /\ tar \in [Workers -> Shas] /\ own \in [Workers -> BOOLEAN]
  /\ left \in [Workers -> Nat]
  /\ pipe \in [Workers -> {"unpack", "drain", "closed"}]
  /\ broken \in [Workers -> BOOLEAN]
  /\ jobs \in Nat /\ crashes \in Nat

AnySha == CHOOSE s \in Shas : TRUE

Init ==
  /\ run = "none" /\ swept = FALSE /\ plan = {}
  /\ \E old \in SUBSET Shas : entry = [s \in Shas |-> IF s \in old THEN Legacy(s) ELSE Absent]
  /\ shaTmp = [s \in Shas |-> Absent]
  /\ ingest = [w \in Workers |-> Absent]
  /\ orphan = FALSE
  /\ mutex = [s \in Shas |-> Nobody]
  /\ pc = [w \in Workers |-> "idle"]
  /\ kind = [w \in Workers |-> "file"]
  /\ sha = [w \in Workers |-> AnySha] /\ tar = sha
  /\ own = [w \in Workers |-> FALSE]
  /\ left = [w \in Workers |-> 0]
  /\ pipe = [w \in Workers |-> "closed"]
  /\ broken = [w \in Workers |-> FALSE]
  /\ jobs = 0 /\ crashes = 0

Go(w, to) == pc' = [pc EXCEPT ![w] = to]

\* The worker's call returns, and its locals go with it.
Done(w) ==
  /\ Go(w, "idle")
  /\ kind' = [kind EXCEPT ![w] = "file"]
  /\ sha' = [sha EXCEPT ![w] = AnySha] /\ tar' = [tar EXCEPT ![w] = AnySha]
  /\ own' = [own EXCEPT ![w] = FALSE]
  /\ left' = [left EXCEPT ![w] = 0] /\ pipe' = [pipe EXCEPT ![w] = "closed"]
  /\ broken' = [broken EXCEPT ![w] = FALSE]

-----------------------------------------------------------------------------
(***************************************************************************)
(* Ensure.                                                                 *)
(***************************************************************************)
\* A worker with a tarball file: o when this run hashed it itself, else the
\* digest comes from a record that may disagree with the bytes.
Ensure(w, s, c, o) ==
  /\ run = "install" /\ pc[w] = "idle" /\ jobs < MaxJobs
  /\ o => c = s
  /\ Go(w, "check")
  /\ kind' = [kind EXCEPT ![w] = "file"]
  /\ sha' = [sha EXCEPT ![w] = s]
  /\ tar' = [tar EXCEPT ![w] = c]
  /\ own' = [own EXCEPT ![w] = o]
  /\ jobs' = jobs + 1
  /\ UNCHANGED <<ends, disk, mutex, stream>>

\* The ready check before the mutex.
CheckReady(w) ==
  /\ pc[w] = "check"
  /\ Go(w, IF entry[sha[w]].ready THEN "handed" ELSE "lock")
  /\ UNCHANGED <<ends, disk, mutex, job, stream, jobs>>

LockSha(w) ==
  /\ pc[w] = "lock" /\ mutex[sha[w]] = Nobody
  /\ mutex' = [mutex EXCEPT ![sha[w]] = w]
  /\ Go(w, "recheck")
  /\ UNCHANGED <<ends, disk, job, stream, jobs>>

Unlock(w) == mutex' = [mutex EXCEPT ![sha[w]] = Nobody]

\* Where a worker goes with a finished tree: an Ensure hands it out, a promoted
\* download goes on to its commit.
Served(w) == Go(w, IF kind[w] = "stream" THEN "commit" ELSE "handed") /\ Unlock(w)

\* The second check, under the mutex; a promotion drops the tree it brought.
FoundReady(w) ==
  /\ pc[w] = "recheck" /\ entry[sha[w]].ready
  /\ ingest' = [ingest EXCEPT ![w] = Absent]
  /\ Served(w)
  /\ UNCHANGED <<ends, entry, shaTmp, orphan, job, stream, jobs>>

\* Mutant: the second check is missing.
FoundUnreadyUnchecked(w) ==
  /\ pc[w] = "recheck"
  /\ Go(w, IF kind[w] = "stream" THEN "mark" ELSE "verify")
  /\ UNCHANGED <<ends, disk, mutex, job, stream, jobs>>

FoundUnready(w) ==
  /\ pc[w] = "recheck" /\ ~entry[sha[w]].ready
  /\ Go(w, IF kind[w] = "stream" THEN "mark" ELSE "verify")
  /\ UNCHANGED <<ends, disk, mutex, job, stream, jobs>>

\* Mutant: a recorded digest is taken at its word.
VerifiedBlindly(w) == TRUE

\* verifyTarballSHA
Verified(w) == own[w] \/ tar[w] = sha[w]

\* The temp tree the worker is filling.
SetTemp(w, t) ==
  IF kind[w] = "stream" THEN ingest' = [ingest EXCEPT ![w] = t] /\ UNCHANGED shaTmp
                        ELSE shaTmp' = [shaTmp EXCEPT ![sha[w]] = t] /\ UNCHANGED ingest
Temp(w) == IF kind[w] = "stream" THEN ingest[w] ELSE shaTmp[sha[w]]

\* extractInto: whatever is left of an earlier attempt is removed first.
Unpack(w) ==
  /\ pc[w] = "verify" /\ Verified(w)
  /\ SetTemp(w, Begun(tar[w]))
  /\ Go(w, "unpack")
  /\ UNCHANGED <<ends, entry, orphan, mutex, job, stream, jobs>>

Unpacked(w) ==
  /\ pc[w] = "unpack"
  /\ SetTemp(w, TreeOf(Temp(w).of, TRUE, Temp(w).ready))
  /\ Go(w, "mark")
  /\ UNCHANGED <<ends, entry, orphan, mutex, job, stream, jobs>>

\* writeReadyMarker
Mark(w) ==
  /\ pc[w] = "mark"
  /\ SetTemp(w, TreeOf(Temp(w).of, Temp(w).whole, TRUE))
  /\ Go(w, "clear")
  /\ UNCHANGED <<ends, entry, orphan, mutex, job, stream, jobs>>

\* finalize: the tree in the way is removed, then the temp tree renamed.
Clear(w) ==
  /\ pc[w] = "clear"
  /\ entry' = [entry EXCEPT ![sha[w]] = Absent]
  /\ Go(w, "rename")
  /\ UNCHANGED <<ends, shaTmp, ingest, orphan, mutex, job, stream, jobs>>

Rename(w) ==
  /\ pc[w] = "rename"
  /\ entry' = [entry EXCEPT ![sha[w]] = Temp(w)]
  /\ SetTemp(w, Absent)
  /\ Served(w)
  /\ UNCHANGED <<ends, orphan, job, stream, jobs>>

\* Every failure past verifyTarballSHA removes the temp tree.
DropTemp(w) ==
  IF pc[w] = "verify" THEN UNCHANGED <<shaTmp, ingest>> ELSE SetTemp(w, Absent)

\* A refused or unreadable tarball, a full disk, a canceled context; a removal
\* that failed may have taken part of the tree that was in the way.
Fail(w) ==
  /\ pc[w] \in Filing \ {"recheck"}
  /\ DropTemp(w)
  /\ entry' \in IF pc[w] # "clear" THEN {entry}
                ELSE {entry, [entry EXCEPT ![sha[w]] = TreeOf(@.of, FALSE, @.ready)]}
  /\ Unlock(w)
  /\ Done(w)
  /\ UNCHANGED <<ends, orphan, jobs>>

\* The worker has linked the tree it was handed into its install path, or
\* given up on it.
Materialized(w) ==
  /\ pc[w] = "handed"
  /\ Done(w)
  /\ UNCHANGED <<ends, disk, mutex, jobs>>

-----------------------------------------------------------------------------
(***************************************************************************)
(* A download that is unpacked while it streams (streamDownloadAndExtract, *)
(* IngestReader, Promote).                                                 *)
(***************************************************************************)
Download(w, c) ==
  /\ run = "install" /\ pc[w] = "idle" /\ jobs < MaxJobs
  /\ Go(w, "stream")
  /\ kind' = [kind EXCEPT ![w] = "stream"]
  /\ tar' = [tar EXCEPT ![w] = c]
  /\ ingest' = [ingest EXCEPT ![w] = Begun(c)]
  /\ left' = [left EXCEPT ![w] = Chunks]
  /\ pipe' = [pipe EXCEPT ![w] = "unpack"]
  /\ broken' = [broken EXCEPT ![w] = FALSE]
  /\ jobs' = jobs + 1
  /\ UNCHANGED <<ends, entry, shaTmp, orphan, mutex, sha, own>>

Read(w) ==
  /\ pc[w] = "stream" /\ left[w] > 0
  /\ left' = [left EXCEPT ![w] = @ - 1]
  /\ Go(w, "write")
  /\ UNCHANGED <<ends, disk, mutex, job, pipe, broken, jobs>>

\* A write to the pipe returns once the other end has read it; no deadline ends it.
Write(w) ==
  /\ pc[w] = "write" /\ pipe[w] # "closed"
  /\ Go(w, "stream")
  /\ UNCHANGED <<ends, disk, mutex, job, stream, jobs>>

\* The body ends, or fails, or the deadline passes: the pipe gets EOF or the error.
CopyEnds(w) ==
  /\ pc[w] = "stream"
  /\ \E failed \in BOOLEAN :
       /\ left[w] > 0 => failed
       /\ broken' = [broken EXCEPT ![w] = failed]
  /\ Go(w, "join")
  /\ UNCHANGED <<ends, disk, mutex, job, left, pipe, jobs>>

\* Mutant: IngestReader returns without draining the pipe.
UnpackEndsUndrained(w) ==
  /\ pipe[w] = "unpack" /\ pc[w] \in Streaming
  /\ pipe' = [pipe EXCEPT ![w] = "closed"]
  /\ ingest' = [ingest EXCEPT ![w] = Absent]
  /\ UNCHANGED <<ends, entry, shaTmp, orphan, mutex, pc, job, left, broken, jobs>>

\* The untar ends: at the archive's end, which may precede the stream's, or on
\* an error, its own or the body's.
UnpackEnds(w) ==
  /\ pipe[w] = "unpack" /\ pc[w] \in Streaming
  /\ \E ok \in BOOLEAN :
       /\ ok => ~broken[w]
       /\ ingest' = [ingest EXCEPT ![w] = TreeOf(@.of, ok, @.ready)]
  /\ pipe' = [pipe EXCEPT ![w] = "drain"]
  /\ UNCHANGED <<ends, entry, shaTmp, orphan, mutex, pc, job, left, broken, jobs>>

\* The pipe is drained to its end; a failed untar removes its temp tree.
Drained(w) ==
  /\ pipe[w] = "drain" /\ pc[w] = "join"
  /\ pipe' = [pipe EXCEPT ![w] = "closed"]
  /\ ingest' = [ingest EXCEPT ![w] = IF @.whole THEN @ ELSE Absent]
  /\ UNCHANGED <<ends, entry, shaTmp, orphan, mutex, pc, job, left, broken, jobs>>

\* The copy, the untar and the digest the server declared are judged once both
\* have ended; what it declared may always be the digest of other bytes.
Good(w) == ~broken[w] /\ ingest[w] # Absent

Discard(w) ==
  /\ pc[w] = "join" /\ pipe[w] = "closed"
  /\ ingest' = [ingest EXCEPT ![w] = Absent]
  /\ Done(w)
  /\ UNCHANGED <<ends, entry, shaTmp, orphan, mutex, jobs>>

\* Promote files the temp tree under the digest of the streamed bytes.
Promote(w) ==
  /\ pc[w] = "join" /\ pipe[w] = "closed" /\ Good(w)
  /\ sha' = [sha EXCEPT ![w] = tar[w]]
  /\ Go(w, "lock")
  /\ UNCHANGED <<ends, disk, mutex, kind, tar, own, stream, jobs>>

\* The store's root cannot be opened: nobody removes the temp tree.
PromoteFails(w) ==
  /\ pc[w] = "join" /\ pipe[w] = "closed" /\ Good(w)
  /\ ingest' = [ingest EXCEPT ![w] = Absent]
  /\ orphan' = TRUE
  /\ Done(w)
  /\ UNCHANGED <<ends, entry, shaTmp, mutex, jobs>>

\* The tarball is committed, and installed through Ensure under its own digest.
Commit(w) ==
  /\ pc[w] = "commit"
  /\ kind' = [kind EXCEPT ![w] = "file"]
  /\ own' = [own EXCEPT ![w] = TRUE]
  /\ Go(w, "check")
  /\ UNCHANGED <<ends, disk, mutex, sha, tar, stream, jobs>>

CommitFails(w) ==
  /\ pc[w] = "commit"
  /\ Done(w)
  /\ UNCHANGED <<ends, disk, mutex, jobs>>

-----------------------------------------------------------------------------
(***************************************************************************)
(* Runs.                                                                   *)
(***************************************************************************)
\* initInstall: SweepTemp removes what dead runs left; it stops at the first
\* removal that fails, and the run goes on.
StartInstall ==
  /\ run = "none"
  /\ run' = "install"
  /\ \/ swept' = TRUE /\ orphan' = FALSE /\ shaTmp' = [s \in Shas |-> Absent]
     \/ swept' = FALSE /\ UNCHANGED <<orphan, shaTmp>>
  /\ UNCHANGED <<plan, crashes, entry, ingest, mutex, pc, job, stream, jobs>>

EndInstall ==
  /\ run = "install" /\ \A w \in Workers : pc[w] = "idle"
  /\ run' = "none"
  /\ UNCHANGED <<swept, plan, crashes, disk, mutex, pc, job, stream, jobs>>

\* sweepExtractedStore: everything but the trees in keep, leftovers included.
StartCleanup(keep) ==
  /\ run = "none"
  /\ run' = "cleanup"
  /\ plan' = {s \in Shas : entry[s] # Absent} \ keep
  /\ UNCHANGED <<swept, crashes, disk, mutex, pc, job, stream, jobs>>

Sweep(s) ==
  /\ run = "cleanup" /\ s \in plan
  /\ entry' = [entry EXCEPT ![s] = Absent]
  /\ plan' = plan \ {s}
  /\ UNCHANGED <<run, swept, crashes, shaTmp, ingest, orphan, mutex, pc, job, stream, jobs>>

SweepLeftovers ==
  /\ run = "cleanup"
  /\ shaTmp' = [s \in Shas |-> Absent]
  /\ orphan' = FALSE
  /\ UNCHANGED <<ends, entry, ingest, mutex, pc, job, stream, jobs>>

\* A removal fails half way and the sweep goes on, or the run is killed there.
\* The files go in the order of the directory, the ready marker among them.
SweepTorn(s) ==
  /\ run = "cleanup" /\ s \in plan /\ crashes < MaxCrashes
  /\ \E stays \in {FALSE, MarkerStays} :
       entry' = [entry EXCEPT ![s] = TreeOf(entry[s].of, FALSE, IF entry[s].ready THEN stays ELSE FALSE)]
  /\ \/ UNCHANGED run /\ plan' = plan \ {s}
     \/ run' = "none" /\ plan' = {}
  /\ crashes' = crashes + 1
  /\ UNCHANGED <<swept, shaTmp, ingest, orphan, mutex, pc, job, stream, jobs>>

\* The sweep is over, or its context was canceled before the next tree.
EndCleanup ==
  /\ run = "cleanup"
  /\ run' = "none"
  /\ plan' = {}
  /\ UNCHANGED <<swept, crashes, disk, mutex, pc, job, stream, jobs>>

\* A kill: memory is gone, the disk stays as it is.
Crash ==
  /\ run # "none" /\ crashes < MaxCrashes
  /\ run' = "none"
  /\ crashes' = crashes + 1
  /\ plan' = {}
  /\ pc' = [w \in Workers |-> "idle"]
  /\ mutex' = [s \in Shas |-> Nobody]
  /\ orphan' = (orphan \/ \E w \in Workers : ingest[w] # Absent)
  /\ ingest' = [w \in Workers |-> Absent]
  /\ kind' = [w \in Workers |-> "file"]
  /\ sha' = [w \in Workers |-> AnySha] /\ tar' = sha'
  /\ own' = [w \in Workers |-> FALSE]
  /\ left' = [w \in Workers |-> 0] /\ pipe' = [w \in Workers |-> "closed"]
  /\ broken' = [w \in Workers |-> FALSE]
  /\ UNCHANGED <<swept, entry, shaTmp, jobs>>

File(w) ==
  \/ CheckReady(w) \/ LockSha(w) \/ FoundReady(w) \/ FoundUnready(w) \/ Unpack(w)
  \/ Unpacked(w) \/ Mark(w) \/ Clear(w) \/ Rename(w) \/ Fail(w) \/ Materialized(w)

Fetch(w) ==
  \/ Read(w) \/ Write(w) \/ CopyEnds(w) \/ UnpackEnds(w) \/ Drained(w) \/ Discard(w)
  \/ Promote(w) \/ PromoteFails(w) \/ Commit(w) \/ CommitFails(w)

Runs ==
  \/ StartInstall \/ EndInstall \/ EndCleanup \/ SweepLeftovers \/ Crash
  \/ \E keep \in SUBSET Shas : StartCleanup(keep)
  \/ \E s \in Shas : Sweep(s) \/ SweepTorn(s)

Next ==
  \/ \E w \in Workers :
       \/ File(w) \/ Fetch(w)
       \/ \E c \in Shas : Download(w, c)
       \/ \E s, c \in Shas, o \in BOOLEAN : Ensure(w, s, c, o)
  \/ Runs

Spec == Init /\ [][Next]_vars
\* The scheduler runs every goroutine; nothing forces an artifact to be taken up.
FairSpec == Spec /\ \A w \in Workers : WF_vars(File(w) \/ Fetch(w))

-----------------------------------------------------------------------------
(***************************************************************************)
(* Properties.                                                             *)
(***************************************************************************)
\* A tree isReady accepts is complete and was unpacked from bytes that hash to
\* its name, whatever records disagree with their tarballs (verifyTarballSHA)
\* and wherever runs are killed; a removal that stops half way breaks it only
\* by leaving the marker (MarkerStays).
ReadyMeansWhole == \A s \in Shas : entry[s].ready => entry[s] = Finished(s)

\* A tree that Ensure handed out stays in place, whole, until its worker has
\* linked it into the install path: no worker that came for the same digest,
\* with a tarball or a promotion, removes or replaces it meanwhile.
HandedStays == \A w \in Workers : pc[w] = "handed" => entry[sha[w]] = Finished(sha[w])

\* In an install whose start swept the store, a leftover named by a digest is
\* being filled by the one worker that holds the digest's mutex, and an ingest
\* directory belongs to a worker still streaming or filing it: every failure
\* on the way removed its own.
TempsOwned ==
  run = "install" /\ swept =>
    /\ \A s \in Shas : shaTmp[s] # Absent =>
         \E w \in Workers : /\ mutex[s] = w /\ sha[w] = s /\ kind[w] = "file"
                          /\ pc[w] \in {"unpack", "mark", "clear", "rename"}
    /\ \A w \in Workers : ingest[w] # Absent =>
         kind[w] = "stream" /\ pc[w] \in Streaming \cup {"lock"} \cup Filing

\* The store implements a set of contents: a run's trees are only added to, and
\* none is dropped while a worker reads it.
Store == INSTANCE ContentStore WITH
  have <- {s \in Shas : entry[s] = Finished(s)},
  held <- [w \in Workers |-> IF pc[w] = "handed" THEN sha[w] ELSE None]
IsContentStore == Store!Spec

\* Every artifact a worker takes up comes to an end: the pipe between a download
\* and its untar is drained whichever ends first, and every mutex is released.
JobsEnd == \A w \in Workers : pc[w] # "idle" ~> pc[w] = "idle"
=============================================================================
