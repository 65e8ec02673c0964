------------------------ MODULE ExtractedStoreProofs ------------------------
(***************************************************************************)
(* Theorems about the store of unpacked trees, for every set of digests and *)
(* workers and every number of jobs and kills.                             *)
(***************************************************************************)
EXTENDS ExtractedStore, TLAPS

USE NoneAssumption, BoundsAssumption

-----------------------------------------------------------------------------
(***************************************************************************)
(* Type correctness.                                                       *)
(***************************************************************************)
\* There is a digest.
LEMMA AnyShaType == AnySha \in Shas
BY DEF AnySha

\* The trees the code makes are trees, and stay trees as they are finished or torn.
LEMMA TreeType ==
  /\ Absent \in Tree
  /\ \A s \in Shas : Begun(s) \in Tree /\ Finished(s) \in Tree /\ Legacy(s) \in Tree
  /\ \A t \in Tree, b, c \in BOOLEAN : TreeOf(t.of, b, c) \in Tree
BY DEF Tree, TreeOf, Absent, Begun, Finished, Legacy

\* The initial state is well typed.
LEMMA InitType == Init => TypeOK
<1> SUFFICES ASSUME Init  PROVE TypeOK
  OBVIOUS
<1>1. entry \in [Shas -> Tree]
  BY TreeType DEF Init
<1>2. shaTmp \in [Shas -> Tree] /\ ingest \in [Workers -> Tree]
  BY TreeType DEF Init
<1>. QED  BY <1>1, <1>2, AnyShaType DEF Init, TypeOK

\* A returning call leaves well-typed locals.
LEMMA DoneType ==
  ASSUME TypeOK, NEW w \in Workers, Done(w)
  PROVE  /\ pc' \in [Workers -> {"idle", "commit", "check", "lock", "handed"} \cup Streaming \cup Filing]
         /\ kind' \in [Workers -> {"file", "stream"}]
         /\ sha' \in [Workers -> Shas] /\ tar' \in [Workers -> Shas] /\ own' \in [Workers -> BOOLEAN]
         /\ left' \in [Workers -> Nat]
         /\ pipe' \in [Workers -> {"unpack", "drain", "closed"}] /\ broken' \in [Workers -> BOOLEAN]
BY AnyShaType DEF TypeOK, Done, Go

\* Filling a temp tree keeps the types.
LEMMA SetTempType ==
  ASSUME TypeOK, NEW w \in Workers, NEW t \in Tree, SetTemp(w, t)
  PROVE  shaTmp' \in [Shas -> Tree] /\ ingest' \in [Workers -> Tree]
BY DEF TypeOK, SetTemp

\* The temp tree a worker fills is a tree.
LEMMA TempType ==
  ASSUME TypeOK, NEW w \in Workers
  PROVE  Temp(w) \in Tree
BY DEF TypeOK, Temp

\* Every step of filing a tree keeps the types.
LEMMA FileType ==
  ASSUME TypeOK, NEW w \in Workers, File(w)
  PROVE  TypeOK'
<1> USE DEF TypeOK, ends, disk, job, stream, Go, Unlock, Served, Streaming, Filing, Tree, TreeOf, Absent, Begun
<1>1. CASE CheckReady(w)  BY <1>1 DEF CheckReady
<1>2. CASE LockSha(w)  BY <1>2 DEF LockSha
<1>3. CASE FoundReady(w)  BY <1>3 DEF FoundReady
<1>4. CASE FoundUnready(w)  BY <1>4 DEF FoundUnready
<1>5. CASE Unpack(w)  BY <1>5, SetTempType DEF Unpack
<1>6. CASE Unpacked(w)  BY <1>6, SetTempType, TempType DEF Unpacked
<1>7. CASE Mark(w)  BY <1>7, SetTempType, TempType DEF Mark
<1>8. CASE Clear(w)  BY <1>8 DEF Clear
<1>9. CASE Rename(w)  BY <1>9, SetTempType, TempType DEF Rename
<1>10. CASE Fail(w)
  <2>1. entry' \in [Shas -> Tree]
    <3>1. CASE entry' = entry
      BY <3>1
    <3>2. CASE entry' = [entry EXCEPT ![sha[w]] = TreeOf(@.of, FALSE, @.ready)]
      BY <3>2
    <3>. QED  BY <1>10, <3>1, <3>2, Zenon DEF Fail
  <2>2. shaTmp' \in [Shas -> Tree] /\ ingest' \in [Workers -> Tree]
    BY <1>10, SetTempType, TreeType DEF Fail, DropTemp
  <2>. QED  BY <1>10, <2>1, <2>2, DoneType DEF Fail
<1>11. CASE Materialized(w)  BY <1>11, DoneType DEF Materialized
<1>. QED  BY <1>1, <1>2, <1>3, <1>4, <1>5, <1>6, <1>7, <1>8, <1>9, <1>10, <1>11 DEF File

\* Every step of a download keeps the types.
LEMMA FetchType ==
  ASSUME TypeOK, NEW w \in Workers, Fetch(w)
  PROVE  TypeOK'
<1> USE DEF TypeOK, ends, disk, job, stream, Go, Streaming, Filing, Tree, TreeOf, Absent
<1>1. CASE Read(w)  BY <1>1 DEF Read
<1>2. CASE Write(w)  BY <1>2 DEF Write
<1>3. CASE CopyEnds(w)  BY <1>3 DEF CopyEnds
<1>4. CASE UnpackEnds(w)
  <2>1. ingest' \in [Workers -> Tree]
    <3>1. PICK ok \in BOOLEAN : ingest' = [ingest EXCEPT ![w] = TreeOf(@.of, ok, @.ready)]
      BY <1>4 DEF UnpackEnds
    <3>. QED  BY <3>1, TreeType
  <2>. QED  BY <1>4, <2>1 DEF UnpackEnds
<1>5. CASE Drained(w)  BY <1>5 DEF Drained
<1>6. CASE Discard(w)  BY <1>6, DoneType DEF Discard
<1>7. CASE Promote(w)  BY <1>7 DEF Promote
<1>8. CASE PromoteFails(w)  BY <1>8, DoneType DEF PromoteFails
<1>9. CASE Commit(w)  BY <1>9 DEF Commit
<1>10. CASE CommitFails(w)  BY <1>10, DoneType DEF CommitFails
<1>. QED  BY <1>1, <1>2, <1>3, <1>4, <1>5, <1>6, <1>7, <1>8, <1>9, <1>10 DEF Fetch

\* What a removal leaves that stopped half way and has taken the marker.
LEMMA TornEntry ==
  ASSUME ~MarkerStays, NEW s \in Shas, SweepTorn(s)
  PROVE  entry' = [entry EXCEPT ![s] = TreeOf(entry[s].of, FALSE, FALSE)]
<1>1. PICK stays \in {FALSE, MarkerStays} :
        entry' = [entry EXCEPT ![s] = TreeOf(entry[s].of, FALSE, IF entry[s].ready THEN stays ELSE FALSE)]
  BY DEF SweepTorn
<1>2. stays = FALSE
  BY <1>1, BoundsAssumption
<1>. QED  BY <1>1, <1>2

\* Every step of a run as a whole keeps the types.
LEMMA RunsType ==
  ASSUME TypeOK, Runs
  PROVE  TypeOK'
<1> USE AnyShaType DEF TypeOK, ends, disk, job, stream, Streaming, Filing, Tree, TreeOf, Absent
<1>1. CASE StartInstall
  <2>1. swept' \in BOOLEAN /\ orphan' \in BOOLEAN
    BY <1>1, Zenon DEF StartInstall
  <2>2. CASE shaTmp' = [s \in Shas |-> Absent]
    BY <1>1, <2>1, <2>2 DEF StartInstall
  <2>3. CASE shaTmp' = shaTmp
    BY <1>1, <2>1, <2>3 DEF StartInstall
  <2>. QED  BY <1>1, <2>2, <2>3, Zenon DEF StartInstall
<1>2. CASE EndInstall       BY <1>2 DEF EndInstall
<1>3. CASE EndCleanup       BY <1>3 DEF EndCleanup
<1>4. CASE SweepLeftovers   BY <1>4 DEF SweepLeftovers
<1>5. CASE Crash            BY <1>5 DEF Crash
<1>6. ASSUME NEW keep \in SUBSET Shas, StartCleanup(keep)  PROVE TypeOK'
  BY <1>6 DEF StartCleanup
<1>7. ASSUME NEW s \in Shas, Sweep(s)  PROVE TypeOK'
  BY <1>7 DEF Sweep
<1>8. ASSUME NEW s \in Shas, SweepTorn(s)  PROVE TypeOK'
  <2>1. PICK stays \in {FALSE, MarkerStays} :
          entry' = [entry EXCEPT ![s] = TreeOf(entry[s].of, FALSE, IF entry[s].ready THEN stays ELSE FALSE)]
    BY <1>8 DEF SweepTorn
  <2>4. (IF entry[s].ready THEN stays ELSE FALSE) \in BOOLEAN
    BY <2>1, BoundsAssumption
  <2>2. entry' \in [Shas -> Tree]
    BY <2>1, <2>4, TreeType
  <2>3. run' \in {"none", "install", "cleanup"} /\ plan' \in SUBSET Shas
    BY <1>8 DEF SweepTorn
  <2>5. UNCHANGED <<swept, shaTmp, ingest, orphan, mutex, pc, job, stream, jobs>> /\ crashes' = crashes + 1
    BY <1>8 DEF SweepTorn
  <2>. QED  BY <2>2, <2>3, <2>5
<1>. QED  BY <1>1, <1>2, <1>3, <1>4, <1>5, <1>6, <1>7, <1>8 DEF Runs

\* A worker that takes an artifact up keeps the types.
LEMMA TakeUpType ==
  ASSUME TypeOK, NEW w \in Workers, NEW c \in Shas, NEW s \in Shas,
         NEW o \in BOOLEAN,
         Download(w, c) \/ Ensure(w, s, c, o)
  PROVE  TypeOK'
<1> USE DEF TypeOK, ends, disk, job, stream, Go, Streaming, Filing, Begun, Tree, TreeOf
<1>1. CASE Download(w, c)   BY <1>1 DEF Download
<1>2. CASE Ensure(w, s, c, o)  BY <1>2 DEF Ensure
<1>. QED  BY <1>1, <1>2

\* Every step keeps the types.
LEMMA NextType == TypeOK /\ [Next]_vars => TypeOK'
<1> SUFFICES ASSUME TypeOK, [Next]_vars  PROVE TypeOK'
  OBVIOUS
<1>1. CASE UNCHANGED vars
  BY <1>1 DEF TypeOK, vars, ends, disk, job, stream
<1>2. CASE Next
  BY <1>2, FileType, FetchType, RunsType, TakeUpType DEF Next
<1>. QED  BY <1>1, <1>2

\* Disk, mutexes, workers and runs stay within their types (TypeOK).
THEOREM TypeCorrect == Spec => []TypeOK
<1>. QED  BY InitType, NextType, PTL DEF Spec

-----------------------------------------------------------------------------
(***************************************************************************)
(* The inductive invariant.                                                *)
(***************************************************************************)
\* Workers are at work only in an install run.
WorkersInInstall == \A w \in Workers : pc[w] # "idle" => run = "install"

\* A worker filing a tree holds its digest's mutex, so that no two file the
\* same digest, and past the second check there is no ready tree in the way.
Locked ==
  \A w \in Workers :
    /\ pc[w] \in Filing => mutex[sha[w]] = w
    /\ pc[w] \in Filing \ {"recheck"} => ~entry[sha[w]].ready

\* Where a worker may be follows from what it works on.
KindKnown ==
  \A w \in Workers :
    /\ pc[w] \in Streaming \cup {"commit"} => kind[w] = "stream"
    /\ pc[w] \in {"check", "verify", "unpack", "handed"} => kind[w] = "file"

\* The digest a worker works under is that of its bytes: hashed by this run,
\* hashed by verifyTarballSHA, or hashed on the way through the stream.
Named ==
  \A w \in Workers :
    /\ kind[w] = "file" /\ own[w] => tar[w] = sha[w]
    /\ kind[w] = "file" /\ pc[w] \in {"unpack", "mark", "clear", "rename"} => tar[w] = sha[w]
    /\ kind[w] = "stream" /\ pc[w] \notin Streaming => tar[w] = sha[w]

\* What a worker's temp tree holds at each stage.
TempFilled ==
  \A w \in Workers :
    /\ pc[w] = "unpack" => shaTmp[sha[w]].of = tar[w]
    /\ pc[w] \in {"mark", "clear", "rename"} => Temp(w).of = tar[w] /\ Temp(w).whole
    /\ pc[w] \in {"clear", "rename"} => Temp(w).ready

\* What the ingest directory of a download holds, until it is marked: the tree
\* is whole by the time the pipe is closed.
IngestFilled ==
  \A w \in Workers :
    /\ pc[w] \in Streaming =>
         \/ ingest[w].of = tar[w] /\ (pipe[w] = "closed" => ingest[w].whole)
         \/ ingest[w] = Absent /\ pipe[w] = "closed"
    /\ pc[w] \in {"stream", "write"} => pipe[w] # "closed"
    /\ kind[w] = "stream" /\ pc[w] \in {"lock", "recheck"} =>
         ingest[w].of = tar[w] /\ ingest[w].whole

IInv ==
  /\ ~MarkerStays
  /\ TypeOK /\ WorkersInInstall /\ Locked /\ KindKnown /\ Named /\ TempFilled /\ IngestFilled
  /\ ReadyMeansWhole /\ HandedStays

\* A complete tree under a ready marker is the finished tree of its artifact,
\* no tree and an older marker are not ready, and tearing adds no marker.
LEMMA WholeTrees ==
  /\ \A t \in Tree, s \in Shas : t.of = s /\ t.whole /\ t.ready => t = Finished(s)
  /\ ~Absent.ready
  /\ \A s \in Shas : ~Legacy(s).ready /\ Finished(s).ready
  /\ \A t \in Tree, b, c \in BOOLEAN : TreeOf(t.of, b, c).ready = c
BY DEF Tree, TreeOf, Absent, Finished, Legacy

\* A tree that was handed out is ready.
LEMMA HandedReady ==
  ASSUME TypeOK, HandedStays
  PROVE  \A v \in Workers : pc[v] = "handed" => entry[sha[v]].ready
<1> SUFFICES ASSUME NEW v \in Workers, pc[v] = "handed"  PROVE entry[sha[v]].ready
  OBVIOUS
<1>1. entry[sha[v]] = Finished(sha[v])
  BY DEF HandedStays
<1>. QED  BY <1>1 DEF Finished, TreeOf

\* The initial state satisfies the inductive invariant.
LEMMA InitInv == ~MarkerStays /\ Init => IInv
<1> SUFFICES ASSUME ~MarkerStays, Init  PROVE IInv
  OBVIOUS
<1>1. TypeOK
  BY InitType
<1>2. ReadyMeansWhole
  BY WholeTrees DEF Init, ReadyMeansWhole
<1>. QED  BY <1>1, <1>2
DEF Init, IInv, WorkersInInstall, Locked, KindKnown, Named, TempFilled, IngestFilled, Filing, Streaming,
    HandedStays

\* Filing a tree keeps the inductive invariant.
LEMMA FileInv ==
  ASSUME IInv, NEW w \in Workers, File(w)
  PROVE  IInv'
<1> USE DEF TypeOK, ends, disk, job, stream, Go, Filing, Streaming, Unlock, Served, Done, SetTemp, Temp, DropTemp, Verified
<1>0. TypeOK /\ TypeOK'
  BY FileType DEF IInv
<1>1. CASE CheckReady(w)
  <2>1. WorkersInInstall'
    BY <1>0, <1>1 DEF CheckReady, IInv, WorkersInInstall
  <2>2. Locked'
    BY <1>0, <1>1 DEF CheckReady, IInv, Locked
  <2>3. KindKnown'
    BY <1>0, <1>1 DEF CheckReady, IInv, KindKnown
  <2>4. Named'
    BY <1>0, <1>1 DEF CheckReady, IInv, KindKnown, Named
  <2>5. TempFilled'
    BY <1>0, <1>1 DEF CheckReady, IInv, KindKnown, Named, Locked, TempFilled, IngestFilled, TreeOf, Absent, Begun, Tree
  <2>6. IngestFilled'
    BY <1>0, <1>1 DEF CheckReady, IInv, KindKnown, IngestFilled, TreeOf, Absent, Begun, Tree
  <2>7. ReadyMeansWhole'
    BY <1>0, <1>1, WholeTrees DEF CheckReady, IInv, KindKnown, Named, TempFilled, ReadyMeansWhole
  <2>8. HandedStays'
    BY <1>0, <1>1, WholeTrees DEF CheckReady, IInv, KindKnown, Named, Locked, TempFilled, ReadyMeansWhole, HandedStays
  <2>. QED  BY <1>0, <2>1, <2>2, <2>3, <2>4, <2>5, <2>6, <2>7, <2>8 DEF IInv
<1>2. CASE LockSha(w)
  <2>1. WorkersInInstall'
    BY <1>0, <1>2 DEF LockSha, IInv, WorkersInInstall
  <2>2. Locked'
    BY <1>0, <1>2 DEF LockSha, IInv, Locked
  <2>3. KindKnown'
    BY <1>0, <1>2 DEF LockSha, IInv, KindKnown
  <2>4. Named'
    BY <1>0, <1>2 DEF LockSha, IInv, KindKnown, Named
  <2>5. TempFilled'
    BY <1>0, <1>2 DEF LockSha, IInv, KindKnown, Named, Locked, TempFilled, IngestFilled, TreeOf, Absent, Begun, Tree
  <2>6. IngestFilled'
    BY <1>0, <1>2 DEF LockSha, IInv, KindKnown, IngestFilled, TreeOf, Absent, Begun, Tree
  <2>7. ReadyMeansWhole'
    BY <1>0, <1>2, WholeTrees DEF LockSha, IInv, KindKnown, Named, TempFilled, ReadyMeansWhole
  <2>8. HandedStays'
    BY <1>0, <1>2, WholeTrees DEF LockSha, IInv, KindKnown, Named, Locked, TempFilled, ReadyMeansWhole, HandedStays
  <2>. QED  BY <1>0, <2>1, <2>2, <2>3, <2>4, <2>5, <2>6, <2>7, <2>8 DEF IInv
<1>3. CASE FoundReady(w)
  <2>1. WorkersInInstall'
    BY <1>0, <1>3 DEF FoundReady, IInv, WorkersInInstall
  <2>2. Locked'
    BY <1>0, <1>3 DEF FoundReady, IInv, Locked
  <2>3. KindKnown'
    BY <1>0, <1>3 DEF FoundReady, IInv, KindKnown
  <2>4. Named'
    BY <1>0, <1>3 DEF FoundReady, IInv, KindKnown, Named
  <2>5. TempFilled'
    BY <1>0, <1>3 DEF FoundReady, IInv, KindKnown, Named, Locked, TempFilled, IngestFilled, TreeOf, Absent, Begun, Tree
  <2>6. IngestFilled'
    BY <1>0, <1>3 DEF FoundReady, IInv, KindKnown, IngestFilled, TreeOf, Absent, Begun, Tree
  <2>7. ReadyMeansWhole'
    BY <1>0, <1>3, WholeTrees DEF FoundReady, IInv, KindKnown, Named, TempFilled, ReadyMeansWhole
  <2>8. HandedStays'
    BY <1>0, <1>3, WholeTrees DEF FoundReady, IInv, KindKnown, Named, Locked, TempFilled, ReadyMeansWhole, HandedStays
  <2>. QED  BY <1>0, <2>1, <2>2, <2>3, <2>4, <2>5, <2>6, <2>7, <2>8 DEF IInv
<1>4. CASE FoundUnready(w)
  <2>1. WorkersInInstall'
    BY <1>0, <1>4 DEF FoundUnready, IInv, WorkersInInstall
  <2>2. Locked'
    BY <1>0, <1>4 DEF FoundUnready, IInv, Locked
  <2>3. KindKnown'
    BY <1>0, <1>4 DEF FoundUnready, IInv, KindKnown
  <2>4. Named'
    BY <1>0, <1>4 DEF FoundUnready, IInv, KindKnown, Named
  <2>5. TempFilled'
    BY <1>0, <1>4 DEF FoundUnready, IInv, KindKnown, Named, Locked, TempFilled, IngestFilled, TreeOf, Absent, Begun, Tree
  <2>6. IngestFilled'
    BY <1>0, <1>4 DEF FoundUnready, IInv, KindKnown, IngestFilled, TreeOf, Absent, Begun, Tree
  <2>7. ReadyMeansWhole'
    BY <1>0, <1>4, WholeTrees DEF FoundUnready, IInv, KindKnown, Named, TempFilled, ReadyMeansWhole
  <2>8. HandedStays'
    BY <1>0, <1>4, WholeTrees DEF FoundUnready, IInv, KindKnown, Named, Locked, TempFilled, ReadyMeansWhole, HandedStays
  <2>. QED  BY <1>0, <2>1, <2>2, <2>3, <2>4, <2>5, <2>6, <2>7, <2>8 DEF IInv
<1>5. CASE Unpack(w)
  <2>1. WorkersInInstall'
    BY <1>0, <1>5 DEF Unpack, IInv, WorkersInInstall
  <2>2. Locked'
    BY <1>0, <1>5 DEF Unpack, IInv, Locked
  <2>3. KindKnown'
    BY <1>0, <1>5 DEF Unpack, IInv, KindKnown
  <2>4. Named'
    BY <1>0, <1>5 DEF Unpack, IInv, KindKnown, Named
  <2>5. TempFilled'
    BY <1>0, <1>5 DEF Unpack, IInv, KindKnown, Named, Locked, TempFilled, IngestFilled, TreeOf, Absent, Begun, Tree
  <2>6. IngestFilled'
    BY <1>0, <1>5 DEF Unpack, IInv, KindKnown, IngestFilled, TreeOf, Absent, Begun, Tree
  <2>7. ReadyMeansWhole'
    BY <1>0, <1>5, WholeTrees DEF Unpack, IInv, KindKnown, Named, TempFilled, ReadyMeansWhole
  <2>8. HandedStays'
    BY <1>0, <1>5, WholeTrees DEF Unpack, IInv, KindKnown, Named, Locked, TempFilled, ReadyMeansWhole, HandedStays
  <2>. QED  BY <1>0, <2>1, <2>2, <2>3, <2>4, <2>5, <2>6, <2>7, <2>8 DEF IInv
<1>6. CASE Unpacked(w)
  <2>1. WorkersInInstall'
    BY <1>0, <1>6 DEF Unpacked, IInv, WorkersInInstall
  <2>2. Locked'
    BY <1>0, <1>6 DEF Unpacked, IInv, Locked
  <2>3. KindKnown'
    BY <1>0, <1>6 DEF Unpacked, IInv, KindKnown
  <2>4. Named'
    BY <1>0, <1>6 DEF Unpacked, IInv, KindKnown, Named
  <2>5. TempFilled'
    BY <1>0, <1>6 DEF Unpacked, IInv, KindKnown, Named, Locked, TempFilled, IngestFilled, TreeOf, Absent, Begun, Tree
  <2>6. IngestFilled'
    BY <1>0, <1>6 DEF Unpacked, IInv, KindKnown, IngestFilled, TreeOf, Absent, Begun, Tree
  <2>7. ReadyMeansWhole'
    BY <1>0, <1>6, WholeTrees DEF Unpacked, IInv, KindKnown, Named, TempFilled, ReadyMeansWhole
  <2>8. HandedStays'
    BY <1>0, <1>6, WholeTrees DEF Unpacked, IInv, KindKnown, Named, Locked, TempFilled, ReadyMeansWhole, HandedStays
  <2>. QED  BY <1>0, <2>1, <2>2, <2>3, <2>4, <2>5, <2>6, <2>7, <2>8 DEF IInv
<1>7. CASE Mark(w)
  <2>1. WorkersInInstall'
    BY <1>0, <1>7 DEF Mark, IInv, WorkersInInstall
  <2>2. Locked'
    BY <1>0, <1>7 DEF Mark, IInv, Locked
  <2>3. KindKnown'
    BY <1>0, <1>7 DEF Mark, IInv, KindKnown
  <2>4. Named'
    BY <1>0, <1>7 DEF Mark, IInv, KindKnown, Named
  <2>5. TempFilled'
    BY <1>0, <1>7 DEF Mark, IInv, KindKnown, Named, Locked, TempFilled, IngestFilled, TreeOf, Absent, Begun, Tree
  <2>6. IngestFilled'
    BY <1>0, <1>7 DEF Mark, IInv, KindKnown, IngestFilled, TreeOf, Absent, Begun, Tree
  <2>7. ReadyMeansWhole'
    BY <1>0, <1>7, WholeTrees DEF Mark, IInv, KindKnown, Named, TempFilled, ReadyMeansWhole
  <2>8. HandedStays'
    BY <1>0, <1>7, WholeTrees DEF Mark, IInv, KindKnown, Named, Locked, TempFilled, ReadyMeansWhole, HandedStays
  <2>. QED  BY <1>0, <2>1, <2>2, <2>3, <2>4, <2>5, <2>6, <2>7, <2>8 DEF IInv
<1>8. CASE Clear(w)
  <2>1. WorkersInInstall'
    BY <1>0, <1>8 DEF Clear, IInv, WorkersInInstall
  <2>2. Locked'
    BY <1>0, <1>8 DEF Clear, IInv, Locked, Absent, TreeOf
  <2>3. KindKnown'
    BY <1>0, <1>8 DEF Clear, IInv, KindKnown
  <2>4. Named'
    BY <1>0, <1>8 DEF Clear, IInv, KindKnown, Named
  <2>5. TempFilled'
    BY <1>0, <1>8 DEF Clear, IInv, KindKnown, Named, Locked, TempFilled, IngestFilled, TreeOf, Absent, Begun, Tree
  <2>6. IngestFilled'
    BY <1>0, <1>8 DEF Clear, IInv, KindKnown, IngestFilled, TreeOf, Absent, Begun, Tree
  <2>7. ReadyMeansWhole'
    BY <1>0, <1>8, WholeTrees DEF Clear, IInv, KindKnown, Named, TempFilled, ReadyMeansWhole
  <2>8. HandedStays'
    <3>1. ~entry[sha[w]].ready /\ \A v \in Workers : pc[v] = "handed" => entry[sha[v]].ready
      BY <1>0, <1>8, HandedReady DEF Clear, IInv, Locked
    <3>2. \A v \in Workers : pc'[v] = "handed" => pc[v] = "handed" /\ sha[v] # sha[w]
      BY <1>0, <1>8, <3>1 DEF Clear
    <3>. QED  BY <1>0, <1>8, <3>2 DEF Clear, IInv, HandedStays
  <2>. QED  BY <1>0, <2>1, <2>2, <2>3, <2>4, <2>5, <2>6, <2>7, <2>8 DEF IInv
<1>9. CASE Rename(w)
  <2>1. WorkersInInstall'
    BY <1>0, <1>9 DEF Rename, IInv, WorkersInInstall
  <2>2. Locked'
    BY <1>0, <1>9 DEF Rename, IInv, Locked
  <2>3. KindKnown'
    BY <1>0, <1>9 DEF Rename, IInv, KindKnown
  <2>4. Named'
    BY <1>0, <1>9 DEF Rename, IInv, KindKnown, Named
  <2>5. TempFilled'
    BY <1>0, <1>9 DEF Rename, IInv, Locked, KindKnown, TempFilled
  <2>6. IngestFilled'
    BY <1>0, <1>9 DEF Rename, IInv, KindKnown, IngestFilled, TreeOf, Absent, Begun, Tree
  <2>7. ReadyMeansWhole'
    <3>1. Temp(w) \in Tree /\ Temp(w).of = sha[w] /\ Temp(w).whole /\ Temp(w).ready
      BY <1>0, <1>9, TempType DEF Rename, IInv, TempFilled, Named
    <3>2. Temp(w) = Finished(sha[w])
      BY <1>0, <3>1, WholeTrees
    <3>3. entry' = [entry EXCEPT ![sha[w]] = Finished(sha[w])]
      BY <1>9, <3>2 DEF Rename
    <3>. QED  BY <1>0, <3>3 DEF IInv, ReadyMeansWhole
  <2>8. HandedStays'
    <3>1. entry'[sha[w]].ready
      BY <1>0, <1>9, TempType DEF Rename, IInv, TempFilled
    <3>2. \A v \in Workers : pc'[v] = "handed" => sha'[v] = sha[v] /\ (v = w \/ pc[v] = "handed")
      BY <1>0, <1>9 DEF Rename
    <3>3. \A v \in Workers : pc[v] = "handed" => entry[sha[v]].ready
      BY <1>0, HandedReady DEF IInv
    <3>4. \A v \in Workers : pc'[v] = "handed" => entry'[sha'[v]].ready
      BY <1>0, <1>9, <3>1, <3>2, <3>3 DEF Rename
    <3>. QED  BY <1>0, <2>7, <3>4 DEF HandedStays, ReadyMeansWhole
  <2>. QED  BY <1>0, <2>1, <2>2, <2>3, <2>4, <2>5, <2>6, <2>7, <2>8 DEF IInv
<1>10. CASE Fail(w)
  <2>1. WorkersInInstall'
    BY <1>0, <1>10 DEF Fail, IInv, WorkersInInstall
  <2>2. Locked'
    <3>1. CASE entry' = entry
      BY <1>0, <1>10, <3>1 DEF Fail, IInv, Locked
    <3>2. CASE entry' = [entry EXCEPT ![sha[w]] = TreeOf(@.of, FALSE, @.ready)]
      BY <1>0, <1>10, <3>2 DEF Fail, IInv, Locked, TreeOf
    <3>. QED  BY <1>10, <3>1, <3>2, Zenon DEF Fail
  <2>3. KindKnown'
    BY <1>0, <1>10 DEF Fail, IInv, KindKnown
  <2>4. Named'
    BY <1>0, <1>10 DEF Fail, IInv, KindKnown, Named
  <2>5. TempFilled'
    <3>1. pc'[w] = "idle"
      BY <1>0, <1>10 DEF Fail
    <3>2. \A v \in Workers \ {w} : pc'[v] = pc[v] /\ kind'[v] = kind[v] /\ sha'[v] = sha[v] /\ tar'[v] = tar[v]
      BY <1>0, <1>10 DEF Fail
    <3>3. \A v \in Workers \ {w} : pc[v] \in Filing => sha[v] # sha[w]
      BY <1>0, <1>10 DEF Fail, IInv, Locked
    <3>4. \A v \in Workers \ {w} : pc[v] \in Filing => ingest'[v] = ingest[v] /\ shaTmp'[sha[v]] = shaTmp[sha[v]]
      <4>1. CASE pc[w] = "verify"
        BY <1>0, <1>10, <4>1 DEF Fail, DropTemp
      <4>2. CASE pc[w] # "verify"
        BY <1>0, <1>10, <3>3, <4>2 DEF Fail, DropTemp, SetTemp, IInv
      <4>. QED  BY <4>1, <4>2
    <3>. QED  BY <1>0, <3>1, <3>2, <3>4 DEF IInv, TempFilled
  <2>6. IngestFilled'
    BY <1>0, <1>10 DEF Fail, IInv, KindKnown, IngestFilled, TreeOf, Absent, Begun, Tree
  <2>7. ReadyMeansWhole'
    <3>1. CASE entry' = entry
      BY <1>0, <3>1 DEF IInv, ReadyMeansWhole
    <3>2. CASE pc[w] = "clear" /\ entry' = [entry EXCEPT ![sha[w]] = TreeOf(@.of, FALSE, @.ready)]
      <4>1. ~entry'[sha[w]].ready
        BY <1>0, <3>2 DEF IInv, Locked, TreeOf
      <4>. QED  BY <1>0, <3>2, <4>1 DEF IInv, ReadyMeansWhole
    <3>. QED  BY <1>10, <3>1, <3>2, Zenon DEF Fail
  <2>8. HandedStays'
    <3>1. \A v \in Workers : pc'[v] = "handed" => pc[v] = "handed" /\ sha'[v] = sha[v]
      BY <1>0, <1>10 DEF Fail
    <3>2. CASE entry' = entry
      BY <1>0, <3>1, <3>2 DEF IInv, HandedStays
    <3>3. CASE pc[w] = "clear" /\ entry' = [entry EXCEPT ![sha[w]] = TreeOf(@.of, FALSE, @.ready)]
      <4>1. \A v \in Workers : pc[v] = "handed" => sha[v] # sha[w]
        BY <1>0, <3>3, HandedReady DEF IInv, Locked
      <4>. QED  BY <1>0, <3>1, <3>3, <4>1 DEF IInv, HandedStays
    <3>. QED  BY <1>10, <3>2, <3>3, Zenon DEF Fail
  <2>. QED  BY <1>0, <2>1, <2>2, <2>3, <2>4, <2>5, <2>6, <2>7, <2>8 DEF IInv
<1>11. CASE Materialized(w)
  <2>1. WorkersInInstall'
    BY <1>0, <1>11 DEF Materialized, IInv, WorkersInInstall
  <2>2. Locked'
    BY <1>0, <1>11 DEF Materialized, IInv, Locked
  <2>3. KindKnown'
    BY <1>0, <1>11 DEF Materialized, IInv, KindKnown
  <2>4. Named'
    BY <1>0, <1>11 DEF Materialized, IInv, KindKnown, Named
  <2>5. TempFilled'
    BY <1>0, <1>11 DEF Materialized, IInv, KindKnown, Named, Locked, TempFilled, IngestFilled, TreeOf, Absent, Begun, Tree
  <2>6. IngestFilled'
    BY <1>0, <1>11 DEF Materialized, IInv, KindKnown, IngestFilled, TreeOf, Absent, Begun, Tree
  <2>7. ReadyMeansWhole'
    BY <1>0, <1>11, WholeTrees DEF Materialized, IInv, KindKnown, Named, TempFilled, ReadyMeansWhole
  <2>8. HandedStays'
    BY <1>0, <1>11, WholeTrees DEF Materialized, IInv, KindKnown, Named, Locked, TempFilled, ReadyMeansWhole, HandedStays
  <2>. QED  BY <1>0, <2>1, <2>2, <2>3, <2>4, <2>5, <2>6, <2>7, <2>8 DEF IInv
<1>. QED  BY <1>1, <1>2, <1>3, <1>4, <1>5, <1>6, <1>7, <1>8, <1>9, <1>10, <1>11 DEF File

\* A download keeps the inductive invariant.
LEMMA FetchInv ==
  ASSUME IInv, NEW w \in Workers, Fetch(w)
  PROVE  IInv'
<1> USE DEF TypeOK, ends, disk, job, stream, Go, Filing, Streaming, Done, Temp, Good
<1>0. TypeOK /\ TypeOK'
  BY FetchType DEF IInv
<1>1. CASE Read(w)
  <2>1. WorkersInInstall'
    BY <1>0, <1>1 DEF Read, IInv, WorkersInInstall
  <2>2. Locked'
    BY <1>0, <1>1 DEF Read, IInv, Locked
  <2>3. KindKnown'
    BY <1>0, <1>1 DEF Read, IInv, KindKnown
  <2>4. Named'
    BY <1>0, <1>1 DEF Read, IInv, KindKnown, Named
  <2>5. TempFilled'
    BY <1>0, <1>1 DEF Read, IInv, KindKnown, Named, Locked, TempFilled, IngestFilled, TreeOf, Absent, Begun, Tree
  <2>6. IngestFilled'
    BY <1>0, <1>1 DEF Read, IInv, KindKnown, IngestFilled, TreeOf, Absent, Begun, Tree
  <2>7. ReadyMeansWhole'
    BY <1>0, <1>1, WholeTrees DEF Read, IInv, KindKnown, Named, TempFilled, ReadyMeansWhole
  <2>8. HandedStays'
    BY <1>0, <1>1, WholeTrees DEF Read, IInv, KindKnown, Named, Locked, TempFilled, ReadyMeansWhole, HandedStays
  <2>. QED  BY <1>0, <2>1, <2>2, <2>3, <2>4, <2>5, <2>6, <2>7, <2>8 DEF IInv
<1>2. CASE Write(w)
  <2>1. WorkersInInstall'
    BY <1>0, <1>2 DEF Write, IInv, WorkersInInstall
  <2>2. Locked'
    BY <1>0, <1>2 DEF Write, IInv, Locked
  <2>3. KindKnown'
    BY <1>0, <1>2 DEF Write, IInv, KindKnown
  <2>4. Named'
    BY <1>0, <1>2 DEF Write, IInv, KindKnown, Named
  <2>5. TempFilled'
    BY <1>0, <1>2 DEF Write, IInv, KindKnown, Named, Locked, TempFilled, IngestFilled, TreeOf, Absent, Begun, Tree
  <2>6. IngestFilled'
    BY <1>0, <1>2 DEF Write, IInv, KindKnown, IngestFilled, TreeOf, Absent, Begun, Tree
  <2>7. ReadyMeansWhole'
    BY <1>0, <1>2, WholeTrees DEF Write, IInv, KindKnown, Named, TempFilled, ReadyMeansWhole
  <2>8. HandedStays'
    BY <1>0, <1>2, WholeTrees DEF Write, IInv, KindKnown, Named, Locked, TempFilled, ReadyMeansWhole, HandedStays
  <2>. QED  BY <1>0, <2>1, <2>2, <2>3, <2>4, <2>5, <2>6, <2>7, <2>8 DEF IInv
<1>3. CASE CopyEnds(w)
  <2>1. WorkersInInstall'
    BY <1>0, <1>3 DEF CopyEnds, IInv, WorkersInInstall
  <2>2. Locked'
    BY <1>0, <1>3 DEF CopyEnds, IInv, Locked
  <2>3. KindKnown'
    BY <1>0, <1>3 DEF CopyEnds, IInv, KindKnown
  <2>4. Named'
    BY <1>0, <1>3 DEF CopyEnds, IInv, KindKnown, Named
  <2>5. TempFilled'
    BY <1>0, <1>3 DEF CopyEnds, IInv, KindKnown, Named, Locked, TempFilled, IngestFilled, TreeOf, Absent, Begun, Tree
  <2>6. IngestFilled'
    BY <1>0, <1>3 DEF CopyEnds, IInv, KindKnown, IngestFilled, TreeOf, Absent, Begun, Tree
  <2>7. ReadyMeansWhole'
    BY <1>0, <1>3, WholeTrees DEF CopyEnds, IInv, KindKnown, Named, TempFilled, ReadyMeansWhole
  <2>8. HandedStays'
    BY <1>0, <1>3, WholeTrees DEF CopyEnds, IInv, KindKnown, Named, Locked, TempFilled, ReadyMeansWhole, HandedStays
  <2>. QED  BY <1>0, <2>1, <2>2, <2>3, <2>4, <2>5, <2>6, <2>7, <2>8 DEF IInv
<1>4. CASE UnpackEnds(w)
  <2>1. WorkersInInstall'
    BY <1>0, <1>4 DEF UnpackEnds, IInv, WorkersInInstall
  <2>2. Locked'
    BY <1>0, <1>4 DEF UnpackEnds, IInv, Locked
  <2>3. KindKnown'
    BY <1>0, <1>4 DEF UnpackEnds, IInv, KindKnown
  <2>4. Named'
    BY <1>0, <1>4 DEF UnpackEnds, IInv, KindKnown, Named
  <2>5. TempFilled'
    BY <1>0, <1>4 DEF UnpackEnds, IInv, KindKnown, Named, Locked, TempFilled, IngestFilled, TreeOf, Absent, Begun, Tree
  <2>6. IngestFilled'
    <3>1. PICK ok \in BOOLEAN : ingest' = [ingest EXCEPT ![w] = TreeOf(@.of, ok, @.ready)]
      BY <1>4 DEF UnpackEnds
    <3>2. ingest'[w].of = ingest[w].of
      BY <1>0, <3>1 DEF TreeOf
    <3>. QED  BY <1>0, <1>4, <3>1, <3>2 DEF UnpackEnds, IInv, KindKnown, IngestFilled
  <2>7. ReadyMeansWhole'
    BY <1>0, <1>4, WholeTrees DEF UnpackEnds, IInv, KindKnown, Named, TempFilled, ReadyMeansWhole
  <2>8. HandedStays'
    BY <1>0, <1>4, WholeTrees DEF UnpackEnds, IInv, KindKnown, Named, Locked, TempFilled, ReadyMeansWhole, HandedStays
  <2>. QED  BY <1>0, <2>1, <2>2, <2>3, <2>4, <2>5, <2>6, <2>7, <2>8 DEF IInv
<1>5. CASE Drained(w)
  <2>1. WorkersInInstall'
    BY <1>0, <1>5 DEF Drained, IInv, WorkersInInstall
  <2>2. Locked'
    BY <1>0, <1>5 DEF Drained, IInv, Locked
  <2>3. KindKnown'
    BY <1>0, <1>5 DEF Drained, IInv, KindKnown
  <2>4. Named'
    BY <1>0, <1>5 DEF Drained, IInv, KindKnown, Named
  <2>5. TempFilled'
    BY <1>0, <1>5 DEF Drained, IInv, KindKnown, Named, Locked, TempFilled, IngestFilled, TreeOf, Absent, Begun, Tree
  <2>6. IngestFilled'
    BY <1>0, <1>5 DEF Drained, IInv, KindKnown, IngestFilled
  <2>7. ReadyMeansWhole'
    BY <1>0, <1>5, WholeTrees DEF Drained, IInv, KindKnown, Named, TempFilled, ReadyMeansWhole
  <2>8. HandedStays'
    BY <1>0, <1>5, WholeTrees DEF Drained, IInv, KindKnown, Named, Locked, TempFilled, ReadyMeansWhole, HandedStays
  <2>. QED  BY <1>0, <2>1, <2>2, <2>3, <2>4, <2>5, <2>6, <2>7, <2>8 DEF IInv
<1>6. CASE Discard(w)
  <2>1. WorkersInInstall'
    BY <1>0, <1>6 DEF Discard, IInv, WorkersInInstall
  <2>2. Locked'
    BY <1>0, <1>6 DEF Discard, IInv, Locked
  <2>3. KindKnown'
    BY <1>0, <1>6 DEF Discard, IInv, KindKnown
  <2>4. Named'
    BY <1>0, <1>6 DEF Discard, IInv, KindKnown, Named
  <2>5. TempFilled'
    BY <1>0, <1>6 DEF Discard, IInv, KindKnown, Named, Locked, TempFilled, IngestFilled, TreeOf, Absent, Begun, Tree
  <2>6. IngestFilled'
    BY <1>0, <1>6 DEF Discard, IInv, KindKnown, IngestFilled
  <2>7. ReadyMeansWhole'
    BY <1>0, <1>6, WholeTrees DEF Discard, IInv, KindKnown, Named, TempFilled, ReadyMeansWhole
  <2>8. HandedStays'
    BY <1>0, <1>6, WholeTrees DEF Discard, IInv, KindKnown, Named, Locked, TempFilled, ReadyMeansWhole, HandedStays
  <2>. QED  BY <1>0, <2>1, <2>2, <2>3, <2>4, <2>5, <2>6, <2>7, <2>8 DEF IInv
<1>7. CASE Promote(w)
  <2>1. WorkersInInstall'
    BY <1>0, <1>7 DEF Promote, IInv, WorkersInInstall
  <2>2. Locked'
    BY <1>0, <1>7 DEF Promote, IInv, Locked
  <2>3. KindKnown'
    BY <1>0, <1>7 DEF Promote, IInv, KindKnown
  <2>4. Named'
    BY <1>0, <1>7 DEF Promote, IInv, KindKnown, Named
  <2>5. TempFilled'
    BY <1>0, <1>7 DEF Promote, IInv, KindKnown, Named, Locked, TempFilled, IngestFilled, TreeOf, Absent, Begun, Tree
  <2>6. IngestFilled'
    BY <1>0, <1>7 DEF Promote, IInv, KindKnown, IngestFilled, TreeOf, Absent, Begun, Tree
  <2>7. ReadyMeansWhole'
    BY <1>0, <1>7, WholeTrees DEF Promote, IInv, KindKnown, Named, TempFilled, ReadyMeansWhole
  <2>8. HandedStays'
    BY <1>0, <1>7, WholeTrees DEF Promote, IInv, KindKnown, Named, Locked, TempFilled, ReadyMeansWhole, HandedStays
  <2>. QED  BY <1>0, <2>1, <2>2, <2>3, <2>4, <2>5, <2>6, <2>7, <2>8 DEF IInv
<1>8. CASE PromoteFails(w)
  <2>1. WorkersInInstall'
    BY <1>0, <1>8 DEF PromoteFails, IInv, WorkersInInstall
  <2>2. Locked'
    BY <1>0, <1>8 DEF PromoteFails, IInv, Locked
  <2>3. KindKnown'
    BY <1>0, <1>8 DEF PromoteFails, IInv, KindKnown
  <2>4. Named'
    BY <1>0, <1>8 DEF PromoteFails, IInv, KindKnown, Named
  <2>5. TempFilled'
    BY <1>0, <1>8 DEF PromoteFails, IInv, KindKnown, Named, Locked, TempFilled, IngestFilled, TreeOf, Absent, Begun, Tree
  <2>6. IngestFilled'
    BY <1>0, <1>8 DEF PromoteFails, IInv, KindKnown, IngestFilled
  <2>7. ReadyMeansWhole'
    BY <1>0, <1>8, WholeTrees DEF PromoteFails, IInv, KindKnown, Named, TempFilled, ReadyMeansWhole
  <2>8. HandedStays'
    BY <1>0, <1>8, WholeTrees DEF PromoteFails, IInv, KindKnown, Named, Locked, TempFilled, ReadyMeansWhole, HandedStays
  <2>. QED  BY <1>0, <2>1, <2>2, <2>3, <2>4, <2>5, <2>6, <2>7, <2>8 DEF IInv
<1>9. CASE Commit(w)
  <2>1. WorkersInInstall'
    BY <1>0, <1>9 DEF Commit, IInv, WorkersInInstall
  <2>2. Locked'
    BY <1>0, <1>9 DEF Commit, IInv, Locked
  <2>3. KindKnown'
    BY <1>0, <1>9 DEF Commit, IInv, KindKnown
  <2>4. Named'
    BY <1>0, <1>9 DEF Commit, IInv, KindKnown, Named
  <2>5. TempFilled'
    BY <1>0, <1>9 DEF Commit, IInv, KindKnown, Named, Locked, TempFilled, IngestFilled, TreeOf, Absent, Begun, Tree
  <2>6. IngestFilled'
    BY <1>0, <1>9 DEF Commit, IInv, KindKnown, IngestFilled, TreeOf, Absent, Begun, Tree
  <2>7. ReadyMeansWhole'
    BY <1>0, <1>9, WholeTrees DEF Commit, IInv, KindKnown, Named, TempFilled, ReadyMeansWhole
  <2>8. HandedStays'
    BY <1>0, <1>9, WholeTrees DEF Commit, IInv, KindKnown, Named, Locked, TempFilled, ReadyMeansWhole, HandedStays
  <2>. QED  BY <1>0, <2>1, <2>2, <2>3, <2>4, <2>5, <2>6, <2>7, <2>8 DEF IInv
<1>10. CASE CommitFails(w)
  <2>1. WorkersInInstall'
    BY <1>0, <1>10 DEF CommitFails, IInv, WorkersInInstall
  <2>2. Locked'
    BY <1>0, <1>10 DEF CommitFails, IInv, Locked
  <2>3. KindKnown'
    BY <1>0, <1>10 DEF CommitFails, IInv, KindKnown
  <2>4. Named'
    BY <1>0, <1>10 DEF CommitFails, IInv, KindKnown, Named
  <2>5. TempFilled'
    BY <1>0, <1>10 DEF CommitFails, IInv, KindKnown, Named, Locked, TempFilled, IngestFilled, TreeOf, Absent, Begun, Tree
  <2>6. IngestFilled'
    BY <1>0, <1>10 DEF CommitFails, IInv, KindKnown, IngestFilled, TreeOf, Absent, Begun, Tree
  <2>7. ReadyMeansWhole'
    BY <1>0, <1>10, WholeTrees DEF CommitFails, IInv, KindKnown, Named, TempFilled, ReadyMeansWhole
  <2>8. HandedStays'
    BY <1>0, <1>10, WholeTrees DEF CommitFails, IInv, KindKnown, Named, Locked, TempFilled, ReadyMeansWhole, HandedStays
  <2>. QED  BY <1>0, <2>1, <2>2, <2>3, <2>4, <2>5, <2>6, <2>7, <2>8 DEF IInv
<1>. QED  BY <1>1, <1>2, <1>3, <1>4, <1>5, <1>6, <1>7, <1>8, <1>9, <1>10 DEF Fetch


\* Every step of a run as a whole keeps the inductive invariant, removals
\* that stop half way included.
LEMMA RunsInv ==
  ASSUME IInv, Runs
  PROVE  IInv'
<1> USE DEF TypeOK, ends, disk, job, stream, Filing, Streaming
<1>0. TypeOK /\ TypeOK'
  BY RunsType DEF IInv
<1>1. CASE StartInstall
  <2>1. WorkersInInstall'
    BY <1>0, <1>1 DEF StartInstall, IInv, WorkersInInstall
  <2>2. Locked'
    BY <1>0, <1>1 DEF StartInstall, IInv, WorkersInInstall, Locked
  <2>3. KindKnown'
    BY <1>0, <1>1 DEF StartInstall, IInv, WorkersInInstall, KindKnown
  <2>4. Named'
    BY <1>0, <1>1 DEF StartInstall, IInv, WorkersInInstall, Named
  <2>5. TempFilled'
    BY <1>0, <1>1 DEF StartInstall, IInv, WorkersInInstall, TempFilled, Temp, Locked
  <2>6. IngestFilled'
    BY <1>0, <1>1 DEF StartInstall, IInv, WorkersInInstall, IngestFilled
  <2>7. ReadyMeansWhole'
    BY <1>0, <1>1 DEF StartInstall, IInv, WorkersInInstall, ReadyMeansWhole
  <2>8. HandedStays'
    BY <1>0, <1>1 DEF StartInstall, IInv, WorkersInInstall, HandedStays
  <2>. QED  BY <1>0, <2>1, <2>2, <2>3, <2>4, <2>5, <2>6, <2>7, <2>8 DEF IInv
<1>2. CASE EndInstall
  <2>1. WorkersInInstall'
    BY <1>0, <1>2 DEF EndInstall, IInv, WorkersInInstall
  <2>2. Locked'
    BY <1>0, <1>2 DEF EndInstall, IInv, WorkersInInstall, Locked
  <2>3. KindKnown'
    BY <1>0, <1>2 DEF EndInstall, IInv, WorkersInInstall, KindKnown
  <2>4. Named'
    BY <1>0, <1>2 DEF EndInstall, IInv, WorkersInInstall, Named
  <2>5. TempFilled'
    BY <1>0, <1>2 DEF EndInstall, IInv, WorkersInInstall, TempFilled, Temp, Locked
  <2>6. IngestFilled'
    BY <1>0, <1>2 DEF EndInstall, IInv, WorkersInInstall, IngestFilled
  <2>7. ReadyMeansWhole'
    BY <1>0, <1>2 DEF EndInstall, IInv, WorkersInInstall, ReadyMeansWhole
  <2>8. HandedStays'
    BY <1>0, <1>2 DEF EndInstall, IInv, WorkersInInstall, HandedStays
  <2>. QED  BY <1>0, <2>1, <2>2, <2>3, <2>4, <2>5, <2>6, <2>7, <2>8 DEF IInv
<1>3. CASE EndCleanup
  <2>1. WorkersInInstall'
    BY <1>0, <1>3 DEF EndCleanup, IInv, WorkersInInstall
  <2>2. Locked'
    BY <1>0, <1>3 DEF EndCleanup, IInv, WorkersInInstall, Locked
  <2>3. KindKnown'
    BY <1>0, <1>3 DEF EndCleanup, IInv, WorkersInInstall, KindKnown
  <2>4. Named'
    BY <1>0, <1>3 DEF EndCleanup, IInv, WorkersInInstall, Named
  <2>5. TempFilled'
    BY <1>0, <1>3 DEF EndCleanup, IInv, WorkersInInstall, TempFilled, Temp, Locked
  <2>6. IngestFilled'
    BY <1>0, <1>3 DEF EndCleanup, IInv, WorkersInInstall, IngestFilled
  <2>7. ReadyMeansWhole'
    BY <1>0, <1>3 DEF EndCleanup, IInv, WorkersInInstall, ReadyMeansWhole
  <2>8. HandedStays'
    BY <1>0, <1>3 DEF EndCleanup, IInv, WorkersInInstall, HandedStays
  <2>. QED  BY <1>0, <2>1, <2>2, <2>3, <2>4, <2>5, <2>6, <2>7, <2>8 DEF IInv
<1>4. CASE SweepLeftovers
  <2>1. WorkersInInstall'
    BY <1>0, <1>4 DEF SweepLeftovers, IInv, WorkersInInstall
  <2>2. Locked'
    BY <1>0, <1>4 DEF SweepLeftovers, IInv, WorkersInInstall, Locked
  <2>3. KindKnown'
    BY <1>0, <1>4 DEF SweepLeftovers, IInv, WorkersInInstall, KindKnown
  <2>4. Named'
    BY <1>0, <1>4 DEF SweepLeftovers, IInv, WorkersInInstall, Named
  <2>5. TempFilled'
    BY <1>0, <1>4 DEF SweepLeftovers, IInv, WorkersInInstall, TempFilled, Temp, Locked
  <2>6. IngestFilled'
    BY <1>0, <1>4 DEF SweepLeftovers, IInv, WorkersInInstall, IngestFilled
  <2>7. ReadyMeansWhole'
    BY <1>0, <1>4 DEF SweepLeftovers, IInv, WorkersInInstall, ReadyMeansWhole
  <2>8. HandedStays'
    BY <1>0, <1>4 DEF SweepLeftovers, IInv, WorkersInInstall, HandedStays
  <2>. QED  BY <1>0, <2>1, <2>2, <2>3, <2>4, <2>5, <2>6, <2>7, <2>8 DEF IInv
<1>5. CASE Crash
  <2>1. WorkersInInstall'
    BY <1>0, <1>5 DEF Crash, IInv, WorkersInInstall
  <2>2. Locked'
    BY <1>0, <1>5 DEF Crash, IInv, WorkersInInstall, Locked
  <2>3. KindKnown'
    BY <1>0, <1>5 DEF Crash, IInv, WorkersInInstall, KindKnown
  <2>4. Named'
    BY <1>0, <1>5 DEF Crash, IInv, WorkersInInstall, Named
  <2>5. TempFilled'
    BY <1>0, <1>5 DEF Crash, IInv, WorkersInInstall, TempFilled, Temp, Locked
  <2>6. IngestFilled'
    BY <1>0, <1>5 DEF Crash, IInv, WorkersInInstall, IngestFilled
  <2>7. ReadyMeansWhole'
    BY <1>0, <1>5 DEF Crash, IInv, WorkersInInstall, ReadyMeansWhole
  <2>8. HandedStays'
    BY <1>0, <1>5 DEF Crash, IInv, WorkersInInstall, HandedStays
  <2>. QED  BY <1>0, <2>1, <2>2, <2>3, <2>4, <2>5, <2>6, <2>7, <2>8 DEF IInv
<1>6. ASSUME NEW keep \in SUBSET Shas, StartCleanup(keep)  PROVE IInv'
  <2>1. WorkersInInstall'
    BY <1>0, <1>6 DEF StartCleanup, IInv, WorkersInInstall
  <2>2. Locked'
    BY <1>0, <1>6 DEF StartCleanup, IInv, WorkersInInstall, Locked
  <2>3. KindKnown'
    BY <1>0, <1>6 DEF StartCleanup, IInv, WorkersInInstall, KindKnown
  <2>4. Named'
    BY <1>0, <1>6 DEF StartCleanup, IInv, WorkersInInstall, Named
  <2>5. TempFilled'
    BY <1>0, <1>6 DEF StartCleanup, IInv, WorkersInInstall, TempFilled, Temp, Locked
  <2>6. IngestFilled'
    BY <1>0, <1>6 DEF StartCleanup, IInv, WorkersInInstall, IngestFilled
  <2>7. ReadyMeansWhole'
    BY <1>0, <1>6 DEF StartCleanup, IInv, WorkersInInstall, ReadyMeansWhole
  <2>8. HandedStays'
    BY <1>0, <1>6 DEF StartCleanup, IInv, WorkersInInstall, HandedStays
  <2>. QED  BY <1>0, <2>1, <2>2, <2>3, <2>4, <2>5, <2>6, <2>7, <2>8 DEF IInv
<1>7. ASSUME NEW s \in Shas, Sweep(s)  PROVE IInv'
  <2>1. WorkersInInstall'
    BY <1>0, <1>7 DEF Sweep, IInv, WorkersInInstall
  <2>2. Locked'
    BY <1>0, <1>7 DEF Sweep, IInv, WorkersInInstall, Locked
  <2>3. KindKnown'
    BY <1>0, <1>7 DEF Sweep, IInv, WorkersInInstall, KindKnown
  <2>4. Named'
    BY <1>0, <1>7 DEF Sweep, IInv, WorkersInInstall, Named
  <2>5. TempFilled'
    BY <1>0, <1>7 DEF Sweep, IInv, WorkersInInstall, TempFilled, Temp, Locked
  <2>6. IngestFilled'
    BY <1>0, <1>7 DEF Sweep, IInv, WorkersInInstall, IngestFilled
  <2>7. ReadyMeansWhole'
    <3>1. entry' = [entry EXCEPT ![s] = Absent] /\ ~Absent.ready
      BY <1>7, WholeTrees DEF Sweep
    <3>. QED  BY <1>0, <3>1 DEF IInv, ReadyMeansWhole
  <2>8. HandedStays'
    BY <1>0, <1>7 DEF Sweep, IInv, WorkersInInstall, HandedStays
  <2>. QED  BY <1>0, <2>1, <2>2, <2>3, <2>4, <2>5, <2>6, <2>7, <2>8 DEF IInv
<1>8. ASSUME NEW s \in Shas, SweepTorn(s)  PROVE IInv'
  <2>a. entry' = [entry EXCEPT ![s] = TreeOf(entry[s].of, FALSE, FALSE)]
    BY <1>8, TornEntry DEF IInv
  <2>b. ~entry'[s].ready /\ \A t \in Shas : t # s => entry'[t] = entry[t]
    <3>1. TreeOf(entry[s].of, FALSE, FALSE).ready = FALSE
      BY <1>0, WholeTrees
    <3>. QED  BY <1>0, <2>a, <3>1
  <2>1. WorkersInInstall'
    BY <1>0, <1>8 DEF SweepTorn, IInv, WorkersInInstall
  <2>2. Locked'
    BY <1>0, <1>8 DEF SweepTorn, IInv, WorkersInInstall, Locked
  <2>3. KindKnown'
    BY <1>0, <1>8 DEF SweepTorn, IInv, WorkersInInstall, KindKnown
  <2>4. Named'
    BY <1>0, <1>8 DEF SweepTorn, IInv, WorkersInInstall, Named
  <2>5. TempFilled'
    BY <1>0, <1>8 DEF SweepTorn, IInv, WorkersInInstall, TempFilled, Temp, Locked
  <2>6. IngestFilled'
    BY <1>0, <1>8 DEF SweepTorn, IInv, WorkersInInstall, IngestFilled
  <2>7. ReadyMeansWhole'
    BY <1>0, <2>b DEF IInv, ReadyMeansWhole
  <2>8. HandedStays'
    BY <1>0, <1>8 DEF SweepTorn, IInv, WorkersInInstall, HandedStays
  <2>. QED  BY <1>0, <2>1, <2>2, <2>3, <2>4, <2>5, <2>6, <2>7, <2>8 DEF IInv
<1>. QED  BY <1>1, <1>2, <1>3, <1>4, <1>5, <1>6, <1>7, <1>8 DEF Runs

\* Taking an artifact up keeps the inductive invariant.
LEMMA TakeUpInv ==
  ASSUME IInv, NEW w \in Workers, NEW c \in Shas, NEW s \in Shas,
         NEW o \in BOOLEAN,
         Download(w, c) \/ Ensure(w, s, c, o)
  PROVE  IInv'
<1>0. TypeOK /\ TypeOK'
  BY TakeUpType DEF IInv
<1> USE DEF TypeOK, ends, disk, job, stream, Go, Filing, Streaming
<1>1. CASE Download(w, c)
  <2>1. WorkersInInstall'
    BY <1>0, <1>1 DEF Download, IInv, WorkersInInstall
  <2>2. Locked'
    BY <1>0, <1>1 DEF Download, IInv, Locked
  <2>3. KindKnown'
    BY <1>0, <1>1 DEF Download, IInv, KindKnown
  <2>4. Named'
    BY <1>0, <1>1 DEF Download, IInv, Named, KindKnown
  <2>5. TempFilled'
    BY <1>0, <1>1 DEF Download, IInv, TempFilled, Temp
  <2>6. IngestFilled'
    BY <1>0, <1>1 DEF Download, IInv, IngestFilled, Begun, TreeOf, KindKnown
  <2>7. ReadyMeansWhole'
    BY <1>0, <1>1 DEF Download, IInv, ReadyMeansWhole
  <2>8. HandedStays'
    BY <1>0, <1>1 DEF Download, IInv, HandedStays
  <2>. QED  BY <1>0, <2>1, <2>2, <2>3, <2>4, <2>5, <2>6, <2>7, <2>8 DEF IInv
<1>2. CASE Ensure(w, s, c, o)
  <2>1. WorkersInInstall'
    BY <1>0, <1>2 DEF Ensure, IInv, WorkersInInstall
  <2>2. Locked'
    BY <1>0, <1>2 DEF Ensure, IInv, Locked
  <2>3. KindKnown'
    BY <1>0, <1>2 DEF Ensure, IInv, KindKnown
  <2>4. Named'
    BY <1>0, <1>2 DEF Ensure, IInv, Named, KindKnown
  <2>5. TempFilled'
    BY <1>0, <1>2 DEF Ensure, IInv, TempFilled, Temp
  <2>6. IngestFilled'
    BY <1>0, <1>2 DEF Ensure, IInv, IngestFilled, Begun, TreeOf, KindKnown
  <2>7. ReadyMeansWhole'
    BY <1>0, <1>2 DEF Ensure, IInv, ReadyMeansWhole
  <2>8. HandedStays'
    BY <1>0, <1>2 DEF Ensure, IInv, HandedStays
  <2>. QED  BY <1>0, <2>1, <2>2, <2>3, <2>4, <2>5, <2>6, <2>7, <2>8 DEF IInv
<1>. QED  BY <1>1, <1>2

\* The inductive invariant is inductive.
LEMMA NextInv == IInv /\ [Next]_vars => IInv'
<1> SUFFICES ASSUME IInv, [Next]_vars  PROVE IInv'
  OBVIOUS
<1>1. CASE UNCHANGED vars
  BY <1>1 DEF IInv, TypeOK, WorkersInInstall, Locked, KindKnown, Named, TempFilled, Temp, IngestFilled,
     ReadyMeansWhole, HandedStays, vars, ends, disk, job, stream
<1>2. CASE Next
  BY <1>2, FileInv, FetchInv, RunsInv, TakeUpInv DEF Next
<1>. QED  BY <1>1, <1>2

\* The inductive invariant holds in every reachable state.
LEMMA Inv == ~MarkerStays /\ Spec => []IInv
<1>1. ~MarkerStays /\ Init => IInv
  BY InitInv
<1>2. IInv /\ [Next]_vars => IInv'
  BY NextInv
<1>. QED  BY <1>1, <1>2, PTL DEF Spec

\* Every tree isReady accepts is complete and of the artifact it is named by
\* (verifyTarballSHA, the ready marker, the rename).
THEOREM ReadyIsWhole == ~MarkerStays /\ Spec => []ReadyMeansWhole
<1>1. IInv => ReadyMeansWhole
  BY DEF IInv
<1>. QED  BY <1>1, Inv, PTL

\* A tree Ensure handed out is neither removed nor replaced while its worker
\* reads it (the two ready checks around the mutex).
THEOREM HandedTreeStays == ~MarkerStays /\ Spec => []HandedStays
<1>1. IInv => HandedStays
  BY DEF IInv
<1>. QED  BY <1>1, Inv, PTL

-----------------------------------------------------------------------------
(***************************************************************************)
(* No leftovers without an owner.                                          *)
(***************************************************************************)
\* Filling a temp tree touches no other.
LEMMA SetTempElsewhere ==
  ASSUME TypeOK, NEW w \in Workers, NEW t, SetTemp(w, t)
  PROVE  /\ \A s \in Shas : s # sha[w] => shaTmp'[s] = shaTmp[s]
         /\ \A v \in Workers : v # w => ingest'[v] = ingest[v]
<1>1. CASE kind[w] = "stream"  BY <1>1 DEF TypeOK, SetTemp
<1>2. CASE kind[w] # "stream"  BY <1>2 DEF TypeOK, SetTemp
<1>. QED  BY <1>1, <1>2

\* The first half of TempsOwned, and the second, which holds in every run.
ShaTmpOwned ==
  run = "install" /\ swept =>
    \A s \in Shas : shaTmp[s] # Absent =>
      \E w \in Workers : /\ mutex[s] = w /\ sha[w] = s /\ kind[w] = "file"
                         /\ pc[w] \in {"unpack", "mark", "clear", "rename"}

IngestOwned ==
  \A w \in Workers : ingest[w] # Absent =>
    kind[w] = "stream" /\ pc[w] \in Streaming \cup {"lock"} \cup Filing

\* Filing a tree leaves no leftover without an owner.
LEMMA FileOwned ==
  ASSUME IInv, ShaTmpOwned, IngestOwned,
         NEW w \in Workers, File(w)
  PROVE  ShaTmpOwned' /\ IngestOwned'
<1>0. TypeOK /\ TypeOK'
  BY FileType DEF IInv
<1> USE DEF TypeOK, ends, disk, job, stream, Go, Filing, Streaming, Unlock, Served, Done, SetTemp, DropTemp
<1>1. CASE CheckReady(w)
  <2>1. ShaTmpOwned'
    BY <1>0, <1>1 DEF CheckReady, ShaTmpOwned, IInv, Locked, KindKnown
  <2>2. IngestOwned'
    BY <1>0, <1>1 DEF CheckReady, IngestOwned, IInv, KindKnown, WorkersInInstall
  <2>. QED  BY <2>1, <2>2
<1>2. CASE LockSha(w)
  <2>1. ShaTmpOwned'
    BY <1>0, <1>2 DEF LockSha, ShaTmpOwned, IInv, Locked, KindKnown
  <2>2. IngestOwned'
    BY <1>0, <1>2 DEF LockSha, IngestOwned, IInv, KindKnown, WorkersInInstall
  <2>. QED  BY <2>1, <2>2
<1>3. CASE FoundReady(w)
  <2>1. ShaTmpOwned'
    BY <1>0, <1>3 DEF FoundReady, ShaTmpOwned, IInv, Locked, KindKnown
  <2>2. IngestOwned'
    BY <1>0, <1>3 DEF FoundReady, IngestOwned, IInv, KindKnown, WorkersInInstall
  <2>. QED  BY <2>1, <2>2
<1>4. CASE FoundUnready(w)
  <2>1. ShaTmpOwned'
    BY <1>0, <1>4 DEF FoundUnready, ShaTmpOwned, IInv, Locked, KindKnown
  <2>2. IngestOwned'
    BY <1>0, <1>4 DEF FoundUnready, IngestOwned, IInv, KindKnown, WorkersInInstall
  <2>. QED  BY <2>1, <2>2
<1>5. CASE Unpack(w)
  <2>1. ShaTmpOwned'
    BY <1>0, <1>5 DEF Unpack, ShaTmpOwned, IInv, Locked, KindKnown
  <2>2. IngestOwned'
    BY <1>0, <1>5 DEF Unpack, IngestOwned, IInv, KindKnown, WorkersInInstall
  <2>. QED  BY <2>1, <2>2
<1>6. CASE Unpacked(w)
  <2>1. ShaTmpOwned'
    <3> HIDE DEF SetTemp
    <3>1. \A s \in Shas : s # sha[w] => shaTmp'[s] = shaTmp[s]
      BY <1>0, <1>6, SetTempElsewhere DEF Unpacked
    <3>2. kind[w] = "stream" => shaTmp' = shaTmp
      BY <1>6 DEF Unpacked, SetTemp
    <3>3. mutex' = mutex /\ sha' = sha /\ kind' = kind /\ mutex[sha[w]] = w /\ run' = run /\ swept' = swept
      BY <1>0, <1>6 DEF Unpacked, IInv, Locked
    <3>4. pc'[w] \in {"mark", "clear"} /\ pc[w] \in {"unpack", "mark"}
          /\ \A v \in Workers : v # w => pc'[v] = pc[v]
      BY <1>0, <1>6 DEF Unpacked
    <3>. QED  BY <1>0, <3>1, <3>2, <3>3, <3>4 DEF ShaTmpOwned
  <2>2. IngestOwned'
    BY <1>0, <1>6 DEF Unpacked, IngestOwned, IInv, KindKnown, WorkersInInstall
  <2>. QED  BY <2>1, <2>2
<1>7. CASE Mark(w)
  <2>1. ShaTmpOwned'
    <3> HIDE DEF SetTemp
    <3>1. \A s \in Shas : s # sha[w] => shaTmp'[s] = shaTmp[s]
      BY <1>0, <1>7, SetTempElsewhere DEF Mark
    <3>2. kind[w] = "stream" => shaTmp' = shaTmp
      BY <1>7 DEF Mark, SetTemp
    <3>3. mutex' = mutex /\ sha' = sha /\ kind' = kind /\ mutex[sha[w]] = w /\ run' = run /\ swept' = swept
      BY <1>0, <1>7 DEF Mark, IInv, Locked
    <3>4. pc'[w] \in {"mark", "clear"} /\ pc[w] \in {"unpack", "mark"}
          /\ \A v \in Workers : v # w => pc'[v] = pc[v]
      BY <1>0, <1>7 DEF Mark
    <3>. QED  BY <1>0, <3>1, <3>2, <3>3, <3>4 DEF ShaTmpOwned
  <2>2. IngestOwned'
    <3> HIDE DEF SetTemp
    <3>1. \A v \in Workers : v # w => ingest'[v] = ingest[v]
      BY <1>0, <1>7, SetTempElsewhere DEF Mark
    <3>2. pc'[w] = "clear" /\ (\A v \in Workers : v # w => pc'[v] = pc[v]) /\ kind' = kind /\ (kind[w] = "file" => ingest' = ingest)
      BY <1>0, <1>7 DEF Mark, SetTemp
    <3>. QED  BY <1>0, <1>7, <3>1, <3>2 DEF Mark, SetTemp, IngestOwned
  <2>. QED  BY <2>1, <2>2
<1>8. CASE Clear(w)
  <2>1. ShaTmpOwned'
    BY <1>0, <1>8 DEF Clear, ShaTmpOwned, IInv, Locked, KindKnown
  <2>2. IngestOwned'
    BY <1>0, <1>8 DEF Clear, IngestOwned, IInv, KindKnown, WorkersInInstall
  <2>. QED  BY <2>1, <2>2
<1>9. CASE Rename(w)
  <2>1. ShaTmpOwned'
    BY <1>0, <1>9 DEF Rename, ShaTmpOwned, IInv, Locked, KindKnown
  <2>2. IngestOwned'
    BY <1>0, <1>9 DEF Rename, IngestOwned, IInv, KindKnown, WorkersInInstall
  <2>. QED  BY <2>1, <2>2
<1>10. CASE Fail(w)
  <2>1. ShaTmpOwned'
    BY <1>0, <1>10 DEF Fail, ShaTmpOwned, IInv, Locked, KindKnown
  <2>2. IngestOwned'
    BY <1>0, <1>10 DEF Fail, IngestOwned, IInv, KindKnown, WorkersInInstall
  <2>. QED  BY <2>1, <2>2
<1>11. CASE Materialized(w)
  <2>1. ShaTmpOwned'
    BY <1>0, <1>11 DEF Materialized, ShaTmpOwned, IInv, Locked, KindKnown
  <2>2. IngestOwned'
    BY <1>0, <1>11 DEF Materialized, IngestOwned, IInv, KindKnown, WorkersInInstall
  <2>. QED  BY <2>1, <2>2
<1>. QED  BY <1>1, <1>2, <1>3, <1>4, <1>5, <1>6, <1>7, <1>8, <1>9, <1>10, <1>11 DEF File

\* A download leaves no leftover without an owner.
LEMMA FetchOwned ==
  ASSUME IInv, ShaTmpOwned, IngestOwned,
         NEW w \in Workers, Fetch(w)
  PROVE  ShaTmpOwned' /\ IngestOwned'
<1>0. TypeOK /\ TypeOK'
  BY FetchType DEF IInv
<1> USE DEF TypeOK, ends, disk, job, stream, Go, Filing, Streaming, Done
<1>1. CASE Read(w)
  <2>1. ShaTmpOwned'
    BY <1>0, <1>1 DEF Read, ShaTmpOwned, IInv, Locked, KindKnown
  <2>2. IngestOwned'
    BY <1>0, <1>1 DEF Read, IngestOwned, IInv, KindKnown, WorkersInInstall
  <2>. QED  BY <2>1, <2>2
<1>2. CASE Write(w)
  <2>1. ShaTmpOwned'
    BY <1>0, <1>2 DEF Write, ShaTmpOwned, IInv, Locked, KindKnown
  <2>2. IngestOwned'
    BY <1>0, <1>2 DEF Write, IngestOwned, IInv, KindKnown, WorkersInInstall
  <2>. QED  BY <2>1, <2>2
<1>3. CASE CopyEnds(w)
  <2>1. ShaTmpOwned'
    BY <1>0, <1>3 DEF CopyEnds, ShaTmpOwned, IInv, Locked, KindKnown
  <2>2. IngestOwned'
    BY <1>0, <1>3 DEF CopyEnds, IngestOwned, IInv, KindKnown, WorkersInInstall
  <2>. QED  BY <2>1, <2>2
<1>4. CASE UnpackEnds(w)
  <2>1. ShaTmpOwned'
    BY <1>0, <1>4 DEF UnpackEnds, ShaTmpOwned, IInv, Locked, KindKnown
  <2>2. IngestOwned'
    BY <1>0, <1>4 DEF UnpackEnds, IngestOwned, IInv, KindKnown, WorkersInInstall
  <2>. QED  BY <2>1, <2>2
<1>5. CASE Drained(w)
  <2>1. ShaTmpOwned'
    BY <1>0, <1>5 DEF Drained, ShaTmpOwned, IInv, Locked, KindKnown
  <2>2. IngestOwned'
    BY <1>0, <1>5 DEF Drained, IngestOwned, IInv, KindKnown, WorkersInInstall
  <2>. QED  BY <2>1, <2>2
<1>6. CASE Discard(w)
  <2>1. ShaTmpOwned'
    BY <1>0, <1>6 DEF Discard, ShaTmpOwned, IInv, Locked, KindKnown
  <2>2. IngestOwned'
    BY <1>0, <1>6 DEF Discard, IngestOwned, IInv, KindKnown, WorkersInInstall
  <2>. QED  BY <2>1, <2>2
<1>7. CASE Promote(w)
  <2>1. ShaTmpOwned'
    BY <1>0, <1>7 DEF Promote, ShaTmpOwned, IInv, Locked, KindKnown
  <2>2. IngestOwned'
    BY <1>0, <1>7 DEF Promote, IngestOwned, IInv, KindKnown, WorkersInInstall
  <2>. QED  BY <2>1, <2>2
<1>8. CASE PromoteFails(w)
  <2>1. ShaTmpOwned'
    BY <1>0, <1>8 DEF PromoteFails, ShaTmpOwned, IInv, Locked, KindKnown
  <2>2. IngestOwned'
    BY <1>0, <1>8 DEF PromoteFails, IngestOwned, IInv, KindKnown, WorkersInInstall
  <2>. QED  BY <2>1, <2>2
<1>9. CASE Commit(w)
  <2>1. ShaTmpOwned'
    BY <1>0, <1>9 DEF Commit, ShaTmpOwned, IInv, Locked, KindKnown
  <2>2. IngestOwned'
    BY <1>0, <1>9 DEF Commit, IngestOwned, IInv, KindKnown, WorkersInInstall
  <2>. QED  BY <2>1, <2>2
<1>10. CASE CommitFails(w)
  <2>1. ShaTmpOwned'
    BY <1>0, <1>10 DEF CommitFails, ShaTmpOwned, IInv, Locked, KindKnown
  <2>2. IngestOwned'
    BY <1>0, <1>10 DEF CommitFails, IngestOwned, IInv, KindKnown, WorkersInInstall
  <2>. QED  BY <2>1, <2>2
<1>. QED  BY <1>1, <1>2, <1>3, <1>4, <1>5, <1>6, <1>7, <1>8, <1>9, <1>10 DEF Fetch

\* A run as a whole leaves no leftover without an owner.
LEMMA RunsOwned ==
  ASSUME IInv, ShaTmpOwned, IngestOwned,
         Runs
  PROVE  ShaTmpOwned' /\ IngestOwned'
<1>0. TypeOK /\ TypeOK'
  BY RunsType DEF IInv
<1> USE DEF TypeOK, ends, disk, job, stream, Go, Filing, Streaming, WorkersInInstall
<1>1. CASE StartInstall
  <2>1. ShaTmpOwned'
    BY <1>0, <1>1 DEF StartInstall, ShaTmpOwned, IInv, Locked, KindKnown
  <2>2. IngestOwned'
    BY <1>0, <1>1 DEF StartInstall, IngestOwned, IInv, KindKnown, WorkersInInstall
  <2>. QED  BY <2>1, <2>2
<1>2. CASE EndInstall
  <2>1. ShaTmpOwned'
    BY <1>0, <1>2 DEF EndInstall, ShaTmpOwned, IInv, Locked, KindKnown
  <2>2. IngestOwned'
    BY <1>0, <1>2 DEF EndInstall, IngestOwned, IInv, KindKnown, WorkersInInstall
  <2>. QED  BY <2>1, <2>2
<1>3. CASE EndCleanup
  <2>1. ShaTmpOwned'
    BY <1>0, <1>3 DEF EndCleanup, ShaTmpOwned, IInv, Locked, KindKnown
  <2>2. IngestOwned'
    BY <1>0, <1>3 DEF EndCleanup, IngestOwned, IInv, KindKnown, WorkersInInstall
  <2>. QED  BY <2>1, <2>2
<1>4. CASE SweepLeftovers
  <2>1. ShaTmpOwned'
    BY <1>0, <1>4 DEF SweepLeftovers, ShaTmpOwned, IInv, Locked, KindKnown
  <2>2. IngestOwned'
    BY <1>0, <1>4 DEF SweepLeftovers, IngestOwned, IInv, KindKnown, WorkersInInstall
  <2>. QED  BY <2>1, <2>2
<1>5. CASE Crash
  <2>1. ShaTmpOwned'
    BY <1>0, <1>5 DEF Crash, ShaTmpOwned, IInv, Locked, KindKnown
  <2>2. IngestOwned'
    BY <1>0, <1>5 DEF Crash, IngestOwned, IInv, KindKnown, WorkersInInstall
  <2>. QED  BY <2>1, <2>2
<1>6. ASSUME NEW keep \in SUBSET Shas, StartCleanup(keep)  PROVE ShaTmpOwned' /\ IngestOwned'
  <2>1. ShaTmpOwned'
    BY <1>0, <1>6 DEF StartCleanup, ShaTmpOwned, IInv, Locked, KindKnown
  <2>2. IngestOwned'
    BY <1>0, <1>6 DEF StartCleanup, IngestOwned, IInv, KindKnown, WorkersInInstall
  <2>. QED  BY <2>1, <2>2
<1>7. ASSUME NEW s \in Shas, Sweep(s)  PROVE ShaTmpOwned' /\ IngestOwned'
  <2>1. ShaTmpOwned'
    BY <1>0, <1>7 DEF Sweep, ShaTmpOwned, IInv, Locked, KindKnown
  <2>2. IngestOwned'
    BY <1>0, <1>7 DEF Sweep, IngestOwned, IInv, KindKnown, WorkersInInstall
  <2>. QED  BY <2>1, <2>2
<1>8. ASSUME NEW s \in Shas, SweepTorn(s)  PROVE ShaTmpOwned' /\ IngestOwned'
  <2>1. ShaTmpOwned'
    BY <1>0, <1>8 DEF SweepTorn, ShaTmpOwned, IInv, Locked, KindKnown
  <2>2. IngestOwned'
    BY <1>0, <1>8 DEF SweepTorn, IngestOwned, IInv, KindKnown, WorkersInInstall
  <2>. QED  BY <2>1, <2>2
<1>. QED  BY <1>1, <1>2, <1>3, <1>4, <1>5, <1>6, <1>7, <1>8 DEF Runs

\* Taking an artifact up leaves no leftover without an owner.
LEMMA TakeUpOwned ==
  ASSUME IInv, ShaTmpOwned, IngestOwned,
         NEW w \in Workers, NEW c \in Shas, NEW s \in Shas,
         NEW o \in BOOLEAN,
         Download(w, c) \/ Ensure(w, s, c, o)
  PROVE  ShaTmpOwned' /\ IngestOwned'
<1>0. TypeOK /\ TypeOK'
  BY TakeUpType DEF IInv
<1> USE DEF TypeOK, ends, disk, job, stream, Go, Filing, Streaming, WorkersInInstall
<1>1. CASE Download(w, c)
  <2>1. ShaTmpOwned'
    BY <1>0, <1>1 DEF Download, ShaTmpOwned, IInv, Locked, KindKnown
  <2>2. IngestOwned'
    BY <1>0, <1>1 DEF Download, IngestOwned, IInv, KindKnown, WorkersInInstall
  <2>. QED  BY <2>1, <2>2
<1>2. CASE Ensure(w, s, c, o)
  <2>1. ShaTmpOwned'
    BY <1>0, <1>2 DEF Ensure, ShaTmpOwned, IInv, Locked, KindKnown
  <2>2. IngestOwned'
    BY <1>0, <1>2 DEF Ensure, IngestOwned, IInv, KindKnown, WorkersInInstall
  <2>. QED  BY <2>1, <2>2
<1>. QED  BY <1>1, <1>2

\* In an install that swept the store first, every temp tree has an owner at work
\* on it (the removals on every failing path, SweepTemp).
THEOREM TempsAreOwned == ~MarkerStays /\ Spec => []TempsOwned
<1>1. Init => IngestOwned /\ ShaTmpOwned
  BY DEF Init, IngestOwned, ShaTmpOwned
<1>2. IInv /\ ShaTmpOwned /\ IngestOwned /\ [Next]_vars
        => ShaTmpOwned' /\ IngestOwned'
  <2> SUFFICES ASSUME IInv, ShaTmpOwned, IngestOwned, [Next]_vars
               PROVE  ShaTmpOwned' /\ IngestOwned'
    OBVIOUS
  <2>1. CASE UNCHANGED vars
    BY <2>1 DEF ShaTmpOwned, IngestOwned, vars, ends, disk, job, stream
  <2>2. CASE Next
    BY <2>2, FileOwned, FetchOwned, RunsOwned, TakeUpOwned DEF Next
  <2>. QED  BY <2>1, <2>2
<1>3. ShaTmpOwned /\ IngestOwned => TempsOwned
  BY DEF ShaTmpOwned, IngestOwned, TempsOwned
<1>. QED  BY <1>1, <1>2, <1>3, Inv, PTL DEF Spec

-----------------------------------------------------------------------------
(***************************************************************************)
(* Refinement of ContentStore.                                             *)
(***************************************************************************)
\* The abstract state.
Have == {s \in Shas : entry[s] = Finished(s)}
Held == [w \in Workers |-> IF pc[w] = "handed" THEN sha[w] ELSE None]

\* Nobody is handed a tree or gives one back, and the contents stay.
Stays ==
  /\ \A v \in Workers : (pc'[v] = "handed" <=> pc[v] = "handed") /\ (pc[v] = "handed" => sha'[v] = sha[v])
  /\ \A s \in Shas : entry'[s] = Finished(s) <=> entry[s] = Finished(s)

\* w, which held nothing, now holds s.
Takes(w, s) ==
  /\ pc[w] # "handed" /\ pc'[w] = "handed" /\ sha'[w] = s
  /\ \A v \in Workers : v # w => pc'[v] = pc[v] /\ sha'[v] = sha[v]

\* Such a step is a stutter of the abstract store.
LEMMA StaysStutters == ASSUME Stays  PROVE Have' = Have /\ Held' = Held
BY DEF Stays, Have, Held

\* Such a step changes what w holds, and nothing else that is held.
LEMMA TakesHeld ==
  ASSUME NEW w \in Workers, NEW s \in Shas, Takes(w, s)
  PROVE  Held[w] = None /\ Held' = [Held EXCEPT ![w] = s]
BY DEF Takes, Held

\* Filing a tree adds a content, hands one out or gives one back, or stutters.
LEMMA FileRefines ==
  ASSUME IInv, NEW w \in Workers, File(w)
  PROVE  Store!Next \/ UNCHANGED <<Have, Held>>
<1>0. TypeOK /\ TypeOK'
  BY FileType DEF IInv
<1>a. Stays => UNCHANGED <<Have, Held>>
  BY StaysStutters
<1>b. sha[w] \in Shas
  BY <1>0 DEF TypeOK
<1>c. Takes(w, sha[w]) /\ Have' = Have \cup {sha[w]} => Store!Next
  BY <1>b, TakesHeld DEF Store!Next, Store!PutAndTake, Have, Held
<1>d. \A v \in Workers : pc[v] = "handed" => entry[sha[v]].ready
  BY <1>0, HandedReady DEF IInv
<1> USE DEF TypeOK, ends, disk, job, stream, Go, Served, Unlock
<1>1. CASE CheckReady(w)
  <2>1. CASE entry[sha[w]].ready
    <3>1. entry[sha[w]] = Finished(sha[w])
      BY <1>b, <2>1 DEF IInv, ReadyMeansWhole
    <3>2. Takes(w, sha[w]) /\ entry' = entry
      BY <1>0, <1>1, <2>1 DEF CheckReady, Takes
    <3>. QED  BY <1>b, <1>c, <3>1, <3>2 DEF Have
  <2>2. CASE ~entry[sha[w]].ready
    BY <1>0, <1>1, <1>a, <2>2 DEF CheckReady, Stays
  <2>. QED  BY <2>1, <2>2
<1>2. CASE LockSha(w)       BY <1>0, <1>2, <1>a DEF LockSha, Stays
<1>3. CASE FoundReady(w)
  <2>1. entry[sha[w]] = Finished(sha[w]) /\ entry' = entry
    BY <1>b, <1>3 DEF FoundReady, IInv, ReadyMeansWhole
  <2>2. CASE kind[w] = "stream"
    BY <1>0, <1>3, <1>a, <2>2 DEF FoundReady, Stays
  <2>3. CASE kind[w] # "stream"
    <3>1. Takes(w, sha[w])
      BY <1>0, <1>3, <2>3 DEF FoundReady, Takes
    <3>. QED  BY <1>b, <1>c, <2>1, <3>1 DEF Have
  <2>. QED  BY <2>2, <2>3
<1>4. CASE FoundUnready(w)  BY <1>0, <1>4, <1>a DEF FoundUnready, Stays
<1>5. CASE Unpack(w)        BY <1>0, <1>5, <1>a DEF Unpack, Stays
<1>6. CASE Unpacked(w)      BY <1>0, <1>6, <1>a DEF Unpacked, Stays
<1>7. CASE Mark(w)          BY <1>0, <1>7, <1>a DEF Mark, Stays
<1>8. CASE Clear(w)
  <2>1. ~entry[sha[w]].ready /\ ~entry'[sha[w]].ready
    BY <1>0, <1>b, <1>8, WholeTrees DEF Clear, IInv, Locked, Filing
  <2>2. \A s \in Shas : s # sha[w] => entry'[s] = entry[s]
    BY <1>0, <1>8 DEF Clear
  <2>3. Finished(sha[w]).ready
    BY <1>b, WholeTrees
  <2>4. \A s \in Shas : entry'[s] = Finished(s) <=> entry[s] = Finished(s)
    BY <2>1, <2>2, <2>3
  <2>. QED  BY <1>0, <1>8, <1>a, <2>4 DEF Clear, Stays
<1>9. CASE Rename(w)
  <2>1. Temp(w) \in Tree /\ Temp(w).of = sha[w] /\ Temp(w).whole /\ Temp(w).ready
    BY <1>0, <1>9, TempType DEF Rename, IInv, TempFilled, Named, Streaming
  <2>2. Temp(w) = Finished(sha[w])
    BY <1>b, <2>1, WholeTrees
  <2>3. entry' = [entry EXCEPT ![sha[w]] = Finished(sha[w])]
    BY <1>9, <2>2 DEF Rename
  <2>4. Have' = Have \cup {sha[w]}
    BY <1>0, <1>b, <2>3 DEF Have
  <2>5. CASE kind[w] = "stream"
    <3>1. Held' = Held
      BY <1>0, <1>9, <2>5 DEF Rename, Held
    <3>. QED  BY <1>b, <2>4, <3>1 DEF Store!Next, Store!Put, Have, Held
  <2>6. CASE kind[w] # "stream"
    <3>1. Takes(w, sha[w])
      BY <1>0, <1>9, <2>6 DEF Rename, Takes
    <3>. QED  BY <1>c, <2>4, <3>1
  <2>. QED  BY <2>5, <2>6
<1>10. CASE Fail(w)
  <2>1. \A v \in Workers : (pc'[v] = "handed" <=> pc[v] = "handed") /\ (pc[v] = "handed" => sha'[v] = sha[v])
    BY <1>0, <1>10 DEF Fail, Done, Filing
  <2>2. CASE entry' = entry
    BY <1>a, <2>1, <2>2 DEF Stays
  <2>3. CASE pc[w] = "clear" /\ entry' = [entry EXCEPT ![sha[w]] = TreeOf(@.of, FALSE, @.ready)]
    <3>1. ~entry[sha[w]].ready /\ ~entry'[sha[w]].ready
      BY <1>0, <1>b, <2>3 DEF IInv, Locked, Filing, TreeOf
    <3>2. \A s \in Shas : s # sha[w] => entry'[s] = entry[s]
      BY <1>0, <2>3
    <3>3. Finished(sha[w]).ready
      BY <1>b, WholeTrees
    <3>4. \A s \in Shas : entry'[s] = Finished(s) <=> entry[s] = Finished(s)
      BY <3>1, <3>2, <3>3
    <3>. QED  BY <1>a, <2>1, <3>4 DEF Stays
  <2>. QED  BY <1>10, <2>2, <2>3, Zenon DEF Fail
<1>11. CASE Materialized(w)
  <2>1. Have' = Have
    BY <1>11 DEF Materialized, Have
  <2>2. Held' = [Held EXCEPT ![w] = None]
    BY <1>0, <1>11 DEF Materialized, Done, Held
  <2>. QED  BY <2>1, <2>2 DEF Store!Next, Store!Release, Have, Held
<1>. QED  BY <1>1, <1>2, <1>3, <1>4, <1>5, <1>6, <1>7, <1>8, <1>9, <1>10, <1>11 DEF File

\* A download that is not yet filed stutters.
LEMMA FetchRefines ==
  ASSUME IInv, NEW w \in Workers, Fetch(w)
  PROVE  UNCHANGED <<Have, Held>>
<1>0. TypeOK /\ TypeOK'
  BY FetchType DEF IInv
<1>a. Stays => UNCHANGED <<Have, Held>>
  BY StaysStutters
<1> USE DEF TypeOK, ends, disk, job, stream, Go, Done, Streaming, Stays
<1>1. CASE Read(w)  BY <1>0, <1>1, <1>a DEF Read
<1>2. CASE Write(w)  BY <1>0, <1>2, <1>a DEF Write
<1>3. CASE CopyEnds(w)  BY <1>0, <1>3, <1>a DEF CopyEnds
<1>4. CASE UnpackEnds(w)  BY <1>0, <1>4, <1>a DEF UnpackEnds
<1>5. CASE Drained(w)  BY <1>0, <1>5, <1>a DEF Drained
<1>6. CASE Discard(w)  BY <1>0, <1>6, <1>a DEF Discard
<1>7. CASE Promote(w)  BY <1>0, <1>7, <1>a DEF Promote
<1>8. CASE PromoteFails(w)  BY <1>0, <1>8, <1>a DEF PromoteFails
<1>9. CASE Commit(w)  BY <1>0, <1>9, <1>a DEF Commit
<1>10. CASE CommitFails(w)  BY <1>0, <1>10, <1>a DEF CommitFails
<1>. QED  BY <1>1, <1>2, <1>3, <1>4, <1>5, <1>6, <1>7, <1>8, <1>9, <1>10 DEF Fetch

\* A sweep drops contents nobody holds, a kill gives all back, the rest stutters.
LEMMA RunsRefines ==
  ASSUME IInv, Runs
  PROVE  Store!Next \/ UNCHANGED <<Have, Held>>
<1>0. TypeOK /\ TypeOK'
  BY RunsType DEF IInv
<1>a. Stays => UNCHANGED <<Have, Held>>
  BY StaysStutters
<1> USE DEF TypeOK, ends, disk, job, stream
<1>1. CASE StartInstall     BY <1>1, <1>a DEF StartInstall, Stays
<1>2. CASE EndInstall       BY <1>2, <1>a DEF EndInstall, Stays
<1>3. CASE EndCleanup       BY <1>3, <1>a DEF EndCleanup, Stays
<1>4. CASE SweepLeftovers   BY <1>4, <1>a DEF SweepLeftovers, Stays
<1>5. CASE Crash
  <2>1. Have' = Have /\ Held' = [w \in Workers |-> None]
    BY <1>5 DEF Crash, Have, Held
  <2>. QED  BY <2>1 DEF Store!Next, Store!ReleaseAll, Have, Held
<1>6. ASSUME NEW keep \in SUBSET Shas, StartCleanup(keep)
      PROVE  Store!Next \/ UNCHANGED <<Have, Held>>
  BY <1>6, <1>a DEF StartCleanup, Stays
<1>7. ASSUME NEW s \in Shas, Sweep(s)
      PROVE  Store!Next \/ UNCHANGED <<Have, Held>>
  <2>1. \A v \in Workers : pc[v] # "handed"
    BY <1>7 DEF Sweep, IInv, WorkersInInstall
  <2>2. Held' = Held /\ \A v \in Workers : Held[v] # s
    BY <1>7, <2>1 DEF Sweep, Held
  <2>3. Absent # Finished(s)
    BY WholeTrees
  <2>4. Have' = Have \ {s}
    BY <1>0, <1>7, <2>3 DEF Sweep, Have
  <2>. QED  BY <2>2, <2>4 DEF Store!Next, Store!Drop, Have, Held
<1>8. ASSUME NEW s \in Shas, SweepTorn(s)
      PROVE  Store!Next \/ UNCHANGED <<Have, Held>>
  <2>1. \A v \in Workers : pc[v] # "handed"
    BY <1>8 DEF SweepTorn, IInv, WorkersInInstall
  <2>2. Held' = Held /\ \A v \in Workers : Held[v] # s
    BY <1>8, <2>1 DEF SweepTorn, Held
  <2>3. entry' = [entry EXCEPT ![s] = TreeOf(entry[s].of, FALSE, FALSE)]
    BY <1>8, TornEntry DEF IInv
  <2>4. TreeOf(entry[s].of, FALSE, FALSE) # Finished(s)
    BY <1>0, WholeTrees
  <2>5. Have' = Have \ {s}
    BY <1>0, <2>3, <2>4 DEF Have
  <2>. QED  BY <2>2, <2>5 DEF Store!Next, Store!Drop, Have, Held
<1>. QED  BY <1>1, <1>2, <1>3, <1>4, <1>5, <1>6, <1>7, <1>8 DEF Runs

\* Taking an artifact up stutters.
LEMMA TakeUpRefines ==
  ASSUME IInv, NEW w \in Workers, NEW c \in Shas, NEW s \in Shas,
         NEW o \in BOOLEAN,
         Download(w, c) \/ Ensure(w, s, c, o)
  PROVE  UNCHANGED <<Have, Held>>
<1>0. TypeOK
  BY DEF IInv
<1>1. Stays
  BY <1>0 DEF TypeOK, ends, disk, job, stream, Go, Download, Ensure, Stays
<1>. QED  BY <1>1, StaysStutters

\* The store implements ContentStore: contents are added, handed out and given
\* back, and none is dropped while a worker holds it.
THEOREM ImplementsContentStore == ~MarkerStays /\ Spec => IsContentStore
<1>1. Init => Store!Init
  <2> SUFFICES ASSUME Init  PROVE Store!Init
    OBVIOUS
  <2>1. \A s \in Shas : ~entry[s].ready
    BY WholeTrees DEF Init
  <2>2. \A s \in Shas : entry[s] # Finished(s)
    BY <2>1, WholeTrees
  <2>. QED  BY <2>2 DEF Init, Store!Init
<1>2. IInv /\ [Next]_vars => [Store!Next]_<<Have, Held>>
  <2> SUFFICES ASSUME IInv, [Next]_vars  PROVE Store!Next \/ UNCHANGED <<Have, Held>>
    OBVIOUS
  <2>1. CASE UNCHANGED vars
    BY <2>1 DEF Have, Held, vars, ends, disk, job, stream
  <2>2. CASE Next
    BY <2>2, FileRefines, FetchRefines, RunsRefines, TakeUpRefines DEF Next
  <2>. QED  BY <2>1, <2>2
<1>. QED  BY <1>1, <1>2, Inv, PTL DEF Spec, IsContentStore, Store!Spec, Have, Held
=============================================================================
