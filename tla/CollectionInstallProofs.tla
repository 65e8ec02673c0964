---------------------- MODULE CollectionInstallProofs ----------------------
(* Proofs about CollectionInstall, for every set of items and digests, every
   tally, and every value of the bounds. *)
EXTENDS CollectionInstall, TLAPS

Judged   == {"extract", "reset", "wipe", "unpack", "mark", "info", "record"}
Fetched  == {"commit", "sidecar"}
Deleting == {"evict", "unlabel"}

\* The payload: a digest this run computed is that of the bytes in hand.
InHand ==
  /\ own /\ named # None => got = named
  /\ pc \in Fetched \cup {"judge"} \cup Judged => named # None
  /\ pc \in Fetched => own

\* A marker that parses is its digest's own, and names the tree, all or part
\* of it, for as long as there is one.
Claims ==
  \A w \in Versions, d \in Digests :
    mark[w][d] \in Tallies => mark[w][d] = Tally[d] /\ tree \in {d, None}

\* Where an extraction is.
Placed ==
  /\ pc \in {"wipe", "unpack"} => tree = None
  /\ pc \in {"unpack", "mark"} => \A w \in Versions, d \in Digests : mark[w][d] = None
  /\ pc \in {"mark", "info", "record"} => tree = named /\ whole

\* What has been asked before a step is taken.
Asked ==
  /\ mode = "offline" => backend = "local"
  /\ pc \in Judged => PinHolds
  /\ pc \in Fetched \cup Deleting => mode # "offline"
  /\ pc = "commit" /\ locked => got = pin
  /\ pc = "evict" /\ locked => backend = "s3" /\ label[item] # slot[item]

IInv == TypeOK /\ InHand /\ Claims /\ Placed /\ Asked /\ OkMeansInstalled

LEMMA Names ==
  ASSUME TypeOK
  PROVE  /\ version \in Versions /\ Source[item] \in Sources
         /\ \A d \in Digests : Tally[d] \in Tallies
         /\ None \notin Digests /\ None \notin Tallies /\ Torn \notin Tallies
BY NamesAssumption DEF TypeOK, version, Versions, Sources, Tallies

LEMMA InitIInv == Init => IInv
<1> SUFFICES ASSUME Init PROVE IInv
  OBVIOUS
<1>1. TypeOK
  BY NamesAssumption DEF Init, TypeOK, Unmarked, AnyItem, Modes
<1>2. Claims
  BY <1>1, Names DEF Init, Claims, Unmarked
<1>. QED
  BY <1>1, <1>2 DEF Init, IInv, InHand, Placed, Asked, OkMeansInstalled, Fetched, Judged, Deleting

-----------------------------------------------------------------------------
\* An edit of one marker leaves the others as they are.
LEMMA OneMarker ==
  ASSUME TypeOK, NEW w \in Versions, NEW d \in Digests, NEW m \in Tallies \cup {None, Torn},
         mark' = [mark EXCEPT ![w][d] = m]
  PROVE  /\ mark' \in [Versions -> [Digests -> Tallies \cup {None, Torn}]]
         /\ \A u \in Versions, e \in Digests :
              mark'[u][e] = IF u = w /\ e = d THEN m ELSE mark[u][e]
BY DEF TypeOK

\* What checkExtractMarker accepts is the tree of the digest it was asked for.
LEMMA MarkerTells ==
  ASSUME TypeOK, Claims
  PROVE  MarkersTellTruth
BY Names DEF TypeOK, Claims, MarkersTellTruth, MayMatch

LEMMA RefusedMarker ==
  ASSUME TypeOK, Claims, NEW d \in Digests, MarkerRefused(d), UNCHANGED tree
  PROVE  Claims' /\ mark' \in [Versions -> [Digests -> Tallies \cup {None, Torn}]]
<1>1. /\ mark' \in [Versions -> [Digests -> Tallies \cup {None, Torn}]]
      /\ \A u \in Versions, e \in Digests :
           mark'[u][e] = IF u = version /\ e = d THEN None ELSE mark[u][e]
  BY Names, OneMarker DEF MarkerRefused
<1>2. Claims'
  BY <1>1, Names DEF Claims
<1>. QED BY <1>1, <1>2

-----------------------------------------------------------------------------
\* Most steps leave the tree and its markers alone.
LEMMA ClaimsKept ==
  ASSUME Claims, UNCHANGED <<tree, mark>>
  PROVE  Claims'
BY DEF Claims

LEMMA FaultCounts == ASSUME TypeOK, Fault PROVE faults' \in Nat
BY DEF TypeOK, Fault

LEMMA SlotEdited ==
  ASSUME TypeOK, NEW a \in Digests \cup {None}, NEW f, f \in [Items -> Digests \cup {None}]
  PROVE  [f EXCEPT ![item] = a] \in [Items -> Digests \cup {None}]
BY DEF TypeOK

(* A run, its prefetch and the skip check. *)
LEMMA BeginStep ==
  ASSUME IInv, NEW i \in Items, NEW p \in Pins \cup {None}, NEW l \in BOOLEAN, NEW m \in Modes,
         Begin(i, p, l, m)
  PROVE  IInv'
<1>1. TypeOK'
  BY NamesAssumption DEF IInv, TypeOK, Begin, cache, project, payload
<1>2. Claims'
  BY ClaimsKept DEF IInv, Begin, project
<1>3. InHand' /\ Placed' /\ Asked' /\ OkMeansInstalled'
  BY DEF IInv, Begin, InHand, Placed, Asked, OkMeansInstalled, Fetched, Judged, Deleting,
         cache, project, payload
<1>. QED  BY <1>1, <1>2, <1>3 DEF IInv

LEMMA ScanStep ==
  ASSUME IInv, Scan \/ Skip \/ NoSkip
  PROVE  IInv'
<1> USE DEF cache, project, order, payload
<1>1. CASE Scan
  <2>1. TypeOK'
    BY <1>1 DEF IInv, TypeOK, Scan
  <2>2. Claims'
    BY <1>1, ClaimsKept DEF IInv, Scan
  <2>3. InHand' /\ Placed' /\ Asked' /\ OkMeansInstalled'
    BY <1>1 DEF IInv, Scan, InHand, Placed, Asked, OkMeansInstalled, Fetched, Judged, Deleting
  <2>. QED  BY <2>1, <2>2, <2>3 DEF IInv
<1>2. CASE Skip
  <2>1. TypeOK'
    BY <1>2 DEF IInv, TypeOK, Skip, Drop, MarkerHolds
  <2>2. Claims'
    BY <1>2, ClaimsKept DEF IInv, Skip, MarkerHolds
  <2>3. InHand' /\ Placed' /\ Asked'
    BY <1>2 DEF IInv, Skip, Drop, InHand, Placed, Asked, Fetched, Judged, Deleting
  <2>4. OkMeansInstalled'
    <3>1. mem[version] # None /\ mem[version] \in Record /\ mem[version].sha \in Digests
      BY <1>2, Names DEF IInv, TypeOK, Skip, RecordMatches, Record
    <3>2. tree = mem[version].sha /\ whole
      BY <1>2, <3>1, MarkerTells, Names DEF IInv, Skip, MarkerHolds, MarkersTellTruth
    <3>. QED
      BY <1>2, <3>1, <3>2 DEF Skip, RecordMatches, OkMeansInstalled, version
  <2>. QED  BY <2>1, <2>2, <2>3, <2>4 DEF IInv
<1>3. CASE NoSkip
  <2>1. Claims' /\ mark' \in [Versions -> [Digests -> Tallies \cup {None, Torn}]]
    <3>1. CASE RecordMatches
      <4>1. mem[version].sha \in Digests
        BY <3>1, Names DEF IInv, TypeOK, RecordMatches, Record
      <4>. QED  BY <1>3, <3>1, <4>1, RefusedMarker DEF IInv, NoSkip
    <3>2. CASE ~RecordMatches
      BY <1>3, <3>2, ClaimsKept DEF IInv, TypeOK, NoSkip
    <3>. QED  BY <3>1, <3>2
  <2>2. TypeOK'
    BY <1>3, <2>1 DEF IInv, TypeOK, NoSkip
  <2>3. InHand' /\ Placed' /\ Asked' /\ OkMeansInstalled'
    BY <1>3 DEF IInv, NoSkip, InHand, Placed, Asked, OkMeansInstalled, Fetched, Judged, Deleting
  <2>. QED  BY <2>1, <2>2, <2>3 DEF IInv
<1>. QED  BY <1>1, <1>2, <1>3

(* prepareInstall. *)
LEMMA FetchingStep ==
  ASSUME IInv, UsePrefetched \/ FetchCached \/ FetchMismatch \/ FetchFails \/ Miss
  PROVE  IInv'
<1> USE DEF cache, project, order, payload, Fetched, Judged, Deleting
<1>1. CASE UsePrefetched
  <2>1. TypeOK'
    BY <1>1 DEF IInv, TypeOK, UsePrefetched
  <2>2. Claims'
    BY <1>1, ClaimsKept DEF IInv, UsePrefetched
  <2>3. InHand' /\ Placed' /\ Asked' /\ OkMeansInstalled'
    BY <1>1 DEF IInv, TypeOK, InHand, Placed, Asked, OkMeansInstalled, PinHolds, UsePrefetched
  <2>. QED  BY <2>1, <2>2, <2>3 DEF IInv
<1>2. CASE FetchCached
  <2>1. TypeOK'
    BY <1>2 DEF IInv, TypeOK, FetchCached, IsCacheHit, Hand
  <2>2. Claims'
    BY <1>2, ClaimsKept DEF IInv, FetchCached, IsCacheHit, Hand
  <2>3. InHand' /\ Placed' /\ Asked' /\ OkMeansInstalled'
    BY <1>2 DEF IInv, TypeOK, InHand, Placed, Asked, OkMeansInstalled, PinHolds, FetchCached, IsCacheHit, Hand
  <2>. QED  BY <2>1, <2>2, <2>3 DEF IInv
<1>3. CASE FetchMismatch
  <2>1. TypeOK'
    BY <1>3 DEF IInv, TypeOK, FetchMismatch, IsCacheHit
  <2>2. Claims'
    BY <1>3, ClaimsKept DEF IInv, FetchMismatch, IsCacheHit
  <2>3. InHand' /\ Placed' /\ Asked' /\ OkMeansInstalled'
    BY <1>3 DEF IInv, TypeOK, InHand, Placed, Asked, OkMeansInstalled, PinHolds, FetchMismatch, IsCacheHit
  <2>. QED  BY <2>1, <2>2, <2>3 DEF IInv
<1>4. CASE FetchFails
  <2>1. TypeOK'
    BY <1>4, FaultCounts DEF IInv, TypeOK, FetchFails, Fail, Drop
  <2>2. Claims'
    BY <1>4, ClaimsKept DEF IInv, FetchFails, IsCacheHit, Fault, Fail, Drop
  <2>3. InHand'
    BY <1>4 DEF IInv, TypeOK, InHand, FetchFails, IsCacheHit, Fault, Fail, Drop
  <2>4. Placed' /\ OkMeansInstalled'
    BY <1>4 DEF IInv, TypeOK, Placed, OkMeansInstalled, FetchFails, IsCacheHit, Fault, Fail, Drop
  <2>5. Asked'
    BY <1>4 DEF IInv, TypeOK, Asked, PinHolds, FetchFails, IsCacheHit, Fault, Fail, Drop
  <2>. QED  BY <2>1, <2>2, <2>3, <2>4, <2>5 DEF IInv
<1>5. CASE Miss
  <2>1. TypeOK'
    <3>1. CASE mode = "offline"
      <4>1. Fail  BY <1>5, <3>1 DEF Miss
      <4> QED  BY <1>5, <4>1 DEF IInv, TypeOK, Miss, Fail, Drop
    <3>2. CASE mode # "offline"
      <4>1. pc' = "download" /\ UNCHANGED <<payload, outcome>>  BY <1>5, <3>2 DEF Miss
      <4> QED  BY <1>5, <4>1 DEF IInv, TypeOK, Miss
    <3> QED  BY <3>1, <3>2
  <2>2. Claims'
    BY <1>5, ClaimsKept DEF IInv, Miss, IsCacheHit, Fail, Drop
  <2>3. InHand' /\ Placed' /\ Asked' /\ OkMeansInstalled'
    BY <1>5 DEF IInv, TypeOK, InHand, Placed, Asked, OkMeansInstalled, PinHolds, Miss, IsCacheHit, Fail, Drop
  <2>. QED  BY <2>1, <2>2, <2>3 DEF IInv
<1>. QED  BY <1>1, <1>2, <1>3, <1>4, <1>5

(* The download. *)
LEMMA AcquiringStep ==
  ASSUME IInv, DownloadFails \/ Commit \/ CommitFails \/ Sidecar
  PROVE  IInv'
<1> USE DEF cache, project, order, payload, Fetched, Judged, Deleting
<1>1. CASE DownloadFails
  <2>1. TypeOK'
    BY <1>1 DEF IInv, TypeOK, DownloadFails, Abort, Drop, Fail
  <2>2. Claims'
    BY <1>1, ClaimsKept DEF IInv, DownloadFails, Abort, Drop, Fail
  <2>3. InHand' /\ Placed' /\ Asked' /\ OkMeansInstalled'
    BY <1>1 DEF IInv, TypeOK, InHand, Placed, Asked, OkMeansInstalled, PinHolds, DownloadFails, Abort, Drop, Fail
  <2>. QED  BY <2>1, <2>2, <2>3 DEF IInv
<1>2. CASE Commit
  <2>1. TypeOK'
    <3>1. /\ [slot EXCEPT ![item] = got] \in [Items -> Digests \cup {None}]
          /\ [label EXCEPT ![item] = got] \in [Items -> Digests \cup {None}]
      BY SlotEdited DEF IInv, TypeOK
    <3>2. slot' \in [Items -> Digests \cup {None}] /\ label' \in [Items -> Digests \cup {None}]
      BY <1>2, <3>1 DEF IInv, TypeOK, Commit
    <3>3. pc' \in {"check", "judge", "sidecar"} /\ early' \in BOOLEAN
      BY <1>2 DEF IInv, TypeOK, Commit, Arrive
    <3>. QED  BY <1>2, <3>2, <3>3 DEF IInv, TypeOK, Commit
  <2>2. Claims'
    BY <1>2, ClaimsKept DEF IInv, Commit, Arrive
  <2>3. InHand' /\ Placed' /\ Asked' /\ OkMeansInstalled'
    BY <1>2 DEF IInv, TypeOK, InHand, Placed, Asked, OkMeansInstalled, PinHolds, Commit, Arrive
  <2>. QED  BY <2>1, <2>2, <2>3 DEF IInv
<1>3. CASE CommitFails
  <2>1. TypeOK'
    BY <1>3, FaultCounts DEF IInv, TypeOK, CommitFails, Abort, Drop, Fail
  <2>2. Claims'
    BY <1>3, ClaimsKept DEF IInv, CommitFails, Fault, Abort, Drop, Fail
  <2>3. InHand' /\ Placed' /\ Asked' /\ OkMeansInstalled'
    BY <1>3 DEF IInv, TypeOK, InHand, Placed, Asked, OkMeansInstalled, PinHolds, CommitFails, Fault, Abort, Drop, Fail
  <2>. QED  BY <2>1, <2>2, <2>3 DEF IInv
<1>4. CASE Sidecar
  <2>1. TypeOK'
    <3>1. [label EXCEPT ![item] = got] \in [Items -> Digests \cup {None}]
      BY SlotEdited DEF IInv, TypeOK
    <3>2. label' \in [Items -> Digests \cup {None}] /\ faults' \in Nat
      BY <1>4, <3>1, FaultCounts DEF IInv, TypeOK, Sidecar
    <3>3. pc' \in {"check", "judge"} /\ early' \in BOOLEAN
      BY <1>4 DEF Sidecar, Arrive
    <3>. QED  BY <1>4, <3>2, <3>3 DEF IInv, TypeOK, Sidecar
  <2>2. Claims'
    BY <1>4, ClaimsKept DEF IInv, Sidecar, Fault, Arrive
  <2>3. InHand' /\ Placed' /\ Asked' /\ OkMeansInstalled'
    BY <1>4 DEF IInv, TypeOK, InHand, Placed, Asked, OkMeansInstalled, PinHolds, Sidecar, Fault, Arrive
  <2>. QED  BY <2>1, <2>2, <2>3 DEF IInv
<1>. QED  BY <1>1, <1>2, <1>3, <1>4

LEMMA DownloadStep ==
  ASSUME IInv, NEW a \in Digests, Download(a)
  PROVE  IInv'
<1> USE DEF Download, Hand, Arrive, order, project
<1>1. TypeOK'
  BY DEF IInv, TypeOK
<1>2. Claims'
  BY ClaimsKept DEF IInv
<1>3. InHand' /\ Placed' /\ Asked' /\ OkMeansInstalled'
  BY NamesAssumption DEF IInv, InHand, Placed, Asked, Declared, OkMeansInstalled, Fetched, Judged, Deleting
<1>. QED  BY <1>1, <1>2, <1>3 DEF IInv

(* verifyAndExtract and its recovery. *)
LEMMA JudgingStep ==
  ASSUME IInv, Judge \/ JudgeRefuses \/ Evict \/ Unlabel
  PROVE  IInv'
<1> USE DEF cache, project, order, payload, Fetched, Judged, Deleting
<1>1. CASE Judge
  <2>1. TypeOK'
    BY <1>1 DEF IInv, TypeOK, Judge
  <2>2. Claims'
    BY <1>1, ClaimsKept DEF IInv, Judge
  <2>3. InHand' /\ Placed' /\ Asked' /\ OkMeansInstalled'
    BY <1>1 DEF IInv, TypeOK, InHand, Placed, Asked, OkMeansInstalled, PinHolds, Judge
  <2>. QED  BY <2>1, <2>2, <2>3 DEF IInv
<1>2. CASE JudgeRefuses
  <2>1. TypeOK'
    BY <1>2 DEF IInv, TypeOK, JudgeRefuses, Refused, CanRetry, Fail, Drop
  <2>2. Claims'
    BY <1>2, ClaimsKept DEF IInv, JudgeRefuses, Refused, CanRetry, Fail, Drop
  <2>3. InHand' /\ Placed' /\ Asked' /\ OkMeansInstalled'
    BY <1>2 DEF IInv, TypeOK, InHand, Placed, Asked, OkMeansInstalled, PinHolds, JudgeRefuses, Refused, CanRetry, Fail, Drop
  <2>. QED  BY <2>1, <2>2, <2>3 DEF IInv
<1>3. CASE Evict
  <2>1. TypeOK'
    BY <1>3 DEF IInv, TypeOK, Evict, Fault
  <2>2. Claims'
    BY <1>3, ClaimsKept DEF IInv, Evict, Fault
  <2>3. InHand' /\ Placed' /\ Asked' /\ OkMeansInstalled'
    BY <1>3 DEF IInv, TypeOK, InHand, Placed, Asked, OkMeansInstalled, PinHolds, Evict, Fault
  <2>. QED  BY <2>1, <2>2, <2>3 DEF IInv
<1>4. CASE Unlabel
  <2>1. TypeOK'
    BY <1>4 DEF IInv, TypeOK, Unlabel, Fault
  <2>2. Claims'
    BY <1>4, ClaimsKept DEF IInv, Unlabel, Fault
  <2>3. InHand' /\ Placed' /\ Asked' /\ OkMeansInstalled'
    BY <1>4 DEF IInv, TypeOK, InHand, Placed, Asked, OkMeansInstalled, PinHolds, Unlabel, Fault
  <2>. QED  BY <2>1, <2>2, <2>3 DEF IInv
<1>. QED  BY <1>1, <1>2, <1>3, <1>4

-----------------------------------------------------------------------------
(* extractTree. *)
LEMMA AlreadyThereStep ==
  ASSUME IInv, AlreadyThere
  PROVE  IInv'
<1>0. named \in Digests
  BY DEF IInv, TypeOK, InHand, AlreadyThere, Judged
<1>1. TypeOK'
  BY DEF IInv, TypeOK, AlreadyThere, MarkerHolds, order, cache, payload
<1>2. Claims'
  BY ClaimsKept DEF IInv, AlreadyThere, MarkerHolds
<1>3. tree = named /\ whole
  BY <1>0, MarkerTells, Names DEF IInv, AlreadyThere, MarkerHolds, MarkersTellTruth
<1>4. InHand' /\ Placed' /\ Asked' /\ OkMeansInstalled'
  BY <1>3 DEF IInv, AlreadyThere, InHand, Placed, Asked, OkMeansInstalled, PinHolds,
              Fetched, Judged, Deleting, order, cache, payload
<1>. QED  BY <1>1, <1>2, <1>4 DEF IInv

LEMMA ExtractStep ==
  ASSUME IInv, Extract
  PROVE  IInv'
<1>0. named \in Digests
  BY DEF IInv, TypeOK, InHand, Extract, Judged
<1>1. Claims' /\ mark' \in [Versions -> [Digests -> Tallies \cup {None, Torn}]]
  BY <1>0, RefusedMarker DEF IInv, Extract
<1>2. TypeOK'
  BY <1>1 DEF IInv, TypeOK, Extract, order, cache, payload
<1>3. InHand' /\ Placed' /\ Asked' /\ OkMeansInstalled'
  BY DEF IInv, Extract, InHand, Placed, Asked, OkMeansInstalled, PinHolds,
         Fetched, Judged, Deleting, order, cache, payload
<1>. QED  BY <1>1, <1>2, <1>3 DEF IInv

LEMMA ResetStep ==
  ASSUME IInv, Reset
  PROVE  IInv'
<1>1. TypeOK'
  BY DEF IInv, TypeOK, Reset, order, cache, payload
<1>2. Claims'
  BY DEF IInv, Claims, Reset
<1>3. InHand' /\ Placed' /\ Asked' /\ OkMeansInstalled'
  BY DEF IInv, Reset, InHand, Placed, Asked, OkMeansInstalled, PinHolds,
         Fetched, Judged, Deleting, order, cache, payload
<1>. QED  BY <1>1, <1>2, <1>3 DEF IInv

\* RemoveAll of one .info directory, or of a part of it.
LEMMA WipeStep ==
  ASSUME IInv, NEW w \in Versions, Wipe(w)
  PROVE  IInv'
<1>1. /\ mark' \in [Versions -> [Digests -> Tallies \cup {None, Torn}]]
      /\ \A u \in Versions, d \in Digests : mark'[u][d] \in {mark[u][d], None}
  <2>1. CASE mark' = [mark EXCEPT ![w] = Unmarked]
    BY <2>1 DEF IInv, TypeOK, Unmarked
  <2>2. CASE UNCHANGED mark
    BY <2>2 DEF IInv, TypeOK
  <2>. QED  BY <2>1, <2>2 DEF Wipe
<1>2. yml' \in SUBSET Versions
  BY DEF IInv, TypeOK, Wipe
<1>3. TypeOK'
  BY <1>1, <1>2 DEF IInv, TypeOK, Wipe, order, cache, payload
<1>4. Claims'
  BY <1>1, NamesAssumption DEF IInv, Claims, Wipe
<1>5. InHand' /\ Placed' /\ Asked' /\ OkMeansInstalled'
  BY DEF IInv, Wipe, InHand, Placed, Asked, OkMeansInstalled, PinHolds,
         Fetched, Judged, Deleting, order, cache, payload
<1>. QED  BY <1>3, <1>4, <1>5 DEF IInv

LEMMA WipedStep ==
  ASSUME IInv, Wiped
  PROVE  IInv'
<1>1. TypeOK'
  BY DEF IInv, TypeOK, Wiped, order, cache, project, payload
<1>2. Claims'
  BY ClaimsKept DEF IInv, Wiped, project
<1>3. \A w \in Versions, d \in Digests : mark[w][d] = None
  BY DEF Wiped, Dirty, Unmarked
<1>4. InHand' /\ Placed' /\ Asked' /\ OkMeansInstalled'
  BY <1>3 DEF IInv, Wiped, InHand, Placed, Asked, OkMeansInstalled, PinHolds,
              Fetched, Judged, Deleting, order, cache, project, payload
<1>. QED  BY <1>2, <1>1, <1>4 DEF IInv

-----------------------------------------------------------------------------
(* What is refused, or fails, while a tree is put in place. *)
LEMMA RefusedStep ==
  ASSUME IInv, NEW repairable \in BOOLEAN, Refused(repairable)
  PROVE  /\ pc' \in {"prepare", "evict", "end"}
         /\ pc' = "evict" => ~locked /\ mode # "offline"
         /\ outcome' \in {outcome, "failed"} /\ force' \in BOOLEAN
         /\ pc' = "end" => outcome' = "failed"
         /\ Drop
BY DEF IInv, TypeOK, Refused, CanRetry, Fail, Drop

\* What the store hands over, and what is unpacked, is the artifact named.
LEMMA UnpackedIsNamed ==
  ASSUME IInv, pc = "unpack", Stored \/ Sound
  PROVE  named \in Digests /\ (IF Stored THEN named ELSE got) = named
BY DEF IInv, TypeOK, InHand, Judged, Stored, Sound

\* With no marker left, any tree is claimed by none.
LEMMA NoneClaims ==
  ASSUME IInv, pc = "unpack", UNCHANGED mark
  PROVE  Claims'
BY NamesAssumption DEF IInv, Placed, Claims

LEMMA ResetFailsStep ==
  ASSUME IInv, ResetFails
  PROVE  IInv'
<1>0. PICK repairable \in BOOLEAN : Refused(repairable)
  BY DEF ResetFails
<1>1. TypeOK'
  BY <1>0, RefusedStep, FaultCounts DEF IInv, TypeOK, ResetFails, order, cache, Drop
<1>2. Claims'
  BY ClaimsKept DEF IInv, ResetFails
<1>3. InHand' /\ Placed' /\ Asked' /\ OkMeansInstalled'
  BY <1>0, RefusedStep DEF IInv, ResetFails, InHand, Placed, Asked, OkMeansInstalled, PinHolds,
                           Fetched, Judged, Deleting, order, cache, Drop
<1>. QED  BY <1>1, <1>2, <1>3 DEF IInv

LEMMA UnpackStep ==
  ASSUME IInv, Unpack
  PROVE  IInv'
<1>0. named \in Digests /\ tree' = named
  BY UnpackedIsNamed DEF Unpack
<1>1. TypeOK'
  BY <1>0 DEF IInv, TypeOK, Unpack, order, payload
<1>2. Claims'
  BY NoneClaims DEF IInv, Unpack
<1>3. InHand' /\ Placed' /\ Asked' /\ OkMeansInstalled'
  BY <1>0 DEF IInv, Unpack, InHand, Placed, Asked, OkMeansInstalled, PinHolds,
              Fetched, Judged, Deleting, order, payload
<1>. QED  BY <1>1, <1>2, <1>3 DEF IInv

LEMMA UnpackRefusesStep ==
  ASSUME IInv, UnpackRefuses
  PROVE  IInv'
<1>1. TypeOK'
  BY RefusedStep DEF IInv, TypeOK, UnpackRefuses, order, cache, project, Drop
<1>2. Claims'
  BY NoneClaims DEF UnpackRefuses, project
<1>3. InHand' /\ Placed' /\ Asked' /\ OkMeansInstalled'
  BY RefusedStep DEF IInv, UnpackRefuses, InHand, Placed, Asked, OkMeansInstalled, PinHolds,
                     Fetched, Judged, Deleting, order, cache, project, Drop
<1>. QED  BY <1>1, <1>2, <1>3 DEF IInv

LEMMA PartOfTree ==
  ASSUME IInv, pc = "unpack", PartlyUnpacked \/ UNCHANGED <<cas, tree, whole>>
  PROVE  tree' \in Digests \cup {None} /\ whole' \in BOOLEAN /\ cas' \in SUBSET Digests
BY UnpackedIsNamed DEF IInv, TypeOK, PartlyUnpacked

LEMMA UnpackFailsStep ==
  ASSUME IInv, UnpackFails
  PROVE  IInv'
<1>0. /\ tree' \in Digests \cup {None} /\ whole' \in BOOLEAN /\ cas' \in SUBSET Digests
      /\ Refused(TRUE)
  BY PartOfTree DEF UnpackFails
<1>1. TypeOK'
  BY <1>0, RefusedStep, FaultCounts DEF IInv, TypeOK, UnpackFails, order, Drop
<1>2. Claims'
  BY NoneClaims DEF UnpackFails
<1>3. InHand' /\ Placed' /\ Asked' /\ OkMeansInstalled'
  BY <1>0, RefusedStep DEF IInv, UnpackFails, InHand, Placed, Asked, OkMeansInstalled, PinHolds,
                           Fetched, Judged, Deleting, order, Drop
<1>. QED  BY <1>1, <1>2, <1>3 DEF IInv

LEMMA MarkStep ==
  ASSUME IInv, Mark
  PROVE  IInv'
<1>0. named \in Digests /\ tree = named /\ \A w \in Versions, d \in Digests : mark[w][d] = None
  BY DEF IInv, TypeOK, InHand, Placed, Mark, Judged
<1>1. /\ mark' \in [Versions -> [Digests -> Tallies \cup {None, Torn}]]
      /\ \A u \in Versions, e \in Digests :
           mark'[u][e] = IF u = version /\ e = named THEN Tally[tree] ELSE mark[u][e]
  <2>1. version \in Versions /\ Tally[tree] \in Tallies /\ TypeOK
    BY <1>0, Names DEF IInv
  <2>2. mark' = [mark EXCEPT ![version][named] = Tally[tree]]
    BY DEF Mark
  <2>. QED  BY <1>0, <2>1, <2>2, OneMarker
<1>2. TypeOK'
  BY <1>1 DEF IInv, TypeOK, Mark, order, cache, payload
<1>3. Claims'
  BY <1>0, <1>1, NamesAssumption DEF Claims, Mark
<1>4. InHand' /\ Placed' /\ Asked' /\ OkMeansInstalled'
  BY DEF IInv, Mark, InHand, Placed, Asked, OkMeansInstalled, PinHolds,
         Fetched, Judged, Deleting, order, cache, payload
<1>. QED  BY <1>2, <1>3, <1>4 DEF IInv

\* A marker that was not written, or not all of it, claims nothing.
LEMMA TornMarker ==
  ASSUME IInv, pc = "mark", UNCHANGED tree, NEW m \in {None, Torn},
         mark' = [mark EXCEPT ![version][named] = m]
  PROVE  Claims' /\ mark' \in [Versions -> [Digests -> Tallies \cup {None, Torn}]]
<1>0. named \in Digests /\ \A w \in Versions, d \in Digests : mark[w][d] = None
  BY DEF IInv, TypeOK, InHand, Placed, Judged
<1>1. /\ mark' \in [Versions -> [Digests -> Tallies \cup {None, Torn}]]
      /\ \A u \in Versions, e \in Digests :
           mark'[u][e] = IF u = version /\ e = named THEN m ELSE mark[u][e]
  BY <1>0, Names, OneMarker DEF IInv
<1>. QED  BY <1>0, <1>1, NamesAssumption DEF Claims

LEMMA MarkFailsStep ==
  ASSUME IInv, MarkFails
  PROVE  IInv'
<1>1. Claims' /\ mark' \in [Versions -> [Digests -> Tallies \cup {None, Torn}]]
  BY TornMarker DEF MarkFails
<1>2. TypeOK'
  BY <1>1, RefusedStep, FaultCounts DEF IInv, TypeOK, MarkFails, order, cache, Drop
<1>3. InHand' /\ Placed' /\ Asked' /\ OkMeansInstalled'
  BY RefusedStep DEF IInv, MarkFails, InHand, Placed, Asked, OkMeansInstalled, PinHolds,
                     Fetched, Judged, Deleting, order, cache, Drop
<1>. QED  BY <1>1, <1>2, <1>3 DEF IInv

-----------------------------------------------------------------------------
(* The end of an install, and of a run. *)
LEMMA InfoStep ==
  ASSUME IInv, Info
  PROVE  IInv'
<1>0. yml' \in SUBSET Versions /\ faults' \in Nat
  BY Names, FaultCounts DEF IInv, TypeOK, Info
<1>1. TypeOK'
  BY <1>0 DEF IInv, TypeOK, Info, order, cache, payload
<1>2. Claims'
  BY ClaimsKept DEF IInv, Info
<1>3. InHand' /\ Placed' /\ Asked' /\ OkMeansInstalled'
  BY DEF IInv, Info, InHand, Placed, Asked, OkMeansInstalled, PinHolds,
         Fetched, Judged, Deleting, order, cache, payload
<1>. QED  BY <1>1, <1>2, <1>3 DEF IInv

LEMMA RecordStep ==
  ASSUME IInv, RecordInstall
  PROVE  IInv'
<1> DEFINE r == [sha |-> named, source |-> Source[item]]
<1>0. named \in Digests /\ tree = named /\ whole /\ version \in Versions /\ r \in Record
  BY Names DEF IInv, TypeOK, InHand, Placed, RecordInstall, Judged, Record
<1>1. mem' = [mem EXCEPT ![version] = r]
  BY DEF RecordInstall
<1>2. mem' \in [Versions -> Record \cup {None}] /\ mem'[version] = r
  BY <1>0, <1>1 DEF IInv, TypeOK
<1>3. TypeOK'
  BY <1>2 DEF IInv, TypeOK, RecordInstall, Drop, order, cache, project
<1>4. Claims'
  BY ClaimsKept DEF IInv, RecordInstall, project
<1>5. InHand' /\ Placed' /\ Asked'
  BY DEF IInv, RecordInstall, InHand, Placed, Asked, Drop, Fetched, Judged, Deleting,
         order, cache, project
<1>6. OkMeansInstalled'
  <2>1. version' = version /\ mem'[version].sha = named /\ mem'[version].source = Source[item]
    BY <1>2 DEF RecordInstall, order, version
  <2>2. pin \in {None, named}
    BY DEF IInv, Asked, PinHolds, RecordInstall, Judged
  <2>3. mem'[version] # None
    BY <1>0, <1>2, NamesAssumption
  <2>. QED
    BY <1>0, <2>1, <2>2, <2>3 DEF OkMeansInstalled, RecordInstall, order, project
<1>. QED  BY <1>3, <1>4, <1>5, <1>6 DEF IInv

LEMMA OverStep ==
  ASSUME IInv, Over, UNCHANGED <<slot, label>>, cas' \in SUBSET Digests,
         tree' \in Digests \cup {None}, whole' \in BOOLEAN, yml' \in SUBSET Versions,
         mark' \in [Versions -> [Digests -> Tallies \cup {None, Torn}]],
         snap' \in [Versions -> Record \cup {None}], faults' \in Nat, Claims'
  PROVE  IInv'
<1>1. AnyItem \in Items
  BY NamesAssumption DEF AnyItem
<1>2. TypeOK'
  BY <1>1 DEF IInv, TypeOK, Over, Drop, Modes
<1>3. InHand' /\ Placed' /\ Asked' /\ OkMeansInstalled'
  BY DEF IInv, Over, Drop, InHand, Placed, Asked, OkMeansInstalled, Fetched, Judged, Deleting
<1>. QED  BY <1>2, <1>3 DEF IInv

LEMMA SaveStep ==
  ASSUME IInv, Save
  PROVE  IInv'
<1>1. snap' \in [Versions -> Record \cup {None}] /\ faults' \in Nat
  BY FaultCounts DEF IInv, TypeOK, Save
<1>2. Claims'
  BY ClaimsKept DEF IInv, Save, project
<1>. QED  BY <1>1, <1>2, OverStep DEF IInv, TypeOK, Save, cache, project

\* A kill leaves a marker that claims nothing, or part of a tree that no
\* marker claims.
LEMMA KillStep ==
  ASSUME IInv, Kill
  PROVE  IInv'
<1>1. /\ cas' \in SUBSET Digests /\ tree' \in Digests \cup {None} /\ whole' \in BOOLEAN
      /\ mark' \in [Versions -> [Digests -> Tallies \cup {None, Torn}]]
      /\ yml' \in SUBSET Versions /\ Claims'
  <2>1. CASE UNCHANGED <<cas, project>>
    BY <2>1, ClaimsKept DEF IInv, TypeOK, project
  <2>2. CASE pc = "reset" /\ whole' = FALSE /\ UNCHANGED <<cas, tree, mark, yml>>
    BY <2>2, ClaimsKept DEF IInv, TypeOK
  <2>3. CASE PartlyUnpacked /\ UNCHANGED <<mark, yml>>
    <3>1. pc = "unpack"
      BY <2>3 DEF PartlyUnpacked
    <3>2. tree' \in Digests \cup {None} /\ whole' \in BOOLEAN /\ cas' \in SUBSET Digests
      BY <2>3, <3>1, PartOfTree
    <3>. QED  BY <2>3, <3>1, <3>2, NoneClaims DEF IInv, TypeOK
  <2>4. CASE /\ pc = "mark" /\ mark' = [mark EXCEPT ![version][named] = Torn]
             /\ UNCHANGED <<cas, tree, whole, yml>>
    BY <2>4, TornMarker DEF IInv, TypeOK
  <2>5. CASE pc = "info" /\ yml' = yml \ {version} /\ UNCHANGED <<cas, tree, whole, mark>>
    BY <2>5, ClaimsKept DEF IInv, TypeOK
  <2>. QED  BY <2>1, <2>2, <2>3, <2>4, <2>5 DEF Kill, Halfway
<1>2. snap' \in [Versions -> Record \cup {None}] /\ faults' \in Nat
  BY FaultCounts DEF IInv, TypeOK, Kill
<1>. QED  BY <1>1, <1>2, OverStep DEF Kill

(* Between runs. *)
LEMMA DamageStep ==
  ASSUME IInv, Damage
  PROVE  IInv'
<1>1. slot' \in [Items -> Digests \cup {None}] /\ whole' \in BOOLEAN /\ faults' \in Nat
  BY NamesAssumption, FaultCounts DEF IInv, TypeOK, Damage
<1>2. TypeOK'
  BY <1>1 DEF IInv, TypeOK, Damage, order, payload
<1>3. Claims'
  BY ClaimsKept DEF IInv, Damage
<1>4. InHand' /\ Placed' /\ Asked' /\ OkMeansInstalled'
  BY DEF IInv, Damage, InHand, Placed, Asked, OkMeansInstalled, Fetched, Judged, Deleting,
         order, payload
<1>. QED  BY <1>2, <1>3, <1>4 DEF IInv

LEMMA ClearFilesStep ==
  ASSUME IInv, ClearFiles
  PROVE  IInv'
<1>1. TypeOK'
  BY DEF IInv, TypeOK, ClearFiles, order, project, payload
<1>2. Claims'
  BY ClaimsKept DEF IInv, ClearFiles, project
<1>3. InHand' /\ Placed' /\ Asked' /\ OkMeansInstalled'
  BY DEF IInv, ClearFiles, InHand, Placed, Asked, OkMeansInstalled, Fetched, Judged, Deleting,
         order, project, payload
<1>. QED  BY <1>1, <1>2, <1>3 DEF IInv

LEMMA StutterStep ==
  ASSUME IInv, UNCHANGED vars
  PROVE  IInv'
<1> USE DEF vars, order, cache, project, payload
<1>1. TypeOK'
  BY DEF IInv, TypeOK
<1>2. Claims'
  BY ClaimsKept DEF IInv
<1>3. InHand' /\ Placed' /\ Asked' /\ OkMeansInstalled'
  BY DEF IInv, InHand, Placed, Asked, PinHolds, OkMeansInstalled, version
<1>. QED  BY <1>1, <1>2, <1>3 DEF IInv

-----------------------------------------------------------------------------
LEMMA NextKeepsIInv == IInv /\ [Next]_vars => IInv'
<1> SUFFICES ASSUME IInv, [Next]_vars PROVE IInv'
  OBVIOUS
<1>1. CASE Step
  <2>1. CASE Extracting
    BY <2>1, AlreadyThereStep, ExtractStep, ResetStep, WipeStep, WipedStep, ResetFailsStep,
       UnpackStep, UnpackRefusesStep, UnpackFailsStep, MarkStep, MarkFailsStep DEF Extracting
  <2>2. CASE Ending
    BY <2>2, InfoStep, RecordStep, SaveStep DEF Ending
  <2>3. CASE Scan \/ Skip \/ NoSkip
    BY <2>3, ScanStep
  <2>4. CASE Fetching
    BY <2>4, FetchingStep DEF Fetching
  <2>5. CASE Acquiring
    BY <2>5, AcquiringStep, DownloadStep DEF Acquiring
  <2>6. CASE Judging
    BY <2>6, JudgingStep DEF Judging
  <2>. QED  BY <1>1, <2>1, <2>2, <2>3, <2>4, <2>5, <2>6 DEF Step
<1>2. CASE UNCHANGED vars
  BY <1>2, StutterStep
<1>3. CASE Next /\ ~Step
  BY <1>3, BeginStep, KillStep, DamageStep, ClearFilesStep DEF Next
<1>. QED  BY <1>1, <1>2, <1>3

\* The inductive invariant holds in every behaviour.
THEOREM Invariant == Spec => []IInv
BY InitIInv, NextKeepsIInv, PTL DEF Spec

\* Type correctness.
THEOREM TypeCorrect == Spec => []TypeOK
<1>1. IInv => TypeOK
  BY DEF IInv
<1>. QED  BY Invariant, <1>1, PTL

\* No marker passes for a tree other than its digest's (checkExtractMarker),
\* whatever was killed, failed or was damaged, and whatever trees share a tally.
THEOREM MarkersTrue == Spec => []MarkersTellTruth
<1>1. IInv => MarkersTellTruth
  BY MarkerTells DEF IInv
<1>. QED  BY Invariant, <1>1, PTL

\* A run that reports an item installed has it installed, whole, recorded for
\* its server, and as pinned.
THEOREM OkIsInstalled == Spec => []OkMeansInstalled
<1>1. IInv => OkMeansInstalled
  BY DEF IInv
<1>. QED  BY Invariant, <1>1, PTL

-----------------------------------------------------------------------------
\* The installed tree changes only while an extraction puts one in place.
LEMMA TreeTouched ==
  ASSUME IInv, Next, pc # "idle", <<tree, whole>>' # <<tree, whole>>
  PROVE  pc \in Judged /\ named # None /\ tree' \in {tree, None, named}
<1>1. CASE Scan \/ Skip \/ NoSkip \/ Fetching \/ Acquiring \/ Judging \/ Ending
  BY <1>1 DEF Scan, Skip, NoSkip, Fetching, UsePrefetched, FetchCached, FetchMismatch, FetchFails, Miss,
              Acquiring, Download, DownloadFails, Commit, CommitFails, Sidecar,
              Judging, Judge, JudgeRefuses, Evict, Unlabel, Ending, Info, RecordInstall, Save, project
<1>2. CASE Extracting
  <2>1. CASE Reset \/ ResetFails \/ Unpack \/ UnpackFails
    <3>1. pc \in Judged /\ named # None
      BY <2>1 DEF IInv, InHand, Judged, Reset, ResetFails, Unpack, UnpackFails
    <3>2. tree' \in {tree, None, named}
      BY <2>1, UnpackedIsNamed DEF Reset, ResetFails, Unpack, UnpackFails, PartlyUnpacked
    <3>. QED  BY <3>1, <3>2
  <2>2. CASE \/ AlreadyThere \/ Extract \/ (\E w \in Versions : Wipe(w)) \/ Wiped
             \/ UnpackRefuses \/ Mark \/ MarkFails
    BY <2>2 DEF AlreadyThere, Extract, Wipe, Wiped, UnpackRefuses, Mark, MarkFails, project
  <2>. QED  BY <1>2, <2>1, <2>2 DEF Extracting
<1>3. CASE Kill
  <2>1. (pc = "reset" /\ UNCHANGED tree) \/ PartlyUnpacked
    BY <1>3 DEF Kill, Halfway, project
  <2>2. pc \in Judged /\ named # None
    BY <2>1 DEF IInv, InHand, Judged, PartlyUnpacked
  <2>3. tree' \in {tree, named}
    BY <2>1, UnpackedIsNamed DEF PartlyUnpacked
  <2>. QED  BY <2>2, <2>3
<1>4. ~ \E i \in Items, p \in Pins \cup {None}, l \in BOOLEAN, m \in Modes : Begin(i, p, l, m)
  BY DEF Begin
<1>5. ~Damage /\ ~ClearFiles
  BY DEF Damage, ClearFiles
<1>. QED  BY <1>1, <1>2, <1>3, <1>4, <1>5 DEF Next, Step

\* verifyPinnedSHA comes before any write: nothing of an artifact that is not
\* believed to be the pinned one reaches the installed tree.
THEOREM PinIsAskedFirst == Spec => PinGuardsTree
<1>1. IInv /\ [Next]_vars =>
        [(pc # "idle" /\ pin # None /\ <<tree, whole>>' # <<tree, whole>>) =>
           named = pin /\ tree' \in {tree, None, pin}]_vars
  BY TreeTouched DEF IInv, Asked, PinHolds
<1>. QED  BY <1>1, Invariant, PTL DEF Spec, PinGuardsTree

\* A cache slot changes only at a commit or an eviction.
LEMMA SlotTouched ==
  ASSUME IInv, Next, pc # "idle", <<slot, label>>' # <<slot, label>>
  PROVE  pc \in Fetched \cup Deleting
<1>1. CASE Commit \/ Sidecar \/ Evict \/ Unlabel
  BY <1>1 DEF Commit, Sidecar, Evict, Unlabel, Fetched, Deleting
<1>2. CASE Scan \/ Skip \/ NoSkip \/ Fetching \/ Ending
  BY <1>2 DEF Scan, Skip, NoSkip, Fetching, UsePrefetched, FetchCached, FetchMismatch, FetchFails, Miss,
              Ending, Info, RecordInstall, Save, cache
<1>3. CASE \/ (\E a \in Digests : Download(a)) \/ DownloadFails \/ CommitFails \/ Judge \/ JudgeRefuses
  BY <1>3 DEF Download, DownloadFails, CommitFails, Judge, JudgeRefuses, cache
<1>4. CASE Extracting
  BY <1>4 DEF Extracting, AlreadyThere, Extract, Reset, Wipe, Wiped, ResetFails, Unpack,
              UnpackRefuses, UnpackFails, Mark, MarkFails, cache
<1>5. CASE Kill
  BY <1>5 DEF Kill
<1>6. ~ \E i \in Items, p \in Pins \cup {None}, l \in BOOLEAN, m \in Modes : Begin(i, p, l, m)
  BY DEF Begin
<1>7. ~Damage /\ ~ClearFiles
  BY DEF Damage, ClearFiles
<1>. QED  BY <1>1, <1>2, <1>3, <1>4, <1>5, <1>6, <1>7 DEF Next, Step, Acquiring, Judging

\* An offline run gives up no cached artifact (canRetryCacheHit).
THEOREM OfflineKeeps == Spec => OfflineKeepsCache
<1>1. IInv /\ [Next]_vars =>
        [(pc # "idle" /\ mode = "offline") => UNCHANGED <<slot, label>>]_vars
  BY SlotTouched DEF IInv, Asked
<1>. QED  BY <1>1, Invariant, PTL DEF Spec, OfflineKeepsCache

\* Which steps change a slot, and how.
LEMMA SlotChanged ==
  ASSUME IInv, Next, pc # "idle", slot' # slot
  PROVE  \/ pc = "commit" /\ slot' = [slot EXCEPT ![item] = got]
         \/ pc = "evict"
<1>1. pc \in Fetched \cup Deleting
  BY SlotTouched
<1>2. Commit \/ Sidecar \/ Evict \/ Unlabel \/ CommitFails \/ Kill
  BY <1>1 DEF Next, Step, Begin, Scan, Skip, NoSkip, Fetching, UsePrefetched, FetchCached, FetchMismatch,
              FetchFails, Miss, IsCacheHit, Acquiring, Download, DownloadFails, Judging, Judge, JudgeRefuses,
              Extracting, AlreadyThere, Extract, Reset, Wipe, Wiped, ResetFails, Unpack, UnpackRefuses,
              UnpackFails, Mark, MarkFails, Ending, Info, RecordInstall, Save, Damage, ClearFiles,
              Fetched, Deleting
<1>. QED  BY <1>2 DEF Commit, Sidecar, Evict, Unlabel, CommitFails, Kill, cache

\* A locked run puts only what its pin names in a slot, and deletes only an
\* object that contradicts its own metadata (refetchCachedArtifact).
THEOREM LockedKeeps == Spec => LockedKeepsSlot
<1>1. IInv /\ [Next]_vars =>
        [(pc # "idle" /\ locked /\ slot' # slot) =>
           \/ slot'[item] = pin
           \/ backend = "s3" /\ label[item] # slot[item]]_vars
  <2> SUFFICES ASSUME IInv, Next, pc # "idle", locked, slot' # slot
               PROVE  slot'[item] = pin \/ (backend = "s3" /\ label[item] # slot[item])
    BY DEF vars, cache
  <2>1. CASE pc = "commit" /\ slot' = [slot EXCEPT ![item] = got]
    <3>1. got = pin
      BY <2>1 DEF IInv, Asked
    <3>2. slot'[item] = got
      BY <2>1 DEF IInv, TypeOK
    <3>. QED  BY <3>1, <3>2
  <2>2. CASE pc = "evict"
    BY <2>2 DEF IInv, Asked
  <2>. QED  BY <2>1, <2>2, SlotChanged
<1>. QED  BY <1>1, Invariant, PTL DEF Spec, LockedKeepsSlot


\* A run keeps the cached artifacts it could not fetch again, and those that
\* other projects' pins may name (canRetryCacheHit, refetchCachedArtifact).
THEOREM CacheKept == Spec => CacheIsKept
BY OfflineKeeps, LockedKeeps, PTL DEF CacheIsKept
=============================================================================
