--------------------------- MODULE UpstreamProofs ---------------------------
(***************************************************************************)
(* Theorems about what a run gets from outside.  Attempts, for any set of  *)
(* downloads and any bounds: only a signal ends a run as interrupted, and  *)
(* a worker's download of other bytes always alarms.  Discovery, for any   *)
(* sources, requirements files and servers whose roles share no pin: a     *)
(* request repeats what it meant, --offline refuses nothing that is kept,  *)
(* and what is installed is what was read.                                 *)
(***************************************************************************)
EXTENDS Attempts, Discovery, FiniteSetTheorems, TLAPS

(* What an operation's record may hold.                                    *)
Ends == {"live", "canceled", "expired"}
Places == {"idle", "send", "dialed", "body", "refusal", "broken", "attempted",
           "decide", "backoff", "return", "paged", "done"}
OpState == [at : Places, own : Ends, outer : Ends, tries : 0 .. MaxTries - 1, request : 0 .. MaxRequests - 1,
            drips : BOOLEAN, fired : BOOLEAN, err : SUBSET Sentinels]

(* A cancellation found in an error while the holder context is live is    *)
(* the watchdog's, or came with the end of a budget that will be blamed    *)
(* for it before the operation returns.                                    *)
Excused(o, r) ==
  ("canceled" \in r.err /\ HolderLive) =>
    /\ r.err \subseteq {"canceled", "transport"}
    /\ \/ r.at = "broken" /\ r.fired
       \/ o # Paging /\ r.own = "expired" /\ r.at \in {"attempted", "decide", "backoff", "return"}
       \/ o = Paging /\ r.own = "expired" /\ r.at = "attempted"
       \/ o = Paging /\ r.outer = "expired" /\ r.at \in {"decide", "backoff", "return", "paged"}

(* Only a budget expires a context, only the holder's end cancels one.     *)
Ended(o, r) ==
  /\ r.own = "expired" => Budgeted(o)
  /\ r.outer = "expired" => o = Paging
  /\ (r.own = "canceled" \/ r.outer = "canceled") => ~HolderLive

(* A mismatch is a download's, stands alone and leaves the loop with it.   *)
Mismatched(o, r) ==
  "sha" \in r.err => o \in Artifacts /\ r.err = {"sha"} /\ r.at \in {"attempted", "decide", "return", "done"}

(* Whoever waits to try again has a try left.                              *)
Tried(r) == r.at = "backoff" => r.tries + 1 < MaxTries

OpInv(o, r) == r \in OpState /\ Excused(o, r) /\ Ended(o, r) /\ Mismatched(o, r) /\ Tried(r)

(* Operations are under way only in their own stage.                       *)
Staged == \A o \in Ops : op[o].at # "idle" => stage <= Len(Stages) /\ o \in Stages[stage]
Judged == verdict # "none" => stage > Len(Stages)
OutcomeInv == "canceled" \in outcome => ~HolderLive
Kept ==
  mismatch /\ HolderLive =>
    "sha" \in outcome \/ \E a \in Artifacts : "sha" \in op[a].err /\ (op[a].at = "done" \/ op[a].request > 0)

IInv ==
  /\ TypeOK /\ \A o \in Ops : OpInv(o, op[o])
  /\ Staged /\ Judged /\ OutcomeInv /\ Kept
  /\ NoFalseInterrupt /\ MismatchAlarms

-----------------------------------------------------------------------------
(* The row of stages is eight sets of operations.                          *)
LEMMA StagesFact == Len(Stages) = 8 /\ Stages[7] = Artifacts /\ \A i \in 1 .. 8 : Stages[i] \subseteq Ops
BY DEF Stages, Ops, Single

LEMMA TypeIs ==
  TypeOK <=> /\ canceled \in BOOLEAN /\ lost \in BOOLEAN /\ mismatch \in BOOLEAN
             /\ op \in [Ops -> OpState] /\ stage \in 1 .. Len(Stages) + 1
             /\ outcome \in SUBSET Sentinels
             /\ verdict \in {"none", "ok", "interrupt", "integrity", "busy", "failed"}
BY DEF TypeOK, OpState, Ends, Places

(* An idle record is good, and so is a finished one whose error is.        *)
LEMMA IdleGood == ASSUME NEW o \in Ops  PROVE OpInv(o, Idle)
BY AttemptsAssumption DEF OpInv, OpState, Ends, Places, Excused, Ended, Mismatched, Tried, Idle, HolderLive, Sentinels

(* A step of one operation keeps the invariant if it leaves a good record, *)
(* stays in its stage and loses no mismatch of a worker's.                 *)
LEMMA StepInv ==
  ASSUME IInv, NEW o \in Ops, NEW r, Step(o, r), OpInv(o, r),
         r.at # "idle" => stage <= Len(Stages) /\ o \in Stages[stage],
         ("sha" \in op[o].err /\ (op[o].at = "done" \/ op[o].request > 0))
           => "sha" \in r.err /\ (r.at = "done" \/ r.request > 0)
  PROVE  IInv'
<1>1. op' = [op EXCEPT ![o] = r] /\ UNCHANGED <<canceled, lost, stage, outcome, verdict, mismatch>>
  BY DEF Step
<1>2. op \in [Ops -> OpState] /\ r \in OpState
  BY TypeIs DEF IInv, OpInv
<1>3. TypeOK'
  <2>1. op' \in [Ops -> OpState]
    BY <1>1, <1>2
  <2>. QED  BY <1>1, <2>1, TypeIs DEF IInv, TypeOK, OpState, Ends, Places
<1>4. \A q \in Ops : op'[q] = IF q = o THEN r ELSE op[q]
  BY <1>1, <1>2
<1>5. \A q \in Ops : OpInv(q, op[q])'
  <2> TAKE q \in Ops
  <2>1. CASE q = o
    BY <1>1, <1>4, <2>1 DEF OpInv, Excused, Ended, Mismatched, Tried, HolderLive
  <2>2. CASE q # o
    BY <1>1, <1>4, <2>2 DEF IInv, OpInv, Excused, Ended, Mismatched, Tried, HolderLive
  <2>. QED  BY <2>1, <2>2
<1>6. Staged'
  BY <1>1, <1>4 DEF IInv, Staged
<1>7. Kept'
  <2>1. ASSUME NEW a \in Artifacts, "sha" \in op[a].err, op[a].at = "done" \/ op[a].request > 0
        PROVE  "sha" \in op'[a].err /\ (op'[a].at = "done" \/ op'[a].request > 0)
    BY <1>4, <2>1 DEF Ops
  <2>. QED  BY <1>1, <2>1 DEF IInv, Kept, HolderLive
<1>. QED  BY <1>1, <1>3, <1>5, <1>6, <1>7 DEF IInv, Judged, OutcomeInv, NoFalseInterrupt, MismatchAlarms, HolderLive

-----------------------------------------------------------------------------
(***************************************************************************)
(* What the labels do to an error.                                         *)
(***************************************************************************)
LEMMA DeadlineFact ==
  ASSUME NEW p, NEW own, NEW err \in SUBSET Sentinels
  PROVE  /\ DeadlineError(p, own, err) \in {err, {"deadline"}}
         /\ ArtifactDeadlineError(p, own, err) \in {err, {"deadline"}}
         /\ err = {"sha"} => DeadlineError(p, own, err) = err /\ ArtifactDeadlineError(p, own, err) = err
BY DEF DeadlineError, ArtifactDeadlineError

(* The label of an attempt leaves the error or names the deadline, keeps a *)
(* mismatch, and excuses no cancellation that the operation's own budget   *)
(* brought about, unless the operation blames its budget when it returns.  *)
LEMMA AttemptFact ==
  ASSUME IInv, NEW o \in Ops
  PROVE  /\ AttemptLabel(o) \in {op[o].err, {"deadline"}}
         /\ op[o].err = {"sha"} => AttemptLabel(o) = {"sha"}
         /\ (o = Paging /\ "canceled" \in AttemptLabel(o) /\ HolderLive) => op[o].own # "expired" \/ op[o].outer # "live"
<1>1. op[o].err \in SUBSET Sentinels
  BY TypeIs DEF IInv, OpState
<1>2. OpInv(o, op[o])
  BY DEF IInv
<1>3. o = Paging => o \notin S3 /\ o \notin Artifacts
  BY AttemptsAssumption DEF Single
<1>4. (o = Paging /\ HolderLive /\ "canceled" \in op[o].err) => op[o].err \subseteq {"canceled", "transport"}
  BY <1>2 DEF OpInv, Excused
<1>5. AttemptLabel(o) \in {op[o].err, {"deadline"}} /\ (op[o].err = {"sha"} => AttemptLabel(o) = {"sha"})
  <2>1. CASE o \in S3
    BY <2>1 DEF AttemptLabel
  <2>2. CASE o \notin S3 /\ o \in Artifacts
    BY <1>1, <2>2, DeadlineFact DEF AttemptLabel
  <2>3. CASE o \notin S3 /\ o \notin Artifacts
    BY <1>1, <2>3, DeadlineFact DEF AttemptLabel
  <2>. QED  BY <2>1, <2>2, <2>3
<1>6. ASSUME o = Paging, "canceled" \in AttemptLabel(o), HolderLive, op[o].own = "expired", op[o].outer = "live"
      PROVE  FALSE
  <2>1. "canceled" \in op[o].err
    BY <1>5, <1>6
  <2>2. "deadline" \notin op[o].err
    BY <1>4, <1>6, <2>1
  <2>3. AttemptLabel(o) = {"deadline"}
    BY <1>3, <1>6, <2>1, <2>2 DEF AttemptLabel, ParentLive, DeadlineError
  <2>. QED  BY <1>6, <2>3
<1>. QED  BY <1>5, <1>6

(* An operation that returns has blamed its own budget.                    *)
LEMMA FinalFact ==
  ASSUME IInv, NEW o \in Ops, op[o].at = "return"
  PROVE  /\ FinalLabel(o) \in {op[o].err, {"deadline"}}
         /\ op[o].err = {"sha"} => FinalLabel(o) = {"sha"}
         /\ ("canceled" \in FinalLabel(o) /\ HolderLive) => o = Paging /\ op[o].outer = "expired"
<1>1. op[o].err \in SUBSET Sentinels
  BY TypeIs DEF IInv, OpState
<1>2. OpInv(o, op[o])
  BY DEF IInv
<1>3. FinalLabel(o) \in {op[o].err, {"deadline"}} /\ (op[o].err = {"sha"} => FinalLabel(o) = {"sha"})
  <2>1. CASE ~Budgeted(o)
    BY <2>1 DEF FinalLabel
  <2>2. CASE Budgeted(o) /\ o \in Artifacts
    BY <1>1, <2>2, DeadlineFact DEF FinalLabel
  <2>3. CASE Budgeted(o) /\ o \notin Artifacts
    BY <1>1, <2>3, DeadlineFact DEF FinalLabel
  <2>. QED  BY <2>1, <2>2, <2>3
<1>4. ASSUME "canceled" \in FinalLabel(o), HolderLive, o # Paging  PROVE FALSE
  <2>1. "canceled" \in op[o].err
    BY <1>3, <1>4
  <2>2. op[o].err \subseteq {"canceled", "transport"} /\ op[o].own = "expired"
    BY <1>2, <1>4, <2>1 DEF OpInv, Excused
  <2>3. Budgeted(o) /\ ParentLive(o)
    BY <1>2, <1>4, <2>2 DEF OpInv, Ended, ParentLive
  <2>4. FinalLabel(o) = {"deadline"}
    BY <2>1, <2>2, <2>3 DEF FinalLabel, DeadlineError, ArtifactDeadlineError
  <2>. QED  BY <1>4, <2>4
<1>5. ASSUME "canceled" \in FinalLabel(o), HolderLive, o = Paging  PROVE op[o].outer = "expired"
  <2>1. "canceled" \in op[o].err
    BY <1>3, <1>5
  <2>. QED  BY <1>2, <1>5, <2>1 DEF OpInv, Excused
<1>. QED  BY <1>3, <1>4, <1>5

-----------------------------------------------------------------------------
(***************************************************************************)
(* One lemma per step of an operation.                                     *)
(***************************************************************************)
LEMMA OpFact ==
  ASSUME IInv, NEW o \in Ops
  PROVE  /\ OpInv(o, op[o]) /\ op[o] \in OpState
         /\ op[o].at # "idle" => stage <= Len(Stages) /\ o \in Stages[stage]
BY DEF IInv, OpInv, Staged

(* So does a fresh request, unless a worker's mismatch is on record.       *)
LEMMA BegunInv ==
  ASSUME IInv, NEW o \in Ops, NEW n \in {0, 1}, Step(o, Begun(n)), stage <= Len(Stages) /\ o \in Stages[stage],
         "sha" \in op[o].err => op[o].at # "done" /\ ~(op[o].request > 0)
  PROVE  IInv'
<1>1. PICK live \in Ends : Begun(n) = [Idle EXCEPT !.at = "send", !.own = live, !.outer = live, !.request = n]
                           /\ live # "expired" /\ (live = "canceled" => ~HolderLive)
  BY DEF Begun, Ends
<1> DEFINE r == Begun(n)
<1>2. Idle \in OpState /\ Idle.err = {}
  BY IdleGood DEF OpInv, Idle
<1>3. r \in OpState /\ r.at = "send" /\ r.own = live /\ r.outer = live /\ r.err = {}
  <2>1. n \in 0 .. MaxRequests - 1
    BY AttemptsAssumption
  <2>2. r = [Idle EXCEPT !.at = "send", !.own = live, !.outer = live, !.request = n]
    BY <1>1
  <2>. HIDE DEF r
  <2>. QED  BY <1>2, <2>1, <2>2 DEF OpState, Places
<1>. HIDE DEF r
<1>4. OpInv(o, r)
  BY <1>1, <1>3 DEF OpInv, Excused, Ended, Mismatched, Tried
<1>. QED  BY <1>4, StepInv DEF r

LEMMA StartInv == ASSUME IInv, NEW o \in Ops, Start(o)  PROVE IInv'
<1>1. "sha" \notin op[o].err
  BY OpFact DEF OpInv, Mismatched, Start
<1>. QED  BY <1>1, BegunInv DEF Start

LEMMA WarnInv == ASSUME IInv, NEW o \in Ops, Warn(o)  PROVE IInv'
<1>1. stage <= Len(Stages) /\ o \in Stages[stage]
  BY OpFact DEF Warn
<1>. QED  BY <1>1, BegunInv DEF Warn, Prefetching

LEMMA ExpireInv == ASSUME IInv, NEW o \in Ops, Expire(o)  PROVE IInv'
<1> DEFINE r == [op[o] EXCEPT !.own = "expired"]
<1>1. op[o] \in OpState /\ OpInv(o, op[o]) /\ Step(o, r) /\ Budgeted(o) /\ op[o].own = "live" /\ op[o].at \notin {"idle", "done"}
  BY OpFact DEF Expire, Active
<1>2. r \in OpState /\ r.own = "expired" /\ r.at = op[o].at /\ r.outer = op[o].outer /\ r.fired = op[o].fired /\ r.err = op[o].err /\ r.tries = op[o].tries
      /\ r.request = op[o].request
  BY <1>1 DEF OpState, Ends
<1>. HIDE DEF r
<1>3. Excused(o, r)
  BY <1>1, <1>2 DEF OpInv, Excused
<1>4. Ended(o, r) /\ Mismatched(o, r) /\ Tried(r)
  BY <1>1, <1>2 DEF OpInv, Ended, Mismatched, Tried
<1>. QED  BY <1>1, <1>2, <1>3, <1>4, OpFact, StepInv DEF OpInv

LEMMA ExpirePagingInv == ASSUME IInv, ExpirePaging  PROVE IInv'
<1> DEFINE r == [op[Paging] EXCEPT !.outer = "expired", !.own = IF @ = "live" THEN "expired" ELSE @]
<1>1. Paging \in Ops /\ Budgeted(Paging)
  BY AttemptsAssumption DEF Ops, Single, Budgeted, S3
<1>2. op[Paging] \in OpState /\ OpInv(Paging, op[Paging]) /\ Step(Paging, r) /\ op[Paging].outer = "live" /\ op[Paging].at \notin {"idle", "done"}
  BY <1>1, OpFact DEF ExpirePaging, Active
<1>3. /\ r \in OpState /\ r.outer = "expired" /\ r.at = op[Paging].at /\ r.fired = op[Paging].fired /\ r.err = op[Paging].err /\ r.tries = op[Paging].tries /\ r.request = op[Paging].request
      /\ r.own = IF op[Paging].own = "live" THEN "expired" ELSE op[Paging].own
  BY <1>2 DEF OpState, Ends
<1>. HIDE DEF r
<1>4. Excused(Paging, r)
  BY <1>2, <1>3 DEF OpInv, Excused
<1>5. Ended(Paging, r) /\ Mismatched(Paging, r) /\ Tried(r)
  BY <1>1, <1>2, <1>3 DEF OpInv, Ended, Mismatched, Tried
<1>. QED  BY <1>1, <1>2, <1>3, <1>4, <1>5, OpFact, StepInv DEF OpInv

(* A step that keeps the contexts and leaves a good error keeps the rest.  *)
LEMMA MoveInv ==
  ASSUME IInv, NEW o \in Ops, op[o].at # "idle", NEW r \in OpState, Step(o, r),
         r.own = op[o].own, r.outer = op[o].outer, Excused(o, r), Mismatched(o, r), Tried(r),
         "sha" \in op[o].err => "sha" \in r.err /\ op[o].at # "done" /\ r.request = op[o].request
  PROVE  IInv'
<1>1. Ended(o, r)
  BY OpFact DEF OpInv, Ended
<1>. QED  BY <1>1, OpFact, StepInv DEF OpInv

(* So does one whose error says of a context what the context says.        *)
LEMMA HonestInv ==
  ASSUME IInv, NEW o \in Ops, op[o].at \in {"send", "dialed", "refusal", "body", "backoff"},
         NEW r \in OpState, Step(o, r), r.own = op[o].own, r.outer = op[o].outer, r.at # "backoff",
         "canceled" \in r.err => op[o].own = "canceled" \/ (op[o].at # "backoff" /\ "canceled" \in op[o].err),
         "sha" \notin r.err
  PROVE  IInv'
<1>1. OpInv(o, op[o])
  BY OpFact
<1>2. "sha" \notin op[o].err
  BY <1>1 DEF OpInv, Mismatched
<1>3. Mismatched(o, r) /\ Tried(r)
  BY DEF Mismatched, Tried
<1>4. Excused(o, r)
  BY <1>1 DEF OpInv, Excused, Ended
<1>. QED  BY <1>2, <1>3, <1>4, MoveInv

LEMMA RoundTripInv ==
  ASSUME IInv, NEW o \in Ops, NEW ok, ok \subseteq WithBody(o) \cup NoBody(o), RoundTrip(o, ok)
  PROVE  IInv'
<1>1. op[o] \in OpState /\ op[o].at = "send" /\ OpInv(o, op[o])
  BY OpFact DEF RoundTrip
<1>2. CASE op[o].own # "live"
  <2> DEFINE r == [op[o] EXCEPT !.at = "dialed", !.err = {op[o].own}]
  <2>1. Step(o, r)
    BY <1>2 DEF RoundTrip
  <2>2. r \in OpState /\ r.at = "dialed" /\ r.err = {op[o].own} /\ r.own = op[o].own /\ r.outer = op[o].outer
    BY <1>1, <1>2 DEF OpState, Places, Ends, Sentinels
  <2>3. "sha" # op[o].own
    BY <1>1 DEF OpState, Ends
  <2>. HIDE DEF r
  <2>. QED  BY <1>1, <2>1, <2>2, <2>3, HonestInv
<1>3. CASE op[o].own = "live" /\ \E r \in ok : Step(o, r)
  <2>1. PICK r \in ok : Step(o, r)
    BY <1>3
  <2>2. r \in WithBody(o) \/ r \in NoBody(o)
    BY <2>1
  <2>3. r \in OpState /\ r.at \in {"body", "return"} /\ r.err = op[o].err /\ r.own = op[o].own /\ r.outer = op[o].outer
    <3>1. CASE r \in WithBody(o)
      BY <1>1, <3>1 DEF WithBody, OpState, Places
    <3>2. CASE r \in NoBody(o)
      BY <1>1, <3>2 DEF NoBody, OpState, Places
    <3>. QED  BY <2>2, <3>1, <3>2
  <2>4. "sha" \notin op[o].err
    BY <1>1 DEF OpInv, Mismatched
  <2>. QED  BY <1>1, <2>1, <2>3, <2>4, HonestInv
<1>4. ASSUME NEW at \in {"refusal", "attempted", "dialed"}, NEW drips \in BOOLEAN, NEW cause \in {"status", "refused", "wire", "expired"},
             \/ Step(o, [op[o] EXCEPT !.at = at, !.drips = drips, !.err = {cause}])
             \/ Step(o, [op[o] EXCEPT !.at = at, !.err = {cause}])
      PROVE  IInv'
  <2>1. PICK r \in OpState : Step(o, r) /\ r.at = at /\ r.err = {cause} /\ r.own = op[o].own /\ r.outer = op[o].outer
    <3>1. [op[o] EXCEPT !.at = at, !.drips = drips, !.err = {cause}] \in OpState
      BY <1>1, <1>4 DEF OpState, Places, Sentinels
    <3>2. [op[o] EXCEPT !.at = at, !.err = {cause}] \in OpState
      BY <1>1, <1>4 DEF OpState, Places, Sentinels
    <3>. QED  BY <1>1, <1>4, <3>1, <3>2 DEF OpState
  <2>. QED  BY <1>1, <2>1, HonestInv
<1>5. CASE op[o].own = "live" /\ ~\E r \in ok : Step(o, r)
  BY <1>4, <1>5 DEF RoundTrip
<1>. QED  BY <1>2, <1>3, <1>5

LEMMA SendInv == ASSUME IInv, NEW o \in Ops, Send(o)  PROVE IInv'
BY RoundTripInv DEF Send, OpenRequest, ClearRequest, GetObject, PutObject, FetchJSON, DownloadCollection

LEMMA TagInv == ASSUME IInv, NEW o \in Ops, Tag(o)  PROVE IInv'
<1> DEFINE r == [op[o] EXCEPT !.at = "attempted", !.err = Dialed(o, @)]
<1>1. op[o] \in OpState /\ OpInv(o, op[o]) /\ op[o].at = "dialed" /\ Step(o, r)
  BY OpFact DEF Tag
<1>2. Dialed(o, op[o].err) \in {op[o].err, op[o].err \cup {"transport"}}
  BY DEF Dialed
<1>3. r \in OpState /\ r.at = "attempted" /\ r.err \in {op[o].err, op[o].err \cup {"transport"}}
      /\ r.own = op[o].own /\ r.outer = op[o].outer
  BY <1>1, <1>2 DEF OpState, Places, Sentinels
<1>4. "sha" \notin op[o].err
  BY <1>1 DEF OpInv, Mismatched
<1>. HIDE DEF r
<1>. QED  BY <1>1, <1>3, <1>4, HonestInv

LEMMA StallInv == ASSUME IInv, NEW o \in Ops, Stall(o)  PROVE IInv'
<1> DEFINE r == [op[o] EXCEPT !.fired = TRUE]
<1>1. op[o] \in OpState /\ OpInv(o, op[o]) /\ op[o].at \in {"body", "refusal"} /\ Step(o, r)
  BY OpFact DEF Stall
<1>2. r \in OpState /\ r.at = op[o].at /\ r.err = op[o].err /\ r.own = op[o].own /\ r.outer = op[o].outer
  BY <1>1 DEF OpState
<1>3. "sha" \notin op[o].err
  BY <1>1 DEF OpInv, Mismatched
<1>. HIDE DEF r
<1>. QED  BY <1>1, <1>2, <1>3, HonestInv

LEMMA RefusalInv == ASSUME IInv, NEW o \in Ops, Refusal(o)  PROVE IInv'
<1> DEFINE r == [op[o] EXCEPT !.at = "attempted"]
<1>1. op[o] \in OpState /\ OpInv(o, op[o]) /\ op[o].at = "refusal" /\ Step(o, r)
  BY OpFact DEF Refusal
<1>2. r \in OpState /\ r.at = "attempted" /\ r.err = op[o].err /\ r.own = op[o].own /\ r.outer = op[o].outer
  BY <1>1 DEF OpState, Places
<1>3. "sha" \notin op[o].err
  BY <1>1 DEF OpInv, Mismatched
<1>. HIDE DEF r
<1>. QED  BY <1>1, <1>2, <1>3, HonestInv

LEMMA ReadInv == ASSUME IInv, NEW o \in Ops, Read(o)  PROVE IInv'
<1>1. op[o] \in OpState /\ OpInv(o, op[o]) /\ op[o].at = "body"
  BY OpFact DEF Read
<1>2. "sha" \notin op[o].err
  BY <1>1 DEF OpInv, Mismatched
<1>3. CASE Step(o, [op[o] EXCEPT !.at = "return"])
  <2> DEFINE r == [op[o] EXCEPT !.at = "return"]
  <2>1. r \in OpState /\ r.at = "return" /\ r.err = op[o].err /\ r.own = op[o].own /\ r.outer = op[o].outer
    BY <1>1 DEF OpState, Places
  <2>. HIDE DEF r
  <2>. QED  BY <1>1, <1>2, <1>3, <2>1, HonestInv DEF r
<1>4. CASE Step(o, [op[o] EXCEPT !.at = AfterBody(o), !.err = {"refused"}])
  <2> DEFINE r == [op[o] EXCEPT !.at = AfterBody(o), !.err = {"refused"}]
  <2>1. AfterBody(o) \in {"return", "attempted"}
    BY DEF AfterBody
  <2>2. r \in OpState /\ r.at # "backoff" /\ r.err = {"refused"} /\ r.own = op[o].own /\ r.outer = op[o].outer
    BY <1>1, <2>1 DEF OpState, Places, Sentinels
  <2>. HIDE DEF r
  <2>. QED  BY <1>1, <1>2, <1>4, <2>2, HonestInv DEF r
<1>5. ASSUME o \in Artifacts, op' = [op EXCEPT ![o] = [@ EXCEPT !.at = "attempted", !.err = {"sha"}]],
             mismatch' = (mismatch \/ ~Prefetching(o)), UNCHANGED <<canceled, lost, stage, outcome, verdict>>
      PROVE  IInv'
  <2> DEFINE r == [op[o] EXCEPT !.at = "attempted", !.err = {"sha"}]
  <2>1. r \in OpState /\ r.at = "attempted" /\ r.err = {"sha"} /\ r.own = op[o].own /\ r.outer = op[o].outer
        /\ r.request = op[o].request
    BY <1>1 DEF OpState, Places, Sentinels
  <2>2. op' = [op EXCEPT ![o] = r] /\ op \in [Ops -> OpState] /\ op'[o] = r
    BY <1>5, TypeIs DEF IInv
  <2>. HIDE DEF r
  <2>3. \A q \in Ops : op'[q] = IF q = o THEN r ELSE op[q]
    BY <2>2
  <2>4. TypeOK'
    <3>1. op' \in [Ops -> OpState]
      BY <2>1, <2>2
    <3>2. mismatch' \in BOOLEAN
      BY <1>5, TypeIs DEF IInv
    <3>. QED  BY <1>5, <3>1, <3>2, TypeIs DEF IInv, TypeOK, OpState, Ends, Places
  <2>5. \A q \in Ops : OpInv(q, op[q])'
    <3> TAKE q \in Ops
    <3>1. CASE q = o
      <4>1. op'[q] = r
        BY <2>3, <3>1
      <4>. QED  BY <1>1, <1>5, <2>1, <3>1, <4>1 DEF OpInv, Excused, Ended, Mismatched, Tried, HolderLive
    <3>2. CASE q # o
      BY <1>5, <2>3, <3>2 DEF IInv, OpInv, Excused, Ended, Mismatched, Tried, HolderLive
    <3>. QED  BY <3>1, <3>2
  <2>6. Staged'
    BY <1>1, <1>5, <2>3 DEF IInv, Staged
  <2>7. Kept'
    <3>1. SUFFICES ASSUME mismatch', HolderLive'  PROVE Kept'
      BY DEF Kept
    <3>2. CASE Prefetching(o)
      <4>1. mismatch /\ HolderLive
        BY <1>5, <3>1, <3>2 DEF HolderLive
      <4>2. ASSUME NEW a \in Artifacts, "sha" \in op[a].err, op[a].at = "done" \/ op[a].request > 0
            PROVE  op'[a] = op[a]
        BY <1>2, <2>3, <4>2 DEF Ops
      <4>. QED  BY <1>5, <4>1, <4>2 DEF IInv, Kept
    <3>3. CASE ~Prefetching(o)
      <4>1. op[o].request > 0
        BY <1>1, <1>5, <3>3 DEF Prefetching, OpState
      <4>2. "sha" \in op'[o].err /\ op'[o].request > 0
        BY <2>1, <2>2, <4>1
      <4>. QED  BY <1>5, <4>2 DEF Kept
    <3>. QED  BY <3>2, <3>3
  <2>8. verdict = "none"
    BY <1>1, OpFact, StagesFact, TypeIs DEF IInv, Judged
  <2>. QED  BY <1>5, <2>4, <2>5, <2>6, <2>7, <2>8 DEF IInv, Judged, OutcomeInv, NoFalseInterrupt, MismatchAlarms, HolderLive
<1>. QED  BY <1>3, <1>4, <1>5 DEF Read

LEMMA BreakInv == ASSUME IInv, NEW o \in Ops, Break(o)  PROVE IInv'
<1> DEFINE r == [op[o] EXCEPT !.at = "broken", !.err = {"wire"}]
<1>1. op[o] \in OpState /\ OpInv(o, op[o]) /\ op[o].at = "body" /\ Step(o, r)
  BY OpFact DEF Break
<1>2. r \in OpState /\ r.at = "broken" /\ r.err = {"wire"} /\ r.own = op[o].own /\ r.outer = op[o].outer
  BY <1>1 DEF OpState, Places, Sentinels
<1>. HIDE DEF r
<1>. QED  BY <1>1, <1>2, HonestInv

LEMMA UnblockInv == ASSUME IInv, NEW o \in Ops, Unblock(o)  PROVE IInv'
<1>1. op[o] \in OpState /\ OpInv(o, op[o]) /\ op[o].at = "body"
  BY OpFact DEF Unblock
<1>2. PICK err : /\ Step(o, [op[o] EXCEPT !.at = "broken", !.err = err])
                 /\ \/ err \in {{}, {"canceled"}} /\ op[o].fired
                    \/ op[o].own # "live" /\ err = {op[o].own}
  BY DEF Unblock
<1> DEFINE r == [op[o] EXCEPT !.at = "broken", !.err = err]
<1>3. err \in SUBSET Sentinels /\ "sha" \notin err
  BY <1>1, <1>2 DEF OpState, Ends, Sentinels
<1>4. r \in OpState /\ r.at = "broken" /\ r.err = err /\ r.own = op[o].own /\ r.outer = op[o].outer /\ r.fired = op[o].fired
  BY <1>1, <1>3 DEF OpState, Places
<1>. HIDE DEF r
<1>5. Excused(o, r)
  BY <1>1, <1>2, <1>4 DEF Excused, OpInv, Ended
<1>6. Mismatched(o, r) /\ Tried(r)
  BY <1>3, <1>4 DEF Mismatched, Tried
<1>7. "sha" \notin op[o].err
  BY <1>1 DEF OpInv, Mismatched
<1>. QED  BY <1>1, <1>2, <1>4, <1>5, <1>6, <1>7, MoveInv DEF r

LEMMA ExamineInv == ASSUME IInv, NEW o \in Ops, Examine(o)  PROVE IInv'
<1>1. op[o] \in OpState /\ OpInv(o, op[o]) /\ op[o].at = "broken"
  BY OpFact DEF Examine
<1> DEFINE err == IF op[o].fired /\ op[o].own = "live" THEN {"stalled"} ELSE op[o].err
           at == IF err = {} THEN "return" ELSE AfterBody(o)
           r == [op[o] EXCEPT !.at = at, !.err = err]
<1>2. Step(o, r)
  BY DEF Examine
<1>3. err \in SUBSET Sentinels /\ "sha" \notin err /\ ("canceled" \in err => err = op[o].err /\ (op[o].fired => op[o].own # "live"))
  BY <1>1 DEF OpState, Sentinels, OpInv, Mismatched
<1>4. at \in {"return", "attempted"} /\ (o = Paging /\ err # {} => at = "attempted")
  BY AttemptsAssumption DEF AfterBody, S3
<1>. HIDE DEF err, at
<1>5. r \in OpState /\ r.at = at /\ r.err = err /\ r.own = op[o].own /\ r.outer = op[o].outer
  BY <1>1, <1>3, <1>4 DEF OpState, Places
<1>. HIDE DEF r
<1>6. Excused(o, r)
  <2>1. SUFFICES ASSUME "canceled" \in r.err, HolderLive
                 PROVE  r.err \subseteq {"canceled", "transport"} /\ r.own = "expired"
    BY <1>4, <1>5 DEF Excused
  <2>2. op[o].fired /\ r.err \subseteq {"canceled", "transport"} /\ op[o].own # "live"
    BY <1>1, <1>3, <1>5, <2>1 DEF OpInv, Excused
  <2>. QED  BY <1>1, <1>5, <2>1, <2>2 DEF OpInv, Ended, OpState, Ends
<1>7. Mismatched(o, r) /\ Tried(r)
  BY <1>3, <1>4, <1>5 DEF Mismatched, Tried
<1>8. "sha" \notin op[o].err
  BY <1>1 DEF OpInv, Mismatched
<1>. QED  BY <1>1, <1>2, <1>5, <1>6, <1>7, <1>8, MoveInv

LEMMA LabelInv == ASSUME IInv, NEW o \in Ops, Label(o)  PROVE IInv'
<1> DEFINE label == AttemptLabel(o)
           r == [op[o] EXCEPT !.at = "decide", !.err = label]
<1>1. op[o] \in OpState /\ OpInv(o, op[o]) /\ op[o].at = "attempted" /\ Step(o, r)
  BY OpFact DEF Label
<1>2. label \in {op[o].err, {"deadline"}} /\ (op[o].err = {"sha"} => label = {"sha"})
  BY AttemptFact
<1>3. (o = Paging /\ "canceled" \in label /\ HolderLive) => op[o].own # "expired" \/ op[o].outer # "live"
  BY AttemptFact
<1>. HIDE DEF label
<1>4. label \in SUBSET Sentinels /\ ("canceled" \in label => label = op[o].err) /\ ("sha" \in label => label = op[o].err)
  BY <1>1, <1>2 DEF OpState, Sentinels
<1>5. r \in OpState /\ r.at = "decide" /\ r.err = label /\ r.own = op[o].own /\ r.outer = op[o].outer /\ r.request = op[o].request
  BY <1>1, <1>4 DEF OpState, Places
<1>. HIDE DEF r
<1>6. Excused(o, r)
  <2>1. SUFFICES ASSUME "canceled" \in r.err, HolderLive
                 PROVE  r.err \subseteq {"canceled", "transport"} /\ r.own = "expired" /\ (o = Paging => r.outer = "expired")
    BY <1>5 DEF Excused
  <2>2. r.err \subseteq {"canceled", "transport"} /\ op[o].own = "expired"
    BY <1>1, <1>4, <1>5, <2>1 DEF OpInv, Excused
  <2>. QED  BY <1>1, <1>3, <1>5, <2>1, <2>2 DEF OpInv, Ended, OpState, Ends
<1>7. Mismatched(o, r) /\ Tried(r)
  BY <1>1, <1>4, <1>5 DEF Mismatched, Tried, OpInv
<1>8. "sha" \in op[o].err => "sha" \in r.err
  BY <1>1, <1>2, <1>5 DEF OpInv, Mismatched
<1>. QED  BY <1>1, <1>5, <1>6, <1>7, <1>8, MoveInv

LEMMA DecideInv == ASSUME IInv, NEW o \in Ops, Decide(o)  PROVE IInv'
<1> DEFINE at == IF op[o].tries + 1 < MaxTries /\ Retryable(o) /\ ~SingleShot(o) THEN "backoff" ELSE "return"
           r == [op[o] EXCEPT !.at = at]
<1>1. op[o] \in OpState /\ OpInv(o, op[o]) /\ op[o].at = "decide" /\ Step(o, r)
  BY OpFact DEF Decide
<1>2. at \in {"backoff", "return"} /\ (at = "backoff" => op[o].tries + 1 < MaxTries /\ Retryable(o))
  OBVIOUS
<1>. HIDE DEF at
<1>3. r \in OpState /\ r.at = at /\ r.err = op[o].err /\ r.own = op[o].own /\ r.outer = op[o].outer /\ r.tries = op[o].tries /\ r.request = op[o].request
  BY <1>1, <1>2 DEF OpState, Places
<1>. HIDE DEF r
<1>4. Excused(o, r) /\ Tried(r)
  BY <1>1, <1>2, <1>3 DEF OpInv, Excused, Tried
<1>5. "sha" \in op[o].err => ~Retryable(o)
  <2>1. SUFFICES ASSUME op[o].err = {"sha"}, o \in Artifacts  PROVE ~Retryable(o)
    BY <1>1 DEF OpInv, Mismatched
  <2>2. o \notin S3
    BY <2>1, AttemptsAssumption DEF S3, Single
  <2>. QED  BY <2>1, <2>2 DEF Retryable, DownloadRetryable
<1>6. Mismatched(o, r)
  BY <1>1, <1>2, <1>3, <1>5 DEF OpInv, Mismatched
<1>. QED  BY <1>1, <1>3, <1>4, <1>6, MoveInv

LEMMA BackoffInv == ASSUME IInv, NEW o \in Ops, Backoff(o)  PROVE IInv'
<1>1. op[o] \in OpState /\ OpInv(o, op[o]) /\ op[o].at = "backoff"
  BY OpFact DEF Backoff
<1>2. op[o].tries + 1 \in 0 .. MaxTries - 1
  BY <1>1, AttemptsAssumption DEF OpInv, Tried, OpState
<1>3. ASSUME op[o].own # "live", Step(o, [op[o] EXCEPT !.at = "return", !.err = {op[o].own}])
      PROVE  IInv'
  <2> DEFINE r == [op[o] EXCEPT !.at = "return", !.err = {op[o].own}]
  <2>1. r \in OpState /\ r.at = "return" /\ r.err = {op[o].own} /\ r.own = op[o].own /\ r.outer = op[o].outer
    BY <1>1, <1>3 DEF OpState, Places, Ends, Sentinels
  <2>2. "sha" \notin r.err
    BY <1>1, <2>1 DEF OpState, Ends
  <2>. HIDE DEF r
  <2>. QED  BY <1>1, <1>3, <2>1, <2>2, HonestInv DEF r
<1>4. ASSUME Step(o, [op[o] EXCEPT !.at = "send", !.tries = @ + 1, !.fired = FALSE, !.drips = FALSE, !.err = {}])
      PROVE  IInv'
  <2> DEFINE r == [op[o] EXCEPT !.at = "send", !.tries = @ + 1, !.fired = FALSE, !.drips = FALSE, !.err = {}]
  <2>1. r \in OpState /\ r.at = "send" /\ r.err = {} /\ r.own = op[o].own /\ r.outer = op[o].outer
    BY <1>1, <1>2 DEF OpState, Places
  <2>. HIDE DEF r
  <2>. QED  BY <1>1, <1>4, <2>1, HonestInv DEF r
<1>. QED  BY <1>3, <1>4 DEF Backoff

(* The next request of an operation starts clean under the same contexts.  *)
LEMMA NextRequest ==
  ASSUME IInv, NEW o \in Ops, op[o].at # "idle", op[o].err = {}, op[o].request + 1 < MaxRequests,
         NEW own \in Ends, own = op[o].own \/ (own = op[o].outer /\ Budgeted(o)),
         Step(o, [Idle EXCEPT !.at = "send", !.own = own, !.outer = op[o].outer, !.request = op[o].request + 1])
  PROVE  IInv'
<1> DEFINE r == [Idle EXCEPT !.at = "send", !.own = own, !.outer = op[o].outer, !.request = op[o].request + 1]
<1>1. op[o] \in OpState /\ OpInv(o, op[o]) /\ Idle \in OpState /\ Idle.err = {}
  BY OpFact, IdleGood DEF OpInv, Idle
<1>2. op[o].request + 1 \in 0 .. MaxRequests - 1
  BY <1>1, AttemptsAssumption DEF OpState
<1>3. r \in OpState /\ r.at = "send" /\ r.err = {} /\ r.own = own /\ r.outer = op[o].outer
  BY <1>1, <1>2 DEF OpState, Places
<1>. HIDE DEF r
<1>4. OpInv(o, r)
  BY <1>1, <1>3 DEF OpInv, Excused, Ended, Mismatched, Tried
<1>. QED  BY <1>1, <1>3, <1>4, OpFact, StepInv DEF r

(* An operation that finishes with an error it may finish with.            *)
LEMMA FinishInv ==
  ASSUME IInv, NEW o \in Ops, op[o].at # "idle", NEW err \in SUBSET Sentinels, Step(o, Finished(err)),
         "canceled" \in err => ~HolderLive,
         "sha" \in err => o \in Artifacts /\ err = {"sha"},
         ("sha" \in op[o].err /\ op[o].request > 0) => "sha" \in err, op[o].at # "done"
  PROVE  IInv'
<1> DEFINE r == Finished(err)
<1>1. Idle \in OpState /\ Idle.own = "live" /\ Idle.outer = "live"
  BY OpFact, IdleGood DEF OpInv, Idle
<1>2. r \in OpState /\ r.at = "done" /\ r.err = err /\ r.own = "live" /\ r.outer = "live"
  BY <1>1 DEF OpState, Places, Finished
<1>. HIDE DEF r
<1>3. OpInv(o, r)
  BY <1>2 DEF OpInv, Excused, Ended, Mismatched, Tried
<1>. QED  BY <1>2, <1>3, OpFact, StepInv DEF r

LEMMA ReturnInv == ASSUME IInv, NEW o \in Ops, Return(o)  PROVE IInv'
<1> DEFINE label == FinalLabel(o)
<1>1. op[o] \in OpState /\ OpInv(o, op[o]) /\ op[o].at = "return"
  BY OpFact DEF Return
<1>2. /\ label \in {op[o].err, {"deadline"}} /\ (op[o].err = {"sha"} => label = {"sha"})
      /\ ("canceled" \in label /\ HolderLive) => o = Paging /\ op[o].outer = "expired"
  BY <1>1, FinalFact
<1>. HIDE DEF label
<1>3. label \in SUBSET Sentinels /\ ("canceled" \in label => label = op[o].err) /\ ("sha" \in label => label = op[o].err)
      /\ ("sha" \in op[o].err => "sha" \in label)
  BY <1>1, <1>2 DEF OpState, Sentinels, OpInv, Mismatched
<1>4. CASE o # Paging /\ Step(o, Finished(label))
  BY <1>1, <1>2, <1>3, <1>4, FinishInv DEF OpInv, Mismatched
<1>5. ASSUME o = Paging, Step(o, [op[o] EXCEPT !.at = "paged", !.err = label])  PROVE IInv'
  <2> DEFINE r == [op[o] EXCEPT !.at = "paged", !.err = label]
  <2>1. r \in OpState /\ r.at = "paged" /\ r.err = label /\ r.own = op[o].own /\ r.outer = op[o].outer
    BY <1>1, <1>3 DEF OpState, Places
  <2>. HIDE DEF r
  <2>2. Excused(o, r) /\ Tried(r)
    BY <1>1, <1>2, <1>3, <1>5, <2>1 DEF OpInv, Excused, Tried
  <2>3. "sha" \notin op[o].err
    BY <1>1, <1>5, AttemptsAssumption DEF OpInv, Mismatched, Single
  <2>4. Mismatched(o, r)
    BY <1>3, <2>1, <2>3 DEF Mismatched
  <2>. QED  BY <1>1, <1>5, <2>1, <2>2, <2>3, <2>4, MoveInv DEF r
<1>6. ASSUME op[o].err = {}, op[o].request + 1 < MaxRequests,
             Step(o, [Idle EXCEPT !.at = "send", !.own = op[o].own, !.outer = op[o].outer, !.request = op[o].request + 1])
      PROVE  IInv'
  <2>1. op[o].own \in Ends
    BY <1>1 DEF OpState
  <2>. QED  BY <1>1, <1>6, <2>1, NextRequest
<1>. QED  BY <1>4, <1>5, <1>6 DEF Return, label

LEMMA PageInv == ASSUME IInv, Page  PROVE IInv'
<1>1. Paging \in Ops /\ Budgeted(Paging) /\ Paging \notin Artifacts
  BY AttemptsAssumption DEF Ops, Single, Budgeted, S3
<1>2. op[Paging] \in OpState /\ OpInv(Paging, op[Paging]) /\ op[Paging].at = "paged"
  BY <1>1, OpFact DEF Page
<1> DEFINE label == DeadlineError(HolderLive, op[Paging].outer, op[Paging].err)
<1>3. label \in {op[Paging].err, {"deadline"}}
  BY DEF DeadlineError
<1>4. "canceled" \in label => ~HolderLive
  <2>1. SUFFICES ASSUME "canceled" \in label, HolderLive  PROVE FALSE
    OBVIOUS
  <2>2. "canceled" \in op[Paging].err
    BY <1>3, <2>1
  <2>3. op[Paging].outer = "expired" /\ "deadline" \notin op[Paging].err
    BY <1>2, <2>1, <2>2 DEF OpInv, Excused
  <2>4. label = {"deadline"}
    BY <2>1, <2>2, <2>3 DEF DeadlineError
  <2>. QED  BY <2>1, <2>4
<1>. HIDE DEF label
<1>5. "sha" \notin op[Paging].err /\ "sha" \notin label /\ label \in SUBSET Sentinels
  BY <1>1, <1>2, <1>3 DEF OpInv, Mismatched, OpState, Sentinels
<1>6. CASE Step(Paging, Finished(label))
  BY <1>1, <1>2, <1>4, <1>5, <1>6, FinishInv
<1>7. ASSUME op[Paging].err = {}, op[Paging].request + 1 < MaxRequests,
             Step(Paging, [Idle EXCEPT !.at = "send", !.own = op[Paging].outer,
                                       !.outer = op[Paging].outer, !.request = op[Paging].request + 1])
      PROVE  IInv'
  <2>1. op[Paging].outer \in Ends
    BY <1>2 DEF OpState
  <2>. QED  BY <1>1, <1>2, <1>7, <2>1, NextRequest
<1>. QED  BY <1>6, <1>7 DEF Page, label

(* Once the holder context is over, no error needs an excuse.              *)
LEMMA SeverInv ==
  ASSUME IInv, verdict = "none", op' = [o \in Ops |-> Severed(o)],
         canceled' \in BOOLEAN, lost' \in BOOLEAN, ~HolderLive',
         UNCHANGED <<stage, outcome, verdict, mismatch>>
  PROVE  IInv'
<1>1. \A o \in Ops : /\ Severed(o) \in OpState /\ Severed(o).at = op[o].at /\ Severed(o).err = op[o].err /\ Severed(o).tries = op[o].tries
                     /\ Severed(o).own = "expired" => op[o].own = "expired"
                     /\ Severed(o).outer = "expired" => op[o].outer = "expired"
  <2> TAKE o \in Ops
  <2>1. op[o] \in OpState
    BY OpFact
  <2>2. CASE ~Active(o)
    BY <2>1, <2>2 DEF Severed
  <2>3. CASE Active(o)
    BY <2>1, <2>3 DEF Severed, OpState, Ends
  <2>. QED  BY <2>2, <2>3
<1>2. TypeOK'
  <2>1. op' \in [Ops -> OpState]
    BY <1>1
  <2>. QED  BY <2>1, TypeIs DEF IInv, TypeOK, OpState, Ends, Places
<1>3. \A o \in Ops : OpInv(o, op[o])'
  <2> TAKE o \in Ops
  <2>1. OpInv(o, op[o]) /\ op'[o] = Severed(o)
    BY OpFact
  <2>2. Excused(o, op[o])'
    BY DEF Excused
  <2>3. Ended(o, op[o])'
    BY <1>1, <2>1 DEF OpInv, Ended
  <2>4. Mismatched(o, op[o])' /\ Tried(op[o])'
    BY <1>1, <2>1 DEF OpInv, Mismatched, Tried
  <2>. QED  BY <1>1, <2>1, <2>2, <2>3, <2>4 DEF OpInv
<1>4. Staged'
  BY <1>1 DEF IInv, Staged
<1>. QED  BY <1>2, <1>3, <1>4 DEF IInv, Judged, OutcomeInv, Kept, NoFalseInterrupt, MismatchAlarms

LEMMA CancelInv == ASSUME IInv, Cancel  PROVE IInv'
BY SeverInv, TypeIs DEF IInv, Cancel, HolderLive

LEMMA LoseInv == ASSUME IInv, Lose  PROVE IInv'
BY SeverInv, TypeIs DEF IInv, Lose, HolderLive

-----------------------------------------------------------------------------
(***************************************************************************)
(* The end of a stage and the verdict.                                     *)
(***************************************************************************)
LEMMA LoadIsNotSave == Load # Save
<1>1. SUFFICES ASSUME Load = Save  PROVE FALSE
  OBVIOUS
<1>2. S3 = (({Record} \cup {Clearing}) \cup {Load}) \cup {Open}
  BY <1>1 DEF S3
<1>3. Cardinality({Record}) = 1 /\ IsFiniteSet({Record})
  BY FS_Singleton
<1>4. Cardinality({Record} \cup {Clearing}) \in {1, 2} /\ IsFiniteSet({Record} \cup {Clearing})
  BY <1>3, FS_AddElement
<1>5. Cardinality({Record} \cup {Clearing} \cup {Load}) \in {1, 2, 3} /\ IsFiniteSet({Record} \cup {Clearing} \cup {Load})
  BY <1>4, FS_AddElement
<1>6. Cardinality(S3) \in {1, 2, 3, 4}
  BY <1>2, <1>5, FS_AddElement
<1>. QED  BY <1>6, AttemptsAssumption

LEMMA EndStageInv == ASSUME IInv, EndStage  PROVE IInv'
<1> DEFINE err == UNION {op[o].err : o \in Stages[stage] \ {Record}}
<1>1. /\ verdict = "none" /\ stage \in 1 .. 8 /\ Stages[stage] \subseteq Ops
      /\ \A o \in Stages[stage] : op[o].at = "done"
  BY StagesFact, TypeIs DEF IInv, EndStage
<1>2. /\ outcome' = outcome \cup err /\ op' = [o \in Ops |-> Idle]
      /\ UNCHANGED <<canceled, lost, verdict, mismatch>>
  BY DEF EndStage
<1>3. stage' \in 1 .. 9
  <2>1. stage' \in {stage + 1, 9} \/ (stage' = stage + 2 /\ Stages[stage] = {Load})
    BY StagesFact DEF EndStage
  <2>2. Stages[8] = {Save}
    BY DEF Stages
  <2>. QED  BY <1>1, <2>1, <2>2, LoadIsNotSave
<1>4. \A o \in Stages[stage] : op[o] \in OpState /\ OpInv(o, op[o])
  BY <1>1, OpFact
<1>5. err \in SUBSET Sentinels
  BY <1>4 DEF OpState
<1>6. "canceled" \in err => ~HolderLive
  <2>1. ASSUME NEW o \in Stages[stage], "canceled" \in op[o].err  PROVE ~HolderLive
    BY <1>1, <1>4, <2>1 DEF OpInv, Excused
  <2>. QED  BY <2>1
<1>7. ASSUME NEW a \in Artifacts, "sha" \in op[a].err  PROVE "sha" \in err
  <2>1. a \in Ops /\ a # Record
    BY AttemptsAssumption DEF Ops, Single
  <2>2. op[a].at # "idle"
    BY <1>7, <2>1, OpFact DEF OpInv, Mismatched
  <2>3. a \in Stages[stage]
    BY <2>1, <2>2, OpFact
  <2>. QED  BY <1>7, <2>1, <2>3
<1>. HIDE DEF err
<1>8. TypeOK'
  <2>1. op' \in [Ops -> OpState]
    BY <1>2, IdleGood DEF OpInv
  <2>2. outcome' \in SUBSET Sentinels
    BY <1>2, <1>5, TypeIs DEF IInv
  <2>3. stage' \in 1 .. Len(Stages)' + 1
    BY <1>3, StagesFact DEF Stages
  <2>. QED  BY <1>2, <2>1, <2>2, <2>3, TypeIs DEF IInv, TypeOK, OpState, Ends, Places
<1>9. \A o \in Ops : OpInv(o, op[o])'
  <2> TAKE o \in Ops
  <2>1. op'[o] = Idle /\ OpInv(o, Idle)
    BY <1>2, IdleGood
  <2>. QED  BY <1>2, <2>1 DEF OpInv, Excused, Ended, Mismatched, Tried, HolderLive
<1>10. Staged'
  BY <1>2 DEF Staged, Idle
<1>11. OutcomeInv' /\ Kept'
  BY <1>2, <1>6, <1>7 DEF IInv, OutcomeInv, Kept, HolderLive
<1>. QED  BY <1>1, <1>2, <1>8, <1>9, <1>10, <1>11 DEF IInv, Judged, NoFalseInterrupt, MismatchAlarms

LEMMA JudgeInv == ASSUME IInv, Judge  PROVE IInv'
<1>1. /\ stage > Len(Stages) /\ verdict = "none" /\ verdict' = IF lost /\ ~canceled THEN "busy" ELSE FromError(outcome)
      /\ UNCHANGED <<canceled, lost, op, stage, outcome, mismatch>>
  BY DEF Judge
<1>2. \A o \in Ops : op[o].at = "idle" /\ "sha" \notin op[o].err
  BY <1>1, OpFact, StagesFact, TypeIs DEF IInv, OpInv, Mismatched
<1>3. mismatch /\ HolderLive => "sha" \in outcome
  BY <1>2 DEF IInv, Kept, Ops
<1>4. NoFalseInterrupt' /\ MismatchAlarms'
  BY <1>1, <1>3 DEF IInv, OutcomeInv, NoFalseInterrupt, MismatchAlarms, FromError, HolderLive
<1>5. TypeOK' /\ Staged' /\ Judged' /\ OutcomeInv' /\ Kept'
  BY <1>1 DEF IInv, TypeOK, Staged, Judged, OutcomeInv, Kept, FromError, HolderLive
<1>6. \A o \in Ops : OpInv(o, op[o])'
  BY <1>1 DEF IInv, OpInv, Excused, Ended, Mismatched, Tried, HolderLive
<1>. QED  BY <1>4, <1>5, <1>6 DEF IInv

-----------------------------------------------------------------------------
LEMMA InitInv == ASSUME Init  PROVE IInv
<1>1. op \in [Ops -> OpState] /\ \A o \in Ops : op[o] = Idle /\ OpInv(o, op[o])
  BY IdleGood DEF Init, OpInv
<1>2. TypeOK
  <2>1. 1 \in 1 .. Len(Stages) + 1
    BY StagesFact
  <2>. QED  BY <1>1, <2>1, TypeIs DEF Init
<1>3. Staged /\ Judged /\ OutcomeInv /\ Kept
  BY <1>1 DEF Init, Staged, Judged, OutcomeInv, Kept, Idle
<1>. QED  BY <1>1, <1>2, <1>3 DEF Init, IInv, NoFalseInterrupt, MismatchAlarms

LEMMA NextInv == ASSUME IInv, [Next]_vars  PROVE IInv'
<1>1. CASE UNCHANGED vars
  BY <1>1 DEF vars, IInv, TypeOK, OpInv, Excused, Ended, Mismatched, Tried, Staged, Judged, OutcomeInv, Kept,
              NoFalseInterrupt, MismatchAlarms, HolderLive
<1>2. ASSUME NEW o \in Ops, Advance(o)  PROVE IInv'
  BY <1>2, StartInv, SendInv, TagInv, RefusalInv, UnblockInv, ExamineInv, LabelInv, DecideInv, BackoffInv, ReturnInv, WarnInv
     DEF Advance
<1>. QED  BY <1>1, <1>2, CancelInv, LoseInv, ExpirePagingInv, PageInv, EndStageInv, JudgeInv,
             ExpireInv, StallInv, RefusalInv, ReadInv, BreakInv DEF Next

LEMMA Invariant == Spec => []IInv
BY InitInv, NextInv, PTL DEF Spec

(* Every variable keeps to its type, the counters to their bounds.         *)
THEOREM TypeCorrect == Spec => []TypeOK
BY Invariant, PTL DEF IInv

(* A run exits as interrupted only if its user interrupted it.             *)
THEOREM Interrupted == Spec => []NoFalseInterrupt
BY Invariant, PTL DEF IInv

(* A run one of whose workers downloaded bytes of another digest exits     *)
(* with the integrity code, unless a signal or a lost lock ended it; of a  *)
(* prefetch, whose worker downloads again, nothing is claimed.             *)
THEOREM Alarmed == Spec => []MismatchAlarms
BY Invariant, PTL DEF IInv

-----------------------------------------------------------------------------
(***************************************************************************)
(* Discovery: the inductive invariant.                                     *)
(***************************************************************************)
\* The pins p and the artifacts a keep the meaning g, c of a request.
Held(r, g, c, p, a) ==
  /\ g \in Meanings(r) /\ c \in Numbers(g) /\ Names(r, c) # {}
  /\ PinKey(r, g) \in DOMAIN p /\ p[PinKey(r, g)].c = c
  /\ IsRole(r) => p[PinKey(r, g)].label = LabelAt(r, g, c) /\ ArtifactsAt(r, g, c) \subseteq a
  /\ r.kind = "galaxy" => galaxyRolePinKey(r) \in DOMAIN p /\ p[galaxyRolePinKey(r)].g = g
MeaningKept(r, p) == Held(r, last[r].g, last[r].c, p, arts)

IsRun(x) == x = [phase |-> x.phase, mode |-> x.mode, file |-> x.file]

\* Upstream serves what it may, and a run is in one of its stages.
Served ==
  /\ DOMAIN tip = Heads /\ \A h \in Heads : tip[h] \in Tips(h)
  /\ tags \in DOMAIN TagLists
RunStaged ==
  /\ IsRun(run)
  /\ run.phase \in {"idle", "git", "url", "roles", "install"}
  /\ run.mode \in {"plain", "refresh", "nocache", "offline"}
  /\ run.phase # "idle" => run.file \in Files
  /\ DOMAIN work = DOMAIN level
  /\ run.phase = "git" => level = run.file.git
  /\ run.phase = "url" => level = run.file.url
  /\ run.phase = "roles" =>
       /\ \A i \in DOMAIN level : level[i] \in RoleRequests
       /\ \A i, j \in DOMAIN level : i # j => level[i].name # level[j].name
       /\ \A f \in found : IsRole(f.req) => \A i \in DOMAIN level : level[i].name # f.name
  /\ run.phase \in {"idle", "install"} => DOMAIN work = {}
  /\ run.phase = "idle" => pins = saved /\ found = {} /\ run.mode = "plain"
  /\ run.phase = "git" => found = {}
  /\ todo \subseteq found

\* A pin names what its ref may stand for, a Galaxy pin what its role may mean.
PinsKnown(p) ==
  \A r \in Requests :
    /\ \A g \in Meanings(r) : PinKey(r, g) \in DOMAIN p =>
         /\ p[PinKey(r, g)].c \in Numbers(g)
         /\ IsRole(r) => p[PinKey(r, g)].label = LabelAt(r, g, p[PinKey(r, g)].c)
    /\ r.kind = "galaxy" /\ galaxyRolePinKey(r) \in DOMAIN p => p[galaxyRolePinKey(r)].g \in Meanings(r)

\* What was saved keeps every meaning, and so does a run that does not refresh.
Remembered ==
  /\ \A r \in DOMAIN last : r \in Requests /\ last[r].key = PinKey(r, last[r].g) /\ MeaningKept(r, saved)
  /\ run.mode \in {"nocache", "offline"} => pins = saved
  /\ run.mode = "plain" => \A r \in DOMAIN last : MeaningKept(r, pins)

\* Where a request is, and what it has found out by then.
Under(r, w) ==
  /\ w.at \in {"map", "look", "fetch", "store", "done", "failed"}
  /\ w.at \notin {"map", "failed"} => w.g \in Meanings(r)
  /\ w.at = "map" => r.kind = "galaxy"
  /\ w.at = "fetch" => w.c = 0 \/ w.c \in Numbers(w.g)
  /\ w.at \in {"store", "done"} => w.c \in Numbers(w.g)
  /\ w.at = "done" => Names(r, w.c) # {}
\* Without --refresh a meaning that is kept is not asked for again,
Repeats(r, w) ==
  run.mode \in {"plain", "offline"} =>
    /\ w.at \in {"fetch", "store"} =>
         r \notin DOMAIN last /\ (~IsRole(r) => \A q \in DOMAIN last : last[q].key # PinKey(r, w.g))
    /\ r \in DOMAIN last /\ w.at \notin {"map", "failed"} => w.g = last[r].g
    /\ r \in DOMAIN last /\ w.at = "done" => w.c = last[r].c
\* and nothing is, with --offline.
Stays(r, w) ==
  run.mode = "offline" => w.at \notin {"fetch", "store"} /\ (w.at = "failed" => r \notin DOMAIN last)
Pinned(r, w) == Writes /\ w.at = "done" => Held(r, w.g, w.c, pins, arts)
Working ==
  \A i \in DOMAIN work :
    /\ Under(level[i], work[i]) /\ Repeats(level[i], work[i])
    /\ Stays(level[i], work[i]) /\ Pinned(level[i], work[i])

\* What is found is what the file or a role asked for, and pinned as found.
Listed(r) ==
  \/ r \in RoleRequests /\ run.phase \in {"roles", "install"}
  \/ \E i \in DOMAIN run.file.git : r = run.file.git[i]
  \/ run.phase \in {"roles", "install"} /\ \E i \in DOMAIN run.file.url : r = run.file.url[i]
Findings ==
  \A f \in found :
    /\ Listed(f.req)
    /\ f.g \in Meanings(f.req) /\ f.c \in Numbers(f.g) /\ f.name \in Names(f.req, f.c)
    /\ Writes => Held(f.req, f.g, f.c, pins, arts)

\* A refresh keeps what it did not pin anew.
Answered == {[req |-> level[i], g |-> work[i].g] : i \in {j \in DOMAIN work : work[j].at = "done"}}
            \cup {[req |-> f.req, g |-> f.g] : f \in found}
Refreshing ==
  run.mode = "refresh" /\ (\A i \in DOMAIN work : work[i].at # "failed") =>
    \A r \in DOMAIN last : \/ MeaningKept(r, pins)
                           \/ \E a \in Answered : a.req = r \/ PinKey(a.req, a.g) = last[r].key

DInv ==
  /\ Served /\ RunStaged /\ PinsKnown(saved) /\ PinsKnown(pins)
  /\ Remembered /\ Working /\ Findings /\ Refreshing /\ PinHolds

-----------------------------------------------------------------------------
(***************************************************************************)
(* Requests, refs and pins.                                                *)
(***************************************************************************)
LEMMA MeaningIsRef ==
  ASSUME NEW r, NEW g \in Meanings(r)
  PROVE  g = [src |-> g.src, ref |-> g.ref]
<1>1. CASE r.kind = "galaxy"
  <2>1. PICK t \in DOMAIN TagLists : g = lookupGalaxyRole(TagLists[t], r.src, r.ver) /\ g # None
    BY <1>1 DEF Meanings
  <2> QED  BY <2>1 DEF lookupGalaxyRole
<1>2. CASE r.kind # "galaxy"
  <2> DEFINE ref == IF r.kind = "git" THEN r.ver ELSE <<"name", "">>
  <2>1. g = [src |-> r.src, ref |-> ref]
    BY <1>2 DEF Meanings, Asked
  <2> HIDE DEF ref
  <2> QED  BY <2>1
<1> QED  BY <1>1, <1>2

LEMMA RequestKinds ==
  ASSUME NEW r \in Requests
  PROVE  /\ IsRole(r) <=> r \in RoleRequests
         /\ ~IsRole(r) => r.what = "collection" /\ r.kind \in {"git", "url"}
         /\ r.kind = "galaxy" => IsRole(r)
BY DiscoveryAssumption DEF Requests, Roots, IsRole, ToSet

\* One key names one ref of one kind of request, and no Galaxy role.
LEMMA KeyNamesRef ==
  ASSUME NEW q \in Requests, NEW r \in Requests, NEW g \in Meanings(q), NEW h \in Meanings(r),
         PinKey(q, g) = PinKey(r, h)
  PROVE  g = h /\ (IsRole(q) <=> IsRole(r))
<1>1. g = [src |-> g.src, ref |-> g.ref] /\ h = [src |-> h.src, ref |-> h.ref]
  BY MeaningIsRef
<1> QED  BY <1>1 DEF PinKey, IsRole

LEMMA KeysDiffer ==
  ASSUME NEW q \in Requests, NEW r, NEW g
  PROVE  PinKey(q, g) # galaxyRolePinKey(r)
BY RequestKinds DEF IsRole, PinKey, galaxyRolePinKey

LEMMA FixedIsOne ==
  ASSUME NEW g, Fixed(g), NEW c \in Numbers(g), NEW d \in Numbers(g)
  PROVE  c = d
BY DEF Fixed, Numbers, Tips

LEMMA ServesANumber ==
  ASSUME Served, NEW r \in Requests, NEW g \in Meanings(r)
  PROVE  Serves(g) \in Numbers(g)
BY DiscoveryAssumption DEF Served, Serves, Numbers

\* What two roles share, they install as the same version.
LEMMA LabelsAgree ==
  ASSUME PinsApart, NEW q \in RoleRequests, NEW r \in RoleRequests,
         NEW g \in Meanings(q) \cap Meanings(r), NEW c
  PROVE  LabelAt(q, g, c) = LabelAt(r, g, c)
<1>1. CASE q = r
  BY <1>1
<1>2. CASE q # r
  <2>1. (q.kind = "url") = (r.kind = "url") /\ (q.kind = "url" => q.ver = r.ver)
    BY <1>2 DEF PinsApart
  <2> QED  BY <2>1 DEF LabelAt
<1> QED  BY <1>1, <1>2

-----------------------------------------------------------------------------
(***************************************************************************)
(* What writing a pin does to the others.                                  *)
(***************************************************************************)
\* At most r's own pin and its Galaxy pin are written.
Writing(r, g, c, p, p2) ==
  /\ DOMAIN p \subseteq DOMAIN p2
  /\ \A k \in DOMAIN p2 : \/ k \in DOMAIN p /\ p2[k] = p[k]
                          \/ k = galaxyRolePinKey(r) /\ r.kind = "galaxy" /\ p2[k].g = g
                          \/ k = PinKey(r, g) /\ p2[k].c = c /\ p2[k].label = LabelAt(r, g, c)

LEMMA GalaxyPinWrites ==
  ASSUME NEW r, NEW g, NEW c, NEW p
  PROVE  /\ Writing(r, g, c, p, WithGalaxyPin(r, g, c, p))
         /\ r.kind = "galaxy" /\ Writes =>
              /\ galaxyRolePinKey(r) \in DOMAIN WithGalaxyPin(r, g, c, p)
              /\ WithGalaxyPin(r, g, c, p)[galaxyRolePinKey(r)].g = g
         /\ r.kind # "galaxy" => WithGalaxyPin(r, g, c, p) = p
         /\ \A k \in DOMAIN p : k # galaxyRolePinKey(r) =>
              k \in DOMAIN WithGalaxyPin(r, g, c, p) /\ WithGalaxyPin(r, g, c, p)[k] = p[k]
<1> DEFINE v == [c |-> c, g |-> g, label |-> <<>>]
<1>1. CASE r.kind = "galaxy" /\ Writes
  <2>1. WithGalaxyPin(r, g, c, p) = Put(p, galaxyRolePinKey(r), v)
    BY <1>1 DEF WithGalaxyPin
  <2>2. v.g = g
    OBVIOUS
  <2> HIDE DEF v
  <2> DEFINE p2 == WithGalaxyPin(r, g, c, p)
  <2>3. /\ DOMAIN p2 = DOMAIN p \cup {galaxyRolePinKey(r)} /\ p2[galaxyRolePinKey(r)] = v
        /\ \A x \in DOMAIN p : x # galaxyRolePinKey(r) => p2[x] = p[x]
    BY <2>1 DEF Put
  <2> HIDE DEF p2
  <2>4. Writing(r, g, c, p, p2)
    BY <1>1, <2>2, <2>3 DEF Writing
  <2> SUFFICES /\ Writing(r, g, c, p, p2)
               /\ galaxyRolePinKey(r) \in DOMAIN p2 /\ p2[galaxyRolePinKey(r)].g = g
               /\ \A k \in DOMAIN p : k # galaxyRolePinKey(r) => k \in DOMAIN p2 /\ p2[k] = p[k]
    BY <1>1 DEF p2
  <2> QED  BY <2>2, <2>3, <2>4
<1>2. CASE ~(r.kind = "galaxy" /\ Writes)
  <2>1. WithGalaxyPin(r, g, c, p) = p
    BY <1>2 DEF WithGalaxyPin
  <2> QED  BY <1>2, <2>1 DEF Writing
<1> QED  BY <1>1, <1>2

LEMMA RecordWrites ==
  ASSUME NEW r \in Requests, NEW g \in Meanings(r), NEW c, NEW p, NEW p2,
         p2 = WithGalaxyPin(r, g, c, Put(p, PinKey(r, g), [c |-> c, g |-> g, label |-> LabelAt(r, g, c)]))
  PROVE  /\ Writing(r, g, c, p, p2)
         /\ PinKey(r, g) \in DOMAIN p2 /\ p2[PinKey(r, g)].c = c /\ p2[PinKey(r, g)].label = LabelAt(r, g, c)
         /\ r.kind = "galaxy" /\ Writes => galaxyRolePinKey(r) \in DOMAIN p2 /\ p2[galaxyRolePinKey(r)].g = g
<1> DEFINE v == [c |-> c, g |-> g, label |-> LabelAt(r, g, c)]
           m == Put(p, PinKey(r, g), v)
<1>1. v.c = c /\ v.label = LabelAt(r, g, c)
  OBVIOUS
<1> HIDE DEF v
<1>2. /\ DOMAIN m = DOMAIN p \cup {PinKey(r, g)} /\ m[PinKey(r, g)] = v
      /\ \A x \in DOMAIN p : x # PinKey(r, g) => m[x] = p[x]
  BY DEF Put
<1>3. p2 = WithGalaxyPin(r, g, c, m)
  BY DEF v
<1> HIDE DEF m
<1>4. PinKey(r, g) # galaxyRolePinKey(r)
  BY KeysDiffer
<1>5. /\ Writing(r, g, c, m, p2)
      /\ r.kind = "galaxy" /\ Writes => galaxyRolePinKey(r) \in DOMAIN p2 /\ p2[galaxyRolePinKey(r)].g = g
      /\ \A k \in DOMAIN m : k # galaxyRolePinKey(r) => k \in DOMAIN p2 /\ p2[k] = m[k]
  <2>1. /\ Writing(r, g, c, m, WithGalaxyPin(r, g, c, m))
        /\ r.kind = "galaxy" /\ Writes =>
             /\ galaxyRolePinKey(r) \in DOMAIN WithGalaxyPin(r, g, c, m)
             /\ WithGalaxyPin(r, g, c, m)[galaxyRolePinKey(r)].g = g
        /\ \A k \in DOMAIN m : k # galaxyRolePinKey(r) =>
             k \in DOMAIN WithGalaxyPin(r, g, c, m) /\ WithGalaxyPin(r, g, c, m)[k] = m[k]
    BY GalaxyPinWrites
  <2> QED  BY <1>3, <2>1
<1>6. PinKey(r, g) \in DOMAIN p2 /\ p2[PinKey(r, g)] = v
  BY <1>2, <1>4, <1>5
<1>7. Writing(r, g, c, p, p2)
  <2>1. DOMAIN p \subseteq DOMAIN p2
    BY <1>2, <1>5 DEF Writing
  <2>2. ASSUME NEW k \in DOMAIN p2, k # PinKey(r, g)
        PROVE  \/ k \in DOMAIN p /\ p2[k] = p[k]
               \/ k = galaxyRolePinKey(r) /\ r.kind = "galaxy" /\ p2[k].g = g
    BY <1>2, <1>5, <2>2 DEF Writing
  <2> QED  BY <1>1, <1>6, <2>1, <2>2 DEF Writing
<1> QED  BY <1>1, <1>5, <1>6, <1>7

\* A meaning survives a write to another pin, or of the same.
LEMMA HeldThrough ==
  ASSUME NEW q \in Requests, NEW r \in Requests, NEW g, NEW h, NEW c, NEW d, NEW p, NEW p2, NEW a, NEW b,
         Held(q, h, d, p, a), Writing(r, g, c, p, p2), a \subseteq b, g \in Meanings(r),
         PinKey(q, h) = PinKey(r, g) => c = d /\ (IsRole(q) => LabelAt(q, h, d) = LabelAt(r, g, c)),
         q.kind = "galaxy" /\ r.kind = "galaxy" /\ galaxyRolePinKey(q) = galaxyRolePinKey(r) => g = h
  PROVE  Held(q, h, d, p2, b)
<1>1. h \in Meanings(q)
  BY DEF Held
<1>2. PinKey(q, h) # galaxyRolePinKey(r)
  BY <1>1, KeysDiffer
<1>3. PinKey(q, h) \in DOMAIN p2 /\ p2[PinKey(q, h)].c = d
      /\ (IsRole(q) => p2[PinKey(q, h)].label = LabelAt(q, h, d))
  BY <1>2 DEF Held, Writing
<1>4. q.kind = "galaxy" => galaxyRolePinKey(q) \in DOMAIN p2 /\ p2[galaxyRolePinKey(q)].g = h
  <2> HAVE q.kind = "galaxy"
  <2>1. galaxyRolePinKey(q) # PinKey(r, g)
    BY KeysDiffer
  <2> QED  BY <2>1 DEF Held, Writing
<1> QED  BY <1>3, <1>4 DEF Held

\* Requests whose pins are apart.
Others(q, r) == IF IsRole(q) THEN IsRole(r) => q # r ELSE IsRole(r) \/ Apart(q, r)

LEMMA OthersKeep ==
  ASSUME PinsApart, NEW q \in Requests, NEW r \in Requests, Others(q, r),
         NEW g, NEW h, NEW c, NEW d, NEW p, NEW p2, NEW a, NEW b,
         Held(q, h, d, p, a), Writing(r, g, c, p, p2), a \subseteq b, g \in Meanings(r), c \in Numbers(g)
  PROVE  Held(q, h, d, p2, b)
<1>1. h \in Meanings(q) /\ d \in Numbers(h)
  BY DEF Held
<1>2. ASSUME PinKey(q, h) = PinKey(r, g)
      PROVE  c = d /\ (IsRole(q) => LabelAt(q, h, d) = LabelAt(r, g, c))
  <2>1. g = h /\ (IsRole(q) <=> IsRole(r))
    BY <1>1, <1>2, KeyNamesRef
  <2>2. Apart(q, r)
    BY <2>1, RequestKinds DEF Others, PinsApart
  <2>3. c = d
    BY <1>1, <2>1, <2>2, FixedIsOne DEF Apart
  <2> QED  BY <1>1, <2>1, <2>3, LabelsAgree, RequestKinds
<1>3. ASSUME q.kind = "galaxy", r.kind = "galaxy", galaxyRolePinKey(q) = galaxyRolePinKey(r)
      PROVE  FALSE
  <2>1. q \in RoleRequests /\ r \in RoleRequests /\ q # r
    BY <1>3, RequestKinds DEF Others
  <2>2. <<q.src, q.ver>> # <<r.src, r.ver>>
    BY <1>3, <2>1 DEF PinsApart
  <2> QED  BY <1>3, <2>2 DEF galaxyRolePinKey
<1> QED  BY <1>2, <1>3, HeldThrough

\* What is written is known of its ref.
LEMMA KnownThrough ==
  ASSUME PinsApart, NEW r \in Requests, NEW g \in Meanings(r), NEW c \in Numbers(g),
         NEW p, NEW p2, PinsKnown(p), Writing(r, g, c, p, p2)
  PROVE  PinsKnown(p2)
<1> SUFFICES ASSUME NEW q \in Requests
    PROVE /\ \A h \in Meanings(q) : PinKey(q, h) \in DOMAIN p2 =>
               /\ p2[PinKey(q, h)].c \in Numbers(h)
               /\ IsRole(q) => p2[PinKey(q, h)].label = LabelAt(q, h, p2[PinKey(q, h)].c)
          /\ q.kind = "galaxy" /\ galaxyRolePinKey(q) \in DOMAIN p2 => p2[galaxyRolePinKey(q)].g \in Meanings(q)
  BY DEF PinsKnown
<1>1. ASSUME NEW h \in Meanings(q), PinKey(q, h) \in DOMAIN p2
      PROVE  /\ p2[PinKey(q, h)].c \in Numbers(h)
             /\ IsRole(q) => p2[PinKey(q, h)].label = LabelAt(q, h, p2[PinKey(q, h)].c)
  <2>1. PinKey(q, h) # galaxyRolePinKey(r)
    BY KeysDiffer
  <2>2. CASE PinKey(q, h) \in DOMAIN p /\ p2[PinKey(q, h)] = p[PinKey(q, h)]
    BY <2>2 DEF PinsKnown
  <2>3. CASE PinKey(q, h) = PinKey(r, g) /\ p2[PinKey(q, h)].c = c /\ p2[PinKey(q, h)].label = LabelAt(r, g, c)
    <3>1. g = h /\ (IsRole(q) <=> IsRole(r))
      BY <2>3, KeyNamesRef
    <3>2. IsRole(q) => LabelAt(q, g, c) = LabelAt(r, g, c)
      BY <3>1, LabelsAgree, RequestKinds
    <3> QED  BY <2>3, <3>1, <3>2
  <2> QED  BY <1>1, <2>1, <2>2, <2>3 DEF Writing
<1>2. ASSUME q.kind = "galaxy", galaxyRolePinKey(q) \in DOMAIN p2
      PROVE  p2[galaxyRolePinKey(q)].g \in Meanings(q)
  <2>1. galaxyRolePinKey(q) # PinKey(r, g)
    BY KeysDiffer
  <2>2. CASE galaxyRolePinKey(q) \in DOMAIN p /\ p2[galaxyRolePinKey(q)] = p[galaxyRolePinKey(q)]
    BY <1>2, <2>2 DEF PinsKnown
  <2>3. CASE galaxyRolePinKey(q) = galaxyRolePinKey(r) /\ r.kind = "galaxy" /\ p2[galaxyRolePinKey(q)].g = g
    <3>1. q.src = r.src /\ q.ver = r.ver
      BY <2>3 DEF galaxyRolePinKey
    <3> QED  BY <1>2, <2>3, <3>1 DEF Meanings
  <2> QED  BY <1>2, <2>1, <2>2, <2>3 DEF Writing
<1> QED  BY <1>1, <1>2

-----------------------------------------------------------------------------
(***************************************************************************)
(* One request moves on.                                                   *)
(***************************************************************************)
LEMMA HeldLonger ==
  ASSUME NEW r, NEW g, NEW c, NEW p, NEW a, NEW b, Held(r, g, c, p, a), a \subseteq b
  PROVE  Held(r, g, c, p, b)
BY DEF Held

LEMMA LevelRequests ==
  ASSUME RunStaged, NEW i \in DOMAIN work
  PROVE  level[i] \in Requests /\ run.phase \in {"git", "url", "roles"} /\ i \in DOMAIN level /\ run.file \in Files
<1>1. run.phase \in {"git", "url", "roles"} /\ i \in DOMAIN level /\ run.file \in Files
  BY DEF RunStaged
<1>2. CASE run.phase = "git"
  <2>1. level[i] \in ToSet(run.file.git)
    BY <1>1, <1>2 DEF RunStaged, ToSet
  <2> QED  BY <1>1, <2>1 DEF Requests, Roots
<1>3. CASE run.phase = "url"
  <2>1. level[i] \in ToSet(run.file.url)
    BY <1>1, <1>3 DEF RunStaged, ToSet
  <2> QED  BY <1>1, <2>1 DEF Requests, Roots
<1>4. CASE run.phase = "roles"
  BY <1>1, <1>4 DEF RunStaged, Requests
<1> QED  BY <1>1, <1>2, <1>3, <1>4

LEMMA RootsAreNoRoles ==
  ASSUME NEW f \in Files
  PROVE  /\ \A i \in DOMAIN f.git : f.git[i] \in Requests /\ ~IsRole(f.git[i])
         /\ \A i \in DOMAIN f.url : f.url[i] \in Requests /\ ~IsRole(f.url[i])
BY DiscoveryAssumption DEF IsRole, Requests, Roots, ToSet

LEMMA ListedIsRequest ==
  ASSUME NEW r, Listed(r), run.file \in Files
  PROVE  r \in Requests
BY RootsAreNoRoles DEF Listed, Requests

\* Two requests of one level have pins apart, and so have what is found and the level.
LEMMA LevelApart ==
  ASSUME PinsApart, RunStaged, NEW i \in DOMAIN work, NEW j \in DOMAIN work, i # j
  PROVE  Others(level[j], level[i])
<1>1. /\ run.phase \in {"git", "url", "roles"} /\ i \in DOMAIN level /\ j \in DOMAIN level /\ run.file \in Files
      /\ level[i] \in Requests /\ level[j] \in Requests
  BY LevelRequests
<1>2. CASE run.phase = "git"
  <2>1. level = run.file.git
    BY <1>2 DEF RunStaged
  <2>2. Apart(level[j], level[i]) /\ ~IsRole(level[j])
    BY <1>1, <2>1, RootsAreNoRoles DEF PinsApart
  <2> QED  BY <2>2 DEF Others
<1>3. CASE run.phase = "url"
  <2>1. level = run.file.url
    BY <1>3 DEF RunStaged
  <2>2. Apart(level[j], level[i]) /\ ~IsRole(level[j])
    BY <1>1, <2>1, RootsAreNoRoles DEF PinsApart
  <2> QED  BY <2>2 DEF Others
<1>4. CASE run.phase = "roles"
  <2>1. level[i].name # level[j].name /\ level[j] \in RoleRequests
    BY <1>1, <1>4 DEF RunStaged
  <2> QED  BY <1>1, <2>1, RequestKinds DEF Others
<1> QED  BY <1>1, <1>2, <1>3, <1>4

LEMMA FoundApart ==
  ASSUME PinsApart, RunStaged, Findings, NEW i \in DOMAIN work, NEW f \in found
  PROVE  f.req \in Requests /\ Others(f.req, level[i])
<1>1. /\ run.phase \in {"git", "url", "roles"} /\ i \in DOMAIN level /\ run.file \in Files
      /\ level[i] \in Requests
  BY LevelRequests
<1>2. Listed(f.req) /\ f.name \in Names(f.req, f.c)
  BY DEF Findings
<1>3. f.req \in Requests
  BY <1>1, <1>2, ListedIsRequest
<1>4. run.phase # "git"
  BY DEF RunStaged
<1>5. CASE run.phase = "url"
  <2>1. level = run.file.url
    BY <1>5 DEF RunStaged
  <2>2. PICK j \in DOMAIN run.file.git : f.req = run.file.git[j]
    BY <1>2, <1>5 DEF Listed
  <2>3. Apart(f.req, level[i]) /\ ~IsRole(f.req)
    BY <1>1, <2>1, <2>2, RootsAreNoRoles DEF PinsApart
  <2> QED  BY <1>3, <2>3 DEF Others
<1>6. CASE run.phase = "roles"
  <2>1. level[i] \in RoleRequests
    BY <1>1, <1>6 DEF RunStaged
  <2>2. CASE IsRole(f.req)
    <3>1. f.name = f.req.name /\ level[i].name # f.name
      BY <1>1, <1>2, <1>6, <2>2 DEF RunStaged, Names
    <3> QED  BY <1>3, <2>2, <3>1 DEF Others
  <2>3. CASE ~IsRole(f.req)
    BY <1>1, <1>3, <2>1, <2>3, RequestKinds DEF Others
  <2> QED  BY <2>2, <2>3
<1> QED  BY <1>1, <1>4, <1>5, <1>6

\* The pins a step of r leaves when it ends at w.
PinsLeft(r, w, p, p2) ==
  \/ p2 = p
  \/ /\ Writes /\ w.at \in {"done", "failed"} /\ w.g \in Meanings(r) /\ w.c \in Numbers(w.g)
     /\ Writing(r, w.g, w.c, p, p2)
     /\ run.mode = "plain" => /\ r \in DOMAIN last => w.at = "done"
                              /\ ~IsRole(r) => \A q \in DOMAIN last : last[q].key # PinKey(r, w.g)

\* A request moves to w.
MovesTo(i, w) ==
  /\ UNCHANGED <<tip, tags, saved, run, level, found, todo, last>>
  /\ arts \subseteq arts'
  /\ work' = [work EXCEPT ![i] = w]
  /\ work[i].at \notin {"done", "failed"}
  /\ Under(level[i], w) /\ Repeats(level[i], w) /\ Stays(level[i], w)
  /\ Writes /\ w.at = "done" => Held(level[i], w.g, w.c, pins', arts')
  /\ PinsLeft(level[i], w, pins, pins')

LEMMA MovingKnown ==
  ASSUME PinsApart, DInv, NEW i \in DOMAIN work, NEW w, MovesTo(i, w)
  PROVE  Served' /\ RunStaged' /\ PinsKnown(saved)' /\ PinsKnown(pins)' /\ PinHolds'
<1>1. Served'
  BY DEF DInv, Served, MovesTo
<1>2. RunStaged'
  BY LevelRequests DEF DInv, RunStaged, MovesTo
<1>3. PinsKnown(saved)'
  BY DEF DInv, PinsKnown, MovesTo
<1>4. PinsKnown(pins')
  <2>1. CASE pins' = pins
    BY <2>1 DEF DInv
  <2>2. CASE pins' # pins
    <3>1. w.g \in Meanings(level[i]) /\ w.c \in Numbers(w.g) /\ Writing(level[i], w.g, w.c, pins, pins')
      BY <2>2 DEF MovesTo, PinsLeft
    <3> QED  BY <3>1, KnownThrough, LevelRequests DEF DInv
  <2> QED  BY <2>1, <2>2
<1>5. PinsKnown(pins)'
  BY <1>4 DEF PinsKnown
<1>6. PinHolds'
  BY DEF DInv, PinHolds, MovesTo
<1> QED  BY <1>1, <1>2, <1>3, <1>5, <1>6

\* Whatever another request holds, it holds after the step.
LEMMA OthersHold ==
  ASSUME PinsApart, DInv, NEW i \in DOMAIN work, NEW w, MovesTo(i, w),
         NEW q \in Requests, Others(q, level[i]), NEW g, NEW c, Held(q, g, c, pins, arts)
  PROVE  Held(q, g, c, pins', arts')
<1>1. CASE pins' = pins
  BY <1>1, HeldLonger DEF MovesTo
<1>2. CASE pins' # pins
  <2>1. w.g \in Meanings(level[i]) /\ w.c \in Numbers(w.g) /\ Writing(level[i], w.g, w.c, pins, pins')
    BY <1>2 DEF MovesTo, PinsLeft
  <2>2. level[i] \in Requests /\ arts \subseteq arts'
    BY LevelRequests DEF DInv, MovesTo
  <2> QED  BY <2>1, <2>2, OthersKeep
<1> QED  BY <1>1, <1>2

LEMMA MovingRemembers ==
  ASSUME PinsApart, DInv, NEW i \in DOMAIN work, NEW w, MovesTo(i, w)
  PROVE  Remembered'
<1> USE DEF DInv
<1>0. last' = last /\ saved' = saved /\ run' = run /\ arts \subseteq arts' /\ level[i] \in Requests
  BY LevelRequests DEF MovesTo
<1>1. ASSUME NEW q \in DOMAIN last
      PROVE  q \in Requests /\ last[q].key = PinKey(q, last[q].g) /\ Held(q, last[q].g, last[q].c, saved, arts')
  <2>1. q \in Requests /\ last[q].key = PinKey(q, last[q].g) /\ Held(q, last[q].g, last[q].c, saved, arts)
    BY DEF Remembered, MeaningKept
  <2> QED  BY <1>0, <2>1, HeldLonger
<1>2. run.mode \in {"nocache", "offline"} => pins' = saved
  BY DEF Remembered, MovesTo, PinsLeft, Writes
<1>3. ASSUME run.mode = "plain", NEW q \in DOMAIN last
      PROVE  Held(q, last[q].g, last[q].c, pins', arts')
  <2> DEFINE r == level[i]
             h == last[q].g
             d == last[q].c
  <2>1. q \in Requests /\ last[q].key = PinKey(q, h) /\ Held(q, h, d, pins, arts)
    BY <1>3 DEF Remembered, MeaningKept
  <2>2. CASE Others(q, r)
    <3> HIDE DEF h, d
    <3>1. Held(q, h, d, pins', arts')
      BY <2>1, <2>2, OthersHold
    <3> QED  BY <3>1 DEF h, d
  <2>3. CASE pins' = pins
    <3> HIDE DEF h, d
    <3>1. Held(q, h, d, pins', arts')
      BY <1>0, <2>1, <2>3, HeldLonger
    <3> QED  BY <3>1 DEF h, d
  <2>4. CASE pins' # pins /\ ~Others(q, r)
    <3>1. /\ w.g \in Meanings(r) /\ w.c \in Numbers(w.g) /\ Writing(r, w.g, w.c, pins, pins')
          /\ r \in DOMAIN last => w.at = "done"
          /\ ~IsRole(r) => last[q].key # PinKey(r, w.g)
          /\ Writes
      BY <1>3, <2>4 DEF MovesTo, PinsLeft
    <3>2. CASE IsRole(q)
      <4>1. q = r
        BY <2>4, <3>2 DEF Others
      <4>2. w.at = "done"
        BY <3>1, <4>1
      <4>3. w.g = h /\ w.c = d
        BY <1>3, <4>1, <4>2 DEF MovesTo, Repeats
      <4>4. Held(r, w.g, w.c, pins', arts')
        BY <3>1, <4>2 DEF MovesTo
      <4> QED  BY <4>1, <4>3, <4>4
    <3>3. CASE ~IsRole(q)
      <4>1. ~IsRole(r)
        BY <2>4, <3>3 DEF Others
      <4>2. PinKey(q, h) # PinKey(r, w.g)
        BY <2>1, <3>1, <4>1
      <4>3. q.kind # "galaxy"
        BY <2>1, <3>3, RequestKinds
      <4> HIDE DEF h, d, r
      <4>4. r \in Requests
        BY <1>0 DEF r
      <4>5. Held(q, h, d, pins', arts')
        BY <1>0, <2>1, <3>1, <4>2, <4>3, <4>4, HeldThrough
      <4> QED  BY <4>5 DEF h, d
    <3> QED  BY <3>2, <3>3
  <2> QED  BY <2>2, <2>3, <2>4
<1>4. /\ \A q \in DOMAIN last' : q \in Requests /\ last'[q].key = PinKey(q, last'[q].g) /\ Held(q, last'[q].g, last'[q].c, saved', arts')
      /\ run'.mode \in {"nocache", "offline"} => pins' = saved'
      /\ run'.mode = "plain" => \A q \in DOMAIN last' : Held(q, last'[q].g, last'[q].c, pins', arts')
  BY <1>0, <1>1, <1>2, <1>3
<1> QED  BY <1>4 DEF Remembered, MeaningKept

LEMMA MovingWorks ==
  ASSUME PinsApart, DInv, NEW i \in DOMAIN work, NEW w, MovesTo(i, w)
  PROVE  Working' /\ Findings'
<1> USE DEF DInv
<1>0. /\ last' = last /\ run' = run /\ arts \subseteq arts' /\ level[i] \in Requests /\ level' = level /\ found' = found
      /\ work' = [work EXCEPT ![i] = w] /\ DOMAIN work' = DOMAIN work
  BY LevelRequests DEF MovesTo
<1>1. ASSUME NEW j \in DOMAIN work'
      PROVE  /\ Under(level'[j], work'[j]) /\ Repeats(level[j], work[j])'
             /\ Stays(level[j], work[j])' /\ Pinned(level[j], work[j])'
  <2>1. CASE i = j
    <3>1. work'[j] = w
      BY <1>0, <1>1, <2>1
    <3>2. Under(level[j], w) /\ Repeats(level[j], w) /\ Stays(level[j], w)
          /\ (Writes /\ w.at = "done" => Held(level[j], w.g, w.c, pins', arts'))
      BY <2>1 DEF MovesTo
    <3> QED  BY <1>0, <3>1, <3>2 DEF Repeats, Stays, Pinned, Writes
  <2>2. CASE i # j
    <3>1. work'[j] = work[j] /\ j \in DOMAIN work
      BY <1>0, <1>1, <2>2
    <3>2. /\ Under(level[j], work[j]) /\ Repeats(level[j], work[j])
          /\ Stays(level[j], work[j]) /\ Pinned(level[j], work[j])
      BY <3>1 DEF Working
    <3>3. Others(level[j], level[i]) /\ level[j] \in Requests
      BY <2>2, <3>1, LevelApart, LevelRequests
    <3>4. Writes /\ work[j].at = "done" => Held(level[j], work[j].g, work[j].c, pins', arts')
      BY <3>2, <3>3, OthersHold DEF Pinned
    <3> QED  BY <1>0, <3>1, <3>2, <3>4 DEF Repeats, Stays, Pinned, Writes
  <2> QED  BY <2>1, <2>2
<1>2. Working'
  BY <1>1 DEF Working
<1>3. ASSUME NEW f \in found, Writes
      PROVE  Held(f.req, f.g, f.c, pins', arts')
  BY <1>3, FoundApart, OthersHold DEF Findings
<1>4. Findings'
  BY <1>0, <1>3 DEF Findings, Listed, Writes
<1> QED  BY <1>2, <1>4

LEMMA MovingRefreshes ==
  ASSUME PinsApart, DInv, NEW i \in DOMAIN work, NEW w, MovesTo(i, w)
  PROVE  Refreshing'
<1> USE DEF DInv
<1>0. /\ last' = last /\ run' = run /\ arts \subseteq arts' /\ level[i] \in Requests /\ level' = level /\ found' = found
      /\ work' = [work EXCEPT ![i] = w] /\ DOMAIN work' = DOMAIN work /\ work[i].at \notin {"done", "failed"}
      /\ work'[i] = w
  BY LevelRequests DEF MovesTo
<1> SUFFICES ASSUME run.mode = "refresh", \A j \in DOMAIN work : work'[j].at # "failed", NEW q \in DOMAIN last
    PROVE \/ Held(q, last[q].g, last[q].c, pins', arts')
          \/ \E a \in Answered' : a.req = q \/ PinKey(a.req, a.g) = last[q].key
  BY <1>0 DEF Refreshing, MeaningKept
<1>1. \A j \in DOMAIN work : work[j].at # "failed"
  BY <1>0
<1>2. Answered \subseteq Answered'
  BY <1>0 DEF Answered
<1>3. w.at = "done" => [req |-> level[i], g |-> w.g] \in Answered'
  BY <1>0 DEF Answered
<1>4. w.at # "failed"
  BY <1>0
<1>5. CASE \E a \in Answered : a.req = q \/ PinKey(a.req, a.g) = last[q].key
  BY <1>2, <1>5
<1>6. CASE MeaningKept(q, pins)
  <2> DEFINE r == level[i]
             h == last[q].g
             d == last[q].c
  <2>1. q \in Requests /\ last[q].key = PinKey(q, h) /\ Held(q, h, d, pins, arts)
    BY <1>6 DEF Remembered, MeaningKept
  <2>2. CASE pins' = pins
    <3> HIDE DEF h, d
    <3>1. Held(q, h, d, pins', arts')
      BY <1>0, <2>1, <2>2, HeldLonger
    <3> QED  BY <3>1 DEF h, d
  <2>3. CASE pins' # pins
    <3>1. /\ w.g \in Meanings(r) /\ w.c \in Numbers(w.g) /\ Writing(r, w.g, w.c, pins, pins')
          /\ w.at = "done"
      BY <1>4, <2>3 DEF MovesTo, PinsLeft
    <3>2. CASE q = r \/ PinKey(r, w.g) = last[q].key
      <4> DEFINE a == [req |-> level[i], g |-> w.g]
      <4>1. a \in Answered' /\ a.req = r /\ a.g = w.g
        BY <1>3, <3>1
      <4> HIDE DEF a
      <4> QED  BY <3>2, <4>1
    <3>3. CASE q # r /\ PinKey(r, w.g) # last[q].key
      <4>1. q.kind = "galaxy" /\ r.kind = "galaxy" => galaxyRolePinKey(q) # galaxyRolePinKey(r)
        BY <1>0, <2>1, <3>3, RequestKinds DEF PinsApart, galaxyRolePinKey
      <4>2. PinKey(q, h) # PinKey(r, w.g)
        BY <2>1, <3>3
      <4> HIDE DEF h, d, r
      <4>3. r \in Requests
        BY <1>0 DEF r
      <4>4. Held(q, h, d, pins', arts')
        BY <1>0, <2>1, <3>1, <4>1, <4>2, <4>3, HeldThrough
      <4> QED  BY <4>4 DEF h, d
    <3> QED  BY <3>2, <3>3
  <2> QED  BY <2>2, <2>3
<1> QED  BY <1>1, <1>5, <1>6 DEF Refreshing

LEMMA MovingInv ==
  ASSUME PinsApart, DInv, NEW i \in DOMAIN work, NEW w, MovesTo(i, w)
  PROVE  DInv'
BY MovingKnown, MovingRemembers, MovingWorks, MovingRefreshes DEF DInv

LEMMA RequestAt ==
  ASSUME DInv, NEW i \in DOMAIN work
  PROVE  /\ level[i] \in Requests
         /\ Under(level[i], work[i]) /\ Repeats(level[i], work[i])
         /\ Stays(level[i], work[i]) /\ Pinned(level[i], work[i])
BY LevelRequests DEF DInv, Working

\* What the last saved run meant is still pinned, unless a refresh is under way.
LEMMA StillKept ==
  ASSUME DInv, run.mode \in {"plain", "offline"}, NEW r \in DOMAIN last
  PROVE  r \in Requests /\ last[r].key = PinKey(r, last[r].g) /\ MeaningKept(r, pins)
BY DEF DInv, Remembered

LEMMA RequestStepInv ==
  ASSUME PinsApart, DInv, NEW i \in DOMAIN work, NEW where, NEW g, NEW c, Move(i, where, g, c),
         UNCHANGED <<tip, tags, saved, run, level, found, todo, last>>, arts \subseteq arts',
         work[i].at \notin {"done", "failed"},
         \A w : w.at = where /\ w.g = g /\ w.c = c =>
           /\ Under(level[i], w) /\ Repeats(level[i], w) /\ Stays(level[i], w)
           /\ Writes /\ w.at = "done" => Held(level[i], w.g, w.c, pins', arts')
           /\ PinsLeft(level[i], w, pins, pins')
  PROVE  DInv'
<1> DEFINE w == [at |-> where, g |-> g, c |-> c]
<1>1. w.at = where /\ w.g = g /\ w.c = c /\ work' = [work EXCEPT ![i] = w]
  BY DEF Move
<1> HIDE DEF w
<1>2. MovesTo(i, w)
  BY <1>1 DEF MovesTo
<1> QED  BY <1>2, MovingInv

\* A step that writes no pin and does not resolve the request yet.
LEMMA QuietStepInv ==
  ASSUME PinsApart, DInv, NEW i \in DOMAIN work, NEW where, NEW g, NEW c, Move(i, where, g, c),
         UNCHANGED <<tip, tags, saved, run, level, found, todo, last, arts, pins>>,
         work[i].at \notin {"done", "failed"}, where # "done",
         \A w : w.at = where /\ w.g = g /\ w.c = c =>
           Under(level[i], w) /\ Repeats(level[i], w) /\ Stays(level[i], w)
  PROVE  DInv'
BY RequestStepInv DEF PinsLeft

\* A request that failed, which --offline lets only one that was never resolved do.
LEMMA FailInv ==
  ASSUME PinsApart, DInv, NEW i \in DOMAIN work, Stay(i, "failed"),
         UNCHANGED <<tip, tags, saved, run, level, found, todo, last, arts, pins>>,
         work[i].at \notin {"done", "failed"},
         run.mode = "offline" => level[i] \notin DOMAIN last
  PROVE  DInv'
<1>1. ASSUME NEW w, w.at = "failed", w.g = work[i].g, w.c = work[i].c
      PROVE  Under(level[i], w) /\ Repeats(level[i], w) /\ Stays(level[i], w)
  BY <1>1 DEF Under, Repeats, Stays
<1> QED  BY <1>1, QuietStepInv DEF Stay

LEMMA ResolveGalaxyRoleInv ==
  ASSUME PinsApart, DInv, NEW i \in DOMAIN work, resolveGalaxyRole(i)
  PROVE  DInv'
<1> DEFINE r == level[i]
           k == galaxyRolePinKey(r)
           answer == lookupGalaxyRole(TagLists[tags], r.src, r.ver)
           recorded == Reads(r.ver # "") /\ run.mode # "refresh" /\ k \in DOMAIN pins
<1>1. /\ work[i].at = "map" /\ r.kind = "galaxy" /\ r \in Requests
      /\ UNCHANGED <<tip, tags, saved, run, level, found, todo, last, arts, pins>>
  BY RequestAt DEF resolveGalaxyRole, At, upstream, Under
<1>2. run.mode \in {"plain", "offline"} /\ r \in DOMAIN last => recorded /\ pins[k].g = last[r].g
  BY <1>1, StillKept DEF MeaningKept, Held, Reads
<1>3. CASE recorded
  <2>1. Move(i, "look", pins[k].g, 0)
    BY <1>3 DEF resolveGalaxyRole
  <2>2. pins[k].g \in Meanings(r)
    BY <1>1, <1>3 DEF DInv, PinsKnown
  <2>3. ASSUME NEW w, w.at = "look", w.g = pins[k].g, w.c = 0
        PROVE  Under(r, w) /\ Repeats(r, w) /\ Stays(r, w)
    BY <1>1, <1>2, <2>2, <2>3 DEF Under, Repeats, Stays
  <2> QED  BY <1>1, <2>1, <2>3, QuietStepInv
<1>4. CASE ~recorded
  <2>1. run.mode \in {"plain", "offline"} => r \notin DOMAIN last
    BY <1>2, <1>4
  <2>2. CASE Stay(i, "failed")
    BY <1>1, <2>1, <2>2, FailInv
  <2>3. CASE Move(i, "look", answer, 0) /\ answer # None
    <3>1. answer \in Meanings(r)
      BY <1>1, <2>3 DEF Meanings, DInv, Served
    <3>2. ASSUME NEW w, w.at = "look", w.g = answer, w.c = 0
          PROVE  Under(r, w) /\ Repeats(r, w) /\ Stays(r, w)
      BY <1>1, <2>1, <3>1, <3>2 DEF Under, Repeats, Stays
    <3> HIDE DEF answer
    <3> QED  BY <1>1, <2>3, <3>2, QuietStepInv
  <2>4. Stay(i, "failed") \/ (Move(i, "look", answer, 0) /\ answer # None)
    BY <1>4 DEF resolveGalaxyRole
  <2> QED  BY <2>2, <2>3, <2>4
<1> QED  BY <1>3, <1>4

\* A pin is replayed for what was resolved before, and as that.
LEMMA Replayable ==
  ASSUME DInv, NEW i \in DOMAIN work, work[i].at = "look", run.mode \in {"plain", "offline"}, level[i] \in DOMAIN last
  PROVE  /\ Recorded(i) /\ work[i].g = last[level[i]].g /\ Pin(i).c = last[level[i]].c
         /\ IsRole(level[i]) => replayRolePin(i)
         /\ Names(level[i], Pin(i).c) # {}
<1>1. MeaningKept(level[i], pins) /\ work[i].g = last[level[i]].g
  BY StillKept, RequestAt DEF Repeats
<1> QED  BY <1>1 DEF MeaningKept, Held, Recorded, Pin, replayRolePin, ArtifactsCached

LEMMA RolesAreNamed ==
  ASSUME NEW r, IsRole(r), NEW c
  PROVE  Names(r, c) # {}
BY DEF Names

LEMMA ReplayInv ==
  ASSUME PinsApart, DInv, NEW i \in DOMAIN work, work[i].at = "look", Recorded(i), Replay(i, Pin(i).c), Looked,
         IsRole(level[i]) => ArtifactsCached(level[i], work[i].g, Pin(i).c)
  PROVE  DInv'
<1> DEFINE r == level[i]
           g == work[i].g
           c == Pin(i).c
           where == IF Names(r, c) = {} THEN "failed" ELSE "done"
<1>1. /\ r \in Requests /\ g \in Meanings(r) /\ Repeats(r, work[i])
      /\ UNCHANGED <<tip, tags, saved, run, level, found, todo, last, arts>>
  BY RequestAt DEF Under, Looked, upstream
<1>2. Move(i, where, g, c) /\ pins' = WithGalaxyPin(r, g, c, pins)
  BY DEF Replay
<1>3. /\ PinKey(r, g) \in DOMAIN pins /\ pins[PinKey(r, g)].c = c /\ c \in Numbers(g)
      /\ IsRole(r) => pins[PinKey(r, g)].label = LabelAt(r, g, c) /\ ArtifactsAt(r, g, c) \subseteq arts
  BY <1>1 DEF Recorded, Pin, ArtifactsCached, DInv, PinsKnown
<1>4. r \in DOMAIN last /\ run.mode \in {"plain", "offline"} => g = last[r].g /\ c = last[r].c /\ Names(r, c) # {}
  BY Replayable
<1>5. where \in {"done", "failed"} /\ (where = "done" <=> Names(r, c) # {})
  OBVIOUS
<1>6. PinKey(r, g) # galaxyRolePinKey(r) /\ (r.kind = "galaxy" => IsRole(r) /\ Names(r, c) # {})
  BY <1>1, KeysDiffer, RequestKinds, RolesAreNamed
<1> HIDE DEF where, c, g, r
<1>7. /\ Writing(r, g, c, pins, pins')
      /\ r.kind = "galaxy" /\ Writes => galaxyRolePinKey(r) \in DOMAIN pins' /\ pins'[galaxyRolePinKey(r)].g = g
      /\ r.kind # "galaxy" \/ ~Writes => pins' = pins
      /\ PinKey(r, g) \in DOMAIN pins' /\ pins'[PinKey(r, g)] = pins[PinKey(r, g)]
  <2>1. r.kind # "galaxy" \/ ~Writes => pins' = pins
    BY <1>2 DEF WithGalaxyPin
  <2> DEFINE p2 == WithGalaxyPin(r, g, c, pins)
  <2>2. /\ Writing(r, g, c, pins, p2)
        /\ r.kind = "galaxy" /\ Writes => galaxyRolePinKey(r) \in DOMAIN p2 /\ p2[galaxyRolePinKey(r)].g = g
        /\ \A k \in DOMAIN pins : k # galaxyRolePinKey(r) => k \in DOMAIN p2 /\ p2[k] = pins[k]
    BY GalaxyPinWrites
  <2>3. pins' = p2
    BY <1>2
  <2> HIDE DEF p2
  <2> QED  BY <1>3, <1>6, <2>1, <2>2, <2>3
<1>8. Writes /\ where = "done" => Held(r, g, c, pins', arts')
  BY <1>1, <1>3, <1>5, <1>6, <1>7 DEF Held
<1>9. ASSUME NEW w, w.at = where, w.g = g, w.c = c
      PROVE  /\ Under(r, w) /\ Repeats(r, w) /\ Stays(r, w)
             /\ Writes /\ w.at = "done" => Held(r, w.g, w.c, pins', arts')
             /\ PinsLeft(r, w, pins, pins')
  <2>1. Under(r, w)
    BY <1>1, <1>3, <1>5, <1>9 DEF Under
  <2>2. Repeats(r, w) /\ Stays(r, w)
    BY <1>4, <1>5, <1>9 DEF Repeats, Stays
  <2>3. PinsLeft(r, w, pins, pins')
    BY <1>1, <1>3, <1>5, <1>6, <1>7, <1>9 DEF PinsLeft
  <2> QED  BY <1>8, <1>9, <2>1, <2>2, <2>3
<1>10. arts \subseteq arts'
  BY <1>1
<1> QED  BY <1>1, <1>2, <1>9, <1>10, RequestStepInv DEF r

LEMMA MissInv ==
  ASSUME PinsApart, DInv, NEW i \in DOMAIN work, work[i].at = "look", Miss(i), Looked,
         run.mode \in {"plain", "offline"} =>
           /\ level[i] \notin DOMAIN last
           /\ ~IsRole(level[i]) => \A q \in DOMAIN last : last[q].key # PinKey(level[i], work[i].g)
  PROVE  DInv'
<1> DEFINE r == level[i]
           g == work[i].g
<1>1. /\ r \in Requests /\ g \in Meanings(r)
      /\ UNCHANGED <<tip, tags, saved, run, level, found, todo, last, arts>>
  BY RequestAt DEF Under, Looked, upstream
<1>2. ASSUME NEW c, c = 0 \/ c = Serves(g), Move(i, "fetch", g, c), pins' = pins, run.mode # "offline"
      PROVE  DInv'
  <2>1. c = 0 \/ c \in Numbers(g)
    BY <1>1, <1>2, ServesANumber DEF DInv
  <2>2. ASSUME NEW w, w.at = "fetch", w.g = g, w.c = c
        PROVE  Under(r, w) /\ Repeats(r, w) /\ Stays(r, w)
    BY <1>1, <1>2, <2>1, <2>2 DEF Under, Repeats, Stays
  <2> QED  BY <1>1, <1>2, <2>2, QuietStepInv
<1>3. CASE run.mode = "offline"
  <2>1. Stay(i, "failed") /\ pins' = pins
    BY <1>3 DEF Miss
  <2> QED  BY <1>1, <1>3, <2>1, FailInv
<1>4. CASE run.mode # "offline"
  <2>1. \/ Recorded(i) /\ ArtifactsCached(r, g, Pin(i).c) /\ Replay(i, Pin(i).c)
        \/ Move(i, "fetch", g, Serves(g)) /\ pins' = pins
        \/ Move(i, "fetch", g, 0) /\ pins' = pins
    BY <1>4 DEF Miss, Recorded, Pin
  <2>2. CASE Recorded(i) /\ ArtifactsCached(r, g, Pin(i).c) /\ Replay(i, Pin(i).c)
    BY <2>2, ReplayInv
  <2> QED  BY <1>2, <1>4, <2>1, <2>2
<1> QED  BY <1>3, <1>4

LEMMA CollectionLooksInv ==
  ASSUME PinsApart, DInv, NEW i \in DOMAIN work, NEW exact, work[i].at = "look", ~IsRole(level[i]),
         IF CollectionPinHeld(i, exact) THEN Replay(i, Pin(i).c) ELSE Miss(i), Looked
  PROVE  DInv'
<1>1. CASE CollectionPinHeld(i, exact)
  BY <1>1, ReplayInv DEF CollectionPinHeld
<1>2. CASE ~CollectionPinHeld(i, exact)
  <2>1. ASSUME run.mode \in {"plain", "offline"}, NEW q \in DOMAIN last, last[q].key = PinKey(level[i], work[i].g)
        PROVE  FALSE
    <3>1. ~Recorded(i)
      BY <1>2, <2>1 DEF CollectionPinHeld, Reads
    <3>2. MeaningKept(q, pins) /\ last[q].key = PinKey(q, last[q].g)
      BY <2>1, StillKept
    <3> QED  BY <2>1, <3>1, <3>2 DEF MeaningKept, Held, Recorded
  <2>2. run.mode \in {"plain", "offline"} => level[i] \notin DOMAIN last
    BY <1>2, Replayable DEF CollectionPinHeld, Reads
  <2>3. Miss(i)
    BY <1>2
  <2> QED  BY <2>1, <2>2, <2>3, MissInv
<1> QED  BY <1>1, <1>2

LEMMA RoleLooksInv ==
  ASSUME PinsApart, DInv, NEW i \in DOMAIN work, NEW exact, work[i].at = "look", IsRole(level[i]),
         IF Reads(exact) /\ replayRolePin(i) THEN Replay(i, Pin(i).c) ELSE Miss(i), Looked
  PROVE  DInv'
<1>1. CASE Reads(exact) /\ replayRolePin(i)
  BY <1>1, ReplayInv DEF replayRolePin
<1>2. CASE ~(Reads(exact) /\ replayRolePin(i))
  <2>1. run.mode \in {"plain", "offline"} => level[i] \notin DOMAIN last
    BY <1>2, Replayable DEF Reads
  <2>2. Miss(i)
    BY <1>2
  <2> QED  BY <2>1, <2>2, MissInv
<1> QED  BY <1>1, <1>2

LEMMA LookInv ==
  ASSUME PinsApart, DInv, NEW i \in DOMAIN work,
         expandGitRoot(i) \/ expandURLRoot(i) \/ resolveGitRole(i) \/ resolveURLRole(i)
  PROVE  DInv'
<1>1. CASE expandGitRoot(i)
  <2>1. work[i].at = "look" /\ ~IsRole(level[i]) /\ Looked
    BY <1>1 DEF expandGitRoot, Looking, At, IsRole
  <2>2. IF CollectionPinHeld(i, Exact(work[i].g)) THEN Replay(i, Pin(i).c) ELSE Miss(i)
    BY <1>1 DEF expandGitRoot
  <2> QED  BY <2>1, <2>2, CollectionLooksInv
<1>2. CASE expandURLRoot(i)
  <2>1. work[i].at = "look" /\ ~IsRole(level[i]) /\ Looked
    BY <1>2 DEF expandURLRoot, Looking, At, IsRole
  <2>2. IF CollectionPinHeld(i, FALSE) THEN Replay(i, Pin(i).c) ELSE Miss(i)
    BY <1>2 DEF expandURLRoot
  <2> QED  BY <2>1, <2>2, CollectionLooksInv
<1>3. CASE resolveGitRole(i)
  <2>1. work[i].at = "look" /\ IsRole(level[i]) /\ Looked
    BY <1>3 DEF resolveGitRole, Looking, At, IsRole
  <2>2. IF Reads(Exact(work[i].g)) /\ replayRolePin(i) THEN Replay(i, Pin(i).c) ELSE Miss(i)
    BY <1>3 DEF resolveGitRole
  <2> QED  BY <2>1, <2>2, RoleLooksInv
<1>4. CASE resolveURLRole(i)
  <2>1. work[i].at = "look" /\ IsRole(level[i]) /\ Looked
    BY <1>4 DEF resolveURLRole, Looking, At, IsRole
  <2>2. IF Reads(FALSE) /\ replayRolePin(i) THEN Replay(i, Pin(i).c) ELSE Miss(i)
    BY <1>4 DEF resolveURLRole
  <2> QED  BY <2>1, <2>2, RoleLooksInv
<1> QED  BY <1>1, <1>2, <1>3, <1>4

LEMMA FetchInv ==
  ASSUME PinsApart, DInv, NEW i \in DOMAIN work, FetchGit(i) \/ downloadURLToTemp(i)
  PROVE  DInv'
<1> DEFINE r == level[i]
           g == work[i].g
           c == IF work[i].c = 0 THEN Serves(g) ELSE work[i].c
<1>1. /\ work[i].at = "fetch" /\ UNCHANGED <<tip, tags, saved, run, level, found, todo, last, arts, pins>>
      /\ Move(i, "store", g, c) \/ Stay(i, "failed")
  BY DEF FetchGit, downloadURLToTemp, Fetch, At, upstream
<1>2. /\ r \in Requests /\ g \in Meanings(r) /\ Repeats(r, work[i]) /\ run.mode # "offline"
      /\ work[i].c = 0 \/ work[i].c \in Numbers(g)
  BY <1>1, RequestAt DEF Under, Stays
<1>3. CASE Stay(i, "failed")
  BY <1>1, <1>2, <1>3, FailInv
<1>4. CASE Move(i, "store", g, c)
  <2>1. c \in Numbers(g)
    BY <1>2, ServesANumber DEF DInv
  <2> HIDE DEF c
  <2>2. ASSUME NEW w, w.at = "store", w.g = g, w.c = c
        PROVE  Under(r, w) /\ Repeats(r, w) /\ Stays(r, w)
    BY <1>1, <1>2, <2>1, <2>2 DEF Under, Repeats, Stays
  <2> QED  BY <1>1, <1>4, <2>2, QuietStepInv
<1> QED  BY <1>1, <1>3, <1>4

LEMMA AcquireInv ==
  ASSUME PinsApart, DInv, NEW i \in DOMAIN work, work[i].at = "store", NEW where \in {"done", "failed"},
         StoreArtifacts(i), RecordPin(i), Stay(i, where), Stored,
         where = "done" => Names(level[i], work[i].c) # {}
  PROVE  DInv'
<1> DEFINE r == level[i]
           g == work[i].g
           c == work[i].c
<1>1. /\ r \in Requests /\ g \in Meanings(r) /\ c \in Numbers(g) /\ Repeats(r, work[i]) /\ run.mode # "offline"
      /\ UNCHANGED <<tip, tags, saved, run, level, found, todo, last>>
  BY RequestAt DEF Under, Stays, Stored, upstream
<1>2. arts \subseteq arts' /\ (Writes => ArtifactsAt(r, g, c) \subseteq arts')
  BY DEF StoreArtifacts, Writes
<1>3. CASE Writes
  <2>1. pins' = WithGalaxyPin(r, g, c, Put(pins, PinKey(r, g), [c |-> c, g |-> g, label |-> LabelAt(r, g, c)]))
    BY <1>3 DEF RecordPin
  <2>2. /\ Writing(r, g, c, pins, pins')
        /\ PinKey(r, g) \in DOMAIN pins' /\ pins'[PinKey(r, g)].c = c /\ pins'[PinKey(r, g)].label = LabelAt(r, g, c)
        /\ r.kind = "galaxy" => galaxyRolePinKey(r) \in DOMAIN pins' /\ pins'[galaxyRolePinKey(r)].g = g
    BY <1>1, <1>3, <2>1, RecordWrites
  <2>3. where = "done" => Held(r, g, c, pins', arts')
    BY <1>1, <1>2, <1>3, <2>2 DEF Held
  <2>4. ASSUME NEW w, w.at = where, w.g = g, w.c = c
        PROVE  /\ Under(r, w) /\ Repeats(r, w) /\ Stays(r, w)
               /\ Writes /\ w.at = "done" => Held(r, w.g, w.c, pins', arts')
               /\ PinsLeft(r, w, pins, pins')
    <3>1. Under(r, w) /\ Repeats(r, w) /\ Stays(r, w)
      BY <1>1, <2>4 DEF Under, Repeats, Stays
    <3>2. PinsLeft(r, w, pins, pins')
      BY <1>1, <1>3, <2>2, <2>4 DEF PinsLeft, Repeats
    <3> QED  BY <2>3, <2>4, <3>1, <3>2
  <2> QED  BY <1>1, <1>2, <2>4, RequestStepInv DEF Stay
<1>4. CASE ~Writes
  <2>1. pins' = pins
    BY <1>4 DEF RecordPin
  <2>2. ASSUME NEW w, w.at = where, w.g = g, w.c = c
        PROVE  /\ Under(r, w) /\ Repeats(r, w) /\ Stays(r, w)
               /\ PinsLeft(r, w, pins, pins')
    BY <1>1, <2>1, <2>2 DEF Under, Repeats, Stays, PinsLeft
  <2> QED  BY <1>1, <1>2, <1>4, <2>2, RequestStepInv DEF Stay
<1> QED  BY <1>3, <1>4

LEMMA StoreInv ==
  ASSUME PinsApart, DInv, NEW i \in DOMAIN work,
         acquireGitRoot(i) \/ acquireURLRoot(i) \/ acquireRole(i) \/ acquireURLRole(i)
  PROVE  DInv'
<1>0. work[i].at = "store" /\ Stored
  BY DEF acquireGitRoot, acquireURLRoot, acquireRole, acquireURLRole, Storing, At
<1>1. CASE acquireGitRoot(i)
  <2> DEFINE where == IF Names(level[i], work[i].c) = {} THEN "failed" ELSE "done"
  <2>1. StoreArtifacts(i) /\ RecordPin(i) /\ Stay(i, where)
    BY <1>1 DEF acquireGitRoot
  <2>2. where \in {"done", "failed"} /\ (where = "done" => Names(level[i], work[i].c) # {})
    OBVIOUS
  <2> HIDE DEF where
  <2> QED  BY <1>0, <2>1, <2>2, AcquireInv
<1>2. CASE acquireURLRoot(i)
  <2>1. CASE Names(level[i], work[i].c) = {}
    <3>1. run.mode # "offline"
      BY <1>0, RequestAt DEF Stays
    <3>2. Stay(i, "failed") /\ UNCHANGED <<tip, tags, saved, run, level, found, todo, last, arts, pins>>
      BY <1>0, <1>2, <2>1 DEF acquireURLRoot, Stored, upstream
    <3> QED  BY <1>0, <3>1, <3>2, FailInv
  <2>2. CASE Names(level[i], work[i].c) # {}
    <3>1. Stay(i, "done") /\ StoreArtifacts(i) /\ RecordPin(i)
      BY <1>2, <2>2 DEF acquireURLRoot
    <3> QED  BY <1>0, <2>2, <3>1, AcquireInv
  <2> QED  BY <2>1, <2>2
<1>3. CASE acquireRole(i) \/ acquireURLRole(i)
  <2>1. StoreArtifacts(i) /\ RecordPin(i) /\ Stay(i, "done") /\ IsRole(level[i])
    BY <1>3 DEF acquireRole, acquireURLRole, Storing, IsRole
  <2> QED  BY <1>0, <2>1, RolesAreNamed, AcquireInv
<1> QED  BY <1>1, <1>2, <1>3

-----------------------------------------------------------------------------
(***************************************************************************)
(* A level ends and the next one starts.                                   *)
(***************************************************************************)
\* Requests that have not moved yet are where they are to be.
LEMMA FreshWork ==
  ASSUME NEW requests, Begin(requests), \A r \in DOMAIN last' : last'[r].g \in Meanings(r)
  PROVE  Working' /\ DOMAIN work' = DOMAIN level'
<1>1. DOMAIN work' = DOMAIN requests /\ level' = requests
  BY DEF Begin
<1>2. ASSUME NEW i \in DOMAIN requests
      PROVE  /\ work'[i].at = IF requests[i].kind = "galaxy" THEN "map" ELSE "look"
             /\ work'[i].g = Asked(requests[i])
  BY DEF Begin
<1>3. ASSUME NEW i \in DOMAIN requests
      PROVE  /\ Under(requests[i], work'[i])
             /\ run'.mode \in {"plain", "offline"} /\ requests[i] \in DOMAIN last' /\ work'[i].at # "map" =>
                  work'[i].g = last'[requests[i]].g
             /\ work'[i].at \in {"map", "look"}
  <2> DEFINE r == requests[i]
             w == work'[i]
  <2>1. w.g = Asked(r) /\ w.at = IF r.kind = "galaxy" THEN "map" ELSE "look"
    BY <1>2
  <2>2. r.kind # "galaxy" => Meanings(r) = {Asked(r)}
    BY DEF Meanings
  <2> HIDE DEF r, w
  <2>3. Under(r, w) /\ w.at \in {"map", "look"} /\ (r \in DOMAIN last' /\ w.at # "map" => w.g = last'[r].g)
    BY <2>1, <2>2 DEF Under
  <2> QED  BY <2>3 DEF r, w
<1>4. ASSUME NEW i \in DOMAIN work'
      PROVE  /\ Under(level'[i], work'[i]) /\ Repeats(level[i], work[i])'
             /\ Stays(level[i], work[i])' /\ Pinned(level[i], work[i])'
  BY <1>1, <1>3 DEF Repeats, Stays, Pinned
<1> QED  BY <1>1, <1>4 DEF Working

LEMMA RememberedMeans ==
  ASSUME Remembered, NEW r \in DOMAIN last
  PROVE  last[r].g \in Meanings(r)
BY DEF Remembered, MeaningKept, Held

\* A level of roles has each name once, and none that is taken.
LEMMA LevelIsDeduped ==
  ASSUME NEW taken, NEW lists, NEW s \in dedupeRoleLevel(taken, lists), NEW n \in DOMAIN s
  PROVE  /\ \E i \in DOMAIN lists : \E j \in DOMAIN lists[i] : s[n] = lists[i][j]
         /\ s[n].name \notin taken
         /\ \A m \in DOMAIN s : m # n => s[m].name # s[n].name
<1> DEFINE places == UNION {{i} \X DOMAIN lists[i] : i \in DOMAIN lists}
           at(p) == lists[p[1]][p[2]]
           kept == {p \in places : /\ at(p).name \notin taken
                                   /\ \A q \in places : Before(q, p) => at(q).name # at(p).name}
<1>1. PICK o \in [1 .. Cardinality(kept) -> kept] :
        /\ \A k, m \in DOMAIN o : k < m => Before(o[k], o[m])
        /\ s = [m \in DOMAIN o |-> at(o[m])]
  BY DEF dedupeRoleLevel
<1>2. \A p \in kept : /\ p \in places /\ at(p).name \notin taken
                      /\ \A q \in places : Before(q, p) => at(q).name # at(p).name
  OBVIOUS
<1>3. \A p \in places : p[1] \in DOMAIN lists /\ p[2] \in DOMAIN lists[p[1]]
  OBVIOUS
<1> HIDE DEF kept, places
<1>4. DOMAIN s = DOMAIN o /\ DOMAIN o \subseteq Int /\ \A m \in DOMAIN s : s[m] = at(o[m]) /\ o[m] \in kept
  BY <1>1
<1>5. \A m \in DOMAIN s : m # n => Before(o[m], o[n]) \/ Before(o[n], o[m])
  BY <1>1, <1>4
<1>6. ASSUME NEW m \in DOMAIN s, m # n
      PROVE  s[m].name # s[n].name
  BY <1>2, <1>4, <1>5, <1>6
<1> QED  BY <1>2, <1>3, <1>4, <1>6

LEMMA AllAreDone ==
  ASSUME DInv, Merge, NEW i \in DOMAIN work
  PROVE  /\ work[i].at = "done" /\ level[i] \in Requests /\ run.file \in Files
         /\ work[i].g \in Meanings(level[i]) /\ work[i].c \in Numbers(work[i].g)
         /\ Names(level[i], work[i].c) # {}
         /\ Writes => Held(level[i], work[i].g, work[i].c, pins, arts)
<1>1. work[i].at = "done"
  BY DEF Merge, Awaited, Refused
<1> QED  BY <1>1, RequestAt, LevelRequests DEF Under, Pinned, DInv

\* What was found so far stays, and each request of the level adds what it named.
LEMMA FoundGrows ==
  ASSUME DInv, Merge
  PROVE  /\ found \subseteq found'
         /\ \A f \in found' : f \in found \/ \E i \in DOMAIN work :
              f.req = level[i] /\ f.g = work[i].g /\ f.c = work[i].c /\ f.name \in Names(level[i], work[i].c)
         /\ \A i \in DOMAIN work : \E f \in found' : f.req = level[i] /\ f.g = work[i].g
<1>1. found' = Merged(AllResolved)
  BY DEF Merge
<1>2. ASSUME NEW x \in AllResolved
      PROVE  \E i \in DOMAIN work :
               x.req = level[i] /\ x.g = work[i].g /\ x.c = work[i].c /\ x.name \in Names(level[i], work[i].c)
  <2>1. PICK i \in DOMAIN work : x \in Resolved(i)
    BY DEF AllResolved
  <2>2. x.req = level[i] /\ x.g = work[i].g /\ x.c = work[i].c /\ x.name \in Names(level[i], work[i].c)
    BY <2>1 DEF Resolved
  <2> QED  BY <2>2
<1>3. ASSUME NEW f \in found, IsRole(f.req), NEW x \in AllResolved, x.name = f.name
      PROVE  FALSE
  <2>1. PICK i \in DOMAIN work : x.req = level[i] /\ x.name \in Names(level[i], work[i].c)
    BY <1>2
  <2>2. Listed(f.req) /\ run.file \in Files /\ run.phase \in {"git", "url", "roles"}
    BY LevelRequests DEF DInv, Findings
  <2>3. run.phase = "roles"
    BY <1>3, <2>2, RootsAreNoRoles DEF Listed
  <2>4. level[i] \in RoleRequests /\ level[i].name # f.name
    BY <1>3, <2>3 DEF DInv, RunStaged
  <2>5. IsRole(level[i])
    BY <2>4, DiscoveryAssumption
  <2> QED  BY <1>3, <2>1, <2>4, <2>5 DEF Names
<1>4. found \subseteq found'
  BY <1>1, <1>3 DEF Merged
<1>5. \A f \in found' : f \in found \/ f \in AllResolved
  BY <1>1 DEF Merged
<1>6. ASSUME NEW i \in DOMAIN work
      PROVE  \E f \in found' : f.req = level[i] /\ f.g = work[i].g
  <2>1. PICK n : n \in Names(level[i], work[i].c)
    BY AllAreDone
  <2> DEFINE f == [name |-> n, req |-> level[i], g |-> work[i].g, c |-> work[i].c]
  <2>2. f \in Resolved(i)
    BY <2>1 DEF Resolved
  <2>3. f \in AllResolved
    BY <2>2, AllAreDone DEF AllResolved
  <2>4. f \in found' /\ f.req = level[i] /\ f.g = work[i].g
    BY <1>1, <2>3 DEF Merged
  <2> QED  BY <2>4
<1> QED  BY <1>2, <1>4, <1>5, <1>6

LEMMA DependenciesAreRoles ==
  ASSUME NEW k \in DOMAIN DepsOf, NEW r \in ToSet(DepsOf[k])
  PROVE  r \in RoleRequests
<1> DEFINE all == {ToSet(DepsOf[x]) : x \in DOMAIN DepsOf}
<1>1. ToSet(DepsOf[k]) \in all
  OBVIOUS
<1>2. RoleRequests = (UNION {ToSet(f.roles) : f \in Files}) \cup (UNION all)
  BY DEF RoleRequests
<1> HIDE DEF all
<1>3. r \in UNION all
  BY <1>1
<1> QED  BY <1>2, <1>3

\* Where the run goes next.
LEMMA MergeGoes ==
  ASSUME DInv, Merge
  PROVE  \/ run.phase = "git" /\ run' = [run EXCEPT !.phase = "url"] /\ Begin(run.file.url)
         \/ /\ run.phase \in {"url", "roles"}
            /\ \E following : /\ Begin(following)
                              /\ \A n \in DOMAIN following : following[n] \in RoleRequests
                              /\ \A m, n \in DOMAIN following : m # n => following[m].name # following[n].name
                              /\ \A f \in found' : IsRole(f.req) => \A n \in DOMAIN following : following[n].name # f.name
                              /\ \/ following = <<>> /\ run' = [run EXCEPT !.phase = "install"]
                                 \/ run' = [run EXCEPT !.phase = "roles"]
<1> DEFINE deps == [i \in DOMAIN level |-> DepsOf[<<work[i].g.src, work[i].c>>]]
           lists == IF run.phase = "roles" THEN deps ELSE <<run.file.roles>>
<1>1. CASE run.phase = "git"
  BY <1>1 DEF Merge
<1>2. CASE run.phase # "git"
  <2>1. run.phase \in {"url", "roles"} /\ run.file \in Files
    <3>1. run.phase \in {"url", "roles"}
      BY <1>2 DEF Merge, Awaited
    <3> QED  BY <3>1 DEF DInv, RunStaged
  <2>2. PICK following \in Following(lists) :
          /\ Begin(following)
          /\ run' = [run EXCEPT !.phase = IF following = <<>> THEN "install" ELSE "roles"]
    BY <1>2 DEF Merge
  <2>3. ASSUME NEW i \in DOMAIN lists, NEW j \in DOMAIN lists[i]
        PROVE  lists[i][j] \in RoleRequests
    <3>1. CASE run.phase = "roles"
      <4>1. i \in DOMAIN work /\ lists[i] = DepsOf[<<work[i].g.src, work[i].c>>]
        BY <3>1 DEF DInv, RunStaged
      <4>2. <<work[i].g.src, work[i].c>> \in DOMAIN DepsOf
        BY <4>1, AllAreDone, DiscoveryAssumption
      <4>3. lists[i][j] \in ToSet(DepsOf[<<work[i].g.src, work[i].c>>])
        BY <4>1, <2>3 DEF ToSet
      <4> HIDE DEF lists
      <4> QED  BY <4>2, <4>3, DependenciesAreRoles
    <3>2. CASE run.phase # "roles"
      <4>1. lists[i] = run.file.roles
        BY <3>2
      <4>2. lists[i][j] \in ToSet(run.file.roles)
        BY <4>1, <2>3 DEF ToSet
      <4> HIDE DEF lists
      <4> QED  BY <2>1, <4>2 DEF RoleRequests
    <3> QED  BY <3>1, <3>2
  <2> HIDE DEF lists
  <2> DEFINE taken == {f.name : f \in RolesIn(Merged(AllResolved))}
  <2>4. following \in dedupeRoleLevel(taken, lists)
    BY <2>2 DEF Following
  <2>5. \A f \in found' : IsRole(f.req) => f.name \in taken
    BY DEF RolesIn, Merge
  <2> HIDE DEF taken
  <2>6. \A n \in DOMAIN following :
          /\ \E i \in DOMAIN lists : \E j \in DOMAIN lists[i] : following[n] = lists[i][j]
          /\ following[n].name \notin taken
          /\ \A m \in DOMAIN following : m # n => following[m].name # following[n].name
    BY <2>4, LevelIsDeduped
  <2>7. \A n \in DOMAIN following : following[n] \in RoleRequests
    BY <2>3, <2>6
  <2>8. \A f \in found' : IsRole(f.req) => \A n \in DOMAIN following : following[n].name # f.name
    BY <2>5, <2>6
  <2>9. \/ following = <<>> /\ run' = [run EXCEPT !.phase = "install"]
        \/ run' = [run EXCEPT !.phase = "roles"]
    BY <2>2
  <2> QED  BY <2>1, <2>2, <2>6, <2>7, <2>8, <2>9
<1> QED  BY <1>1, <1>2

LEMMA MergeStaged ==
  ASSUME DInv, Merge
  PROVE  RunStaged' /\ Working' /\ run'.mode = run.mode /\ run'.file = run.file
         /\ ((run.phase = "git" /\ run'.phase = "url") \/ (run.phase \in {"url", "roles"} /\ run'.phase \in {"roles", "install"}))
<1>1. /\ run.file \in Files /\ todo' \in {found', {}} /\ last' = last
      /\ run.mode \in {"plain", "refresh", "nocache", "offline"}
      /\ run = [phase |-> run.phase, mode |-> run.mode, file |-> run.file]
  BY DEF DInv, RunStaged, Merge, Awaited, IsRun
<1>2. ASSUME NEW requests, Begin(requests)
      PROVE  Working' /\ DOMAIN work' = DOMAIN level' /\ level' = requests
  BY <1>1, <1>2, FreshWork, RememberedMeans DEF DInv, Begin
<1>3. CASE run.phase = "git" /\ run' = [run EXCEPT !.phase = "url"] /\ Begin(run.file.url)
  <2>1. run'.phase = "url" /\ run'.mode = run.mode /\ run'.file = run.file
    BY <1>1, <1>3
  <2>2. IsRun(run')
    BY <1>1, <1>3 DEF IsRun
  <2>3. Working' /\ DOMAIN work' = DOMAIN level' /\ level' = run.file.url
    BY <1>2, <1>3
  <2>4. todo' \subseteq found' /\ run'.file \in Files /\ run'.mode \in {"plain", "refresh", "nocache", "offline"}
        /\ level' = run'.file.url
    BY <1>1, <2>1, <2>3
  <2>5. RunStaged'
    BY <2>1, <2>2, <2>3, <2>4 DEF RunStaged
  <2> QED  BY <1>3, <2>1, <2>3, <2>5
<1>4. CASE run.phase \in {"url", "roles"}
  <2>1. PICK following :
          /\ Begin(following)
          /\ \A n \in DOMAIN following : following[n] \in RoleRequests
          /\ \A m, n \in DOMAIN following : m # n => following[m].name # following[n].name
          /\ \A f \in found' : IsRole(f.req) => \A n \in DOMAIN following : following[n].name # f.name
          /\ \/ following = <<>> /\ run' = [run EXCEPT !.phase = "install"]
             \/ run' = [run EXCEPT !.phase = "roles"]
    BY <1>4, MergeGoes
  <2>2. /\ run'.phase = "roles" \/ (run'.phase = "install" /\ following = <<>>)
        /\ run'.mode = run.mode /\ run'.file = run.file
        /\ IsRun(run')
    <3>1. CASE following = <<>> /\ run' = [run EXCEPT !.phase = "install"]
      BY <1>1, <3>1 DEF IsRun
    <3>2. CASE run' = [run EXCEPT !.phase = "roles"]
      BY <1>1, <3>2 DEF IsRun
    <3> QED  BY <2>1, <3>1, <3>2
  <2>3. Working' /\ DOMAIN work' = DOMAIN level' /\ level' = following
    BY <1>2, <2>1
  <2>4. following = <<>> => DOMAIN following = {}
    OBVIOUS
  <2> QED  BY <1>1, <1>4, <2>1, <2>2, <2>3, <2>4 DEF RunStaged
<1> QED  BY <1>3, <1>4, MergeGoes

LEMMA MergeInv ==
  ASSUME DInv, Merge
  PROVE  DInv'
<1>0. UNCHANGED <<tip, tags, saved, pins, arts, last>>
  BY DEF Merge, upstream
<1>1. RunStaged' /\ Working' /\ run'.mode = run.mode /\ run'.file = run.file
      /\ ((run.phase = "git" /\ run'.phase = "url") \/ (run.phase \in {"url", "roles"} /\ run'.phase \in {"roles", "install"}))
  BY MergeStaged
<1>2. Served' /\ PinsKnown(saved)' /\ PinsKnown(pins)' /\ Remembered'
  BY <1>0, <1>1 DEF DInv, Served, PinsKnown, Remembered, MeaningKept
<1>3. ASSUME NEW f \in found'
      PROVE  /\ Listed(f.req)'
             /\ f.g \in Meanings(f.req) /\ f.c \in Numbers(f.g) /\ f.name \in Names(f.req, f.c)
             /\ Writes => Held(f.req, f.g, f.c, pins, arts)
             /\ run.mode \in {"plain", "offline"} /\ f.req \in DOMAIN last => f.c = last[f.req].c /\ f.g = last[f.req].g
  <2>1. CASE f \in found
    <3>1. Listed(f.req)'
      BY <1>1, <2>1 DEF DInv, Findings, Listed
    <3> QED  BY <2>1, <3>1 DEF DInv, Findings, PinHolds
  <2>2. CASE \E i \in DOMAIN work :
               f.req = level[i] /\ f.g = work[i].g /\ f.c = work[i].c /\ f.name \in Names(level[i], work[i].c)
    <3>1. PICK i \in DOMAIN work :
            f.req = level[i] /\ f.g = work[i].g /\ f.c = work[i].c /\ f.name \in Names(level[i], work[i].c)
      BY <2>2
    <3>2. Listed(f.req)'
      <4>1. i \in DOMAIN level
        BY <3>1, LevelRequests DEF DInv
      <4>2. CASE run.phase = "git"
        BY <1>1, <3>1, <4>1, <4>2 DEF DInv, RunStaged, Listed
      <4>3. CASE run.phase = "url"
        BY <1>1, <3>1, <4>1, <4>3 DEF DInv, RunStaged, Listed
      <4>4. CASE run.phase = "roles"
        BY <1>1, <3>1, <4>1, <4>4 DEF DInv, RunStaged, Listed
      <4> QED  BY <1>1, <4>2, <4>3, <4>4
    <3>3. Repeats(level[i], work[i])
      BY RequestAt
    <3> QED  BY <3>1, <3>2, <3>3, AllAreDone DEF Repeats
  <2> QED  BY <2>1, <2>2, FoundGrows
<1>4. Findings' /\ PinHolds'
  BY <1>0, <1>1, <1>3 DEF Findings, Writes, PinHolds
<1>5. Refreshing'
  <2> SUFFICES ASSUME run.mode = "refresh", NEW r \in DOMAIN last
      PROVE  MeaningKept(r, pins) \/ \E a \in Answered' : a.req = r \/ PinKey(a.req, a.g) = last[r].key
    BY <1>0, <1>1 DEF Refreshing, MeaningKept
  <2>1. \A i \in DOMAIN work : work[i].at # "failed"
    BY AllAreDone
  <2>2. MeaningKept(r, pins) \/ \E a \in Answered : a.req = r \/ PinKey(a.req, a.g) = last[r].key
    BY <2>1 DEF DInv, Refreshing
  <2>3. ASSUME NEW a \in Answered
        PROVE  a \in Answered'
    <3>1. CASE \E f \in found : a = [req |-> f.req, g |-> f.g]
      BY <3>1, FoundGrows DEF Answered
    <3>2. CASE \E i \in DOMAIN work : a = [req |-> level[i], g |-> work[i].g]
      <4>1. PICK i \in DOMAIN work : a = [req |-> level[i], g |-> work[i].g]
        BY <3>2
      <4>2. PICK f \in found' : f.req = level[i] /\ f.g = work[i].g
        BY <4>1, FoundGrows
      <4>3. a = [req |-> f.req, g |-> f.g]
        BY <4>1, <4>2
      <4> QED  BY <4>3 DEF Answered
    <3> QED  BY <3>1, <3>2 DEF Answered
  <2> QED  BY <2>2, <2>3
<1> QED  BY <1>1, <1>2, <1>4, <1>5 DEF DInv

-----------------------------------------------------------------------------
(***************************************************************************)
(* A run ends, and what goes on between runs.                              *)
(***************************************************************************)
LEMMA AbandonInv ==
  ASSUME DInv, Abandon
  PROVE  DInv'
<1>1. /\ run' = NoRun /\ pins' = saved /\ saved' = saved /\ found' = {} /\ todo' = {} /\ Begin(<<>>)
      /\ UNCHANGED <<tip, tags, arts, last>>
  BY DEF Abandon, KeptByFailure, upstream
<1>2. run'.phase = "idle" /\ run'.mode = "plain" /\ IsRun(run')
  BY <1>1 DEF NoRun, IsRun
<1>3. Working' /\ DOMAIN work' = DOMAIN level' /\ DOMAIN work' = {}
  <2>1. Working' /\ DOMAIN work' = DOMAIN level'
    BY <1>1, FreshWork, RememberedMeans DEF DInv
  <2>2. level' = <<>>
    BY <1>1 DEF Begin
  <2> QED  BY <2>1, <2>2
<1>4. RunStaged'
  BY <1>1, <1>2, <1>3 DEF RunStaged
<1>5. Served' /\ PinsKnown(saved)' /\ PinsKnown(pins)' /\ Remembered'
  BY <1>1, <1>2 DEF DInv, Served, PinsKnown, Remembered, MeaningKept
<1>6. Findings' /\ Refreshing' /\ PinHolds'
  BY <1>1, <1>2 DEF Findings, Refreshing, PinHolds
<1> QED  BY <1>3, <1>4, <1>5, <1>6 DEF DInv

LEMMA FinishedInv ==
  ASSUME DInv, Finish
  PROVE  DInv'
<1>1. /\ run.phase = "install" /\ run' = NoRun /\ saved' = pins /\ found' = {} /\ todo = {}
      /\ UNCHANGED <<tip, tags, pins, arts, level, work, todo>>
      /\ last' = IF Writes THEN Meant ELSE last
  BY DEF Finish, upstream
<1>2. run'.phase = "idle" /\ run'.mode = "plain" /\ IsRun(run')
  BY <1>1 DEF NoRun, IsRun
<1>3. DOMAIN work = {} /\ DOMAIN work = DOMAIN level /\ run.mode \in {"plain", "refresh", "nocache", "offline"}
      /\ run.file \in Files
  BY <1>1 DEF DInv, RunStaged
<1>4. RunStaged'
  BY <1>1, <1>2, <1>3 DEF RunStaged
<1>5. ASSUME NEW r \in DOMAIN last'
      PROVE  r \in Requests /\ last'[r].key = PinKey(r, last'[r].g) /\ Held(r, last'[r].g, last'[r].c, pins, arts)
  <2>1. CASE ~Writes
    <3>1. last' = last /\ pins = saved
      BY <1>1, <1>3, <2>1 DEF DInv, Remembered, Writes
    <3> QED  BY <3>1 DEF DInv, Remembered, MeaningKept
  <2>2. CASE Writes
    <3> DEFINE asked == {f.req : f \in found}
               moved == {PinKey(f.req, f.g) : f \in found}
               kept == {q \in DOMAIN last \ asked : run.mode = "refresh" => last[q].key \notin moved}
               of == CHOOSE f \in found : f.req = r
    <3>1. /\ r \in kept \cup asked
          /\ r \in asked => last'[r] = [c |-> of.c, g |-> of.g, key |-> PinKey(r, of.g)]
          /\ r \notin asked => last'[r] = last[r]
      BY <1>1, <2>2 DEF Meant
    <3>2. CASE r \in asked
      <4>1. of \in found /\ of.req = r
        BY <3>2
      <4> HIDE DEF of
      <4>2. last'[r].c = of.c /\ last'[r].g = of.g /\ last'[r].key = PinKey(r, of.g)
        BY <3>1, <3>2
      <4>3. Listed(r) /\ Held(r, of.g, of.c, pins, arts)
        BY <2>2, <4>1 DEF DInv, Findings
      <4> QED  BY <1>3, <4>2, <4>3, ListedIsRequest
    <3>3. CASE r \notin asked
      <4>1. r \in DOMAIN last /\ last'[r] = last[r] /\ (run.mode = "refresh" => last[r].key \notin moved)
        BY <3>1, <3>3
      <4>2. r \in Requests /\ last[r].key = PinKey(r, last[r].g)
        BY <4>1 DEF DInv, Remembered
      <4>3. CASE run.mode = "plain"
        BY <4>1, <4>2, <4>3 DEF DInv, Remembered, MeaningKept
      <4>4. CASE run.mode = "refresh"
        <5>1. MeaningKept(r, pins) \/ \E a \in Answered : a.req = r \/ PinKey(a.req, a.g) = last[r].key
          BY <1>3, <4>1, <4>4 DEF DInv, Refreshing
        <5>2. \A a \in Answered : a.req \in asked /\ PinKey(a.req, a.g) \in moved
          BY <1>3 DEF Answered
        <5> QED  BY <3>3, <4>1, <4>2, <4>4, <5>1, <5>2 DEF MeaningKept
      <4> QED  BY <2>2, <4>3, <4>4 DEF Writes
    <3> QED  BY <3>2, <3>3
  <2> QED  BY <2>1, <2>2
<1>6. Remembered'
  BY <1>1, <1>2, <1>5 DEF Remembered, MeaningKept
<1>7. Served' /\ PinsKnown(saved)' /\ PinsKnown(pins)' /\ Working'
  BY <1>1, <1>3 DEF DInv, Served, PinsKnown, Working
<1>8. Findings' /\ Refreshing' /\ PinHolds'
  BY <1>1, <1>2 DEF Findings, Refreshing, PinHolds
<1> QED  BY <1>4, <1>6, <1>7, <1>8 DEF DInv

LEMMA InstallInv ==
  ASSUME DInv, NEW f \in todo, installRole(f) \/ InstallCollection(f)
  PROVE  DInv'
<1>1. /\ run.phase = "install" /\ todo' \subseteq todo /\ arts \subseteq arts'
      /\ UNCHANGED <<tip, tags, saved, pins, run, level, work, found, last>>
  BY DEF installRole, InstallCollection, Installing, fetchRoleArtifact, upstream
<1>2. DOMAIN work = {}
  BY <1>1 DEF DInv, RunStaged
<1>3. Served' /\ RunStaged' /\ PinsKnown(saved)' /\ PinsKnown(pins)' /\ PinHolds' /\ Working'
  <2>1. Served' /\ PinsKnown(saved)' /\ PinsKnown(pins)' /\ PinHolds'
    BY <1>1 DEF DInv, Served, PinsKnown, PinHolds
  <2>2. RunStaged'
    BY <1>1 DEF DInv, RunStaged
  <2> QED  BY <1>1, <1>2, <2>1, <2>2 DEF Working
<1>4. \A r, p : MeaningKept(r, p) => Held(r, last[r].g, last[r].c, p, arts')
  BY <1>1, HeldLonger DEF MeaningKept
<1>5. Remembered' /\ Refreshing'
  <2>1. Answered' = Answered
    BY <1>1 DEF Answered
  <2>2. Remembered'
    BY <1>1, <1>4 DEF DInv, Remembered, MeaningKept
  <2> QED  BY <1>1, <1>4, <2>1, <2>2 DEF DInv, Refreshing, MeaningKept
<1>6. Findings'
  BY <1>1, HeldLonger DEF DInv, Findings, Listed, Writes
<1> QED  BY <1>3, <1>5, <1>6 DEF DInv

LEMMA StartRunInv ==
  ASSUME DInv, NEW mode \in Modes, NEW file \in Files, StartRun(mode, file)
  PROVE  DInv'
<1>1. /\ run.phase = "idle" /\ run' = [phase |-> "git", mode |-> mode, file |-> file] /\ Begin(file.git)
      /\ UNCHANGED <<tip, tags, saved, pins, arts, found, todo, last>>
  BY DEF StartRun, upstream
<1>2. run'.phase = "git" /\ run'.mode = mode /\ run'.file = file /\ mode \in {"plain", "refresh", "nocache", "offline"}
      /\ IsRun(run')
  BY <1>1, DiscoveryAssumption DEF IsRun
<1>3. pins = saved /\ found = {} /\ todo \subseteq found
  BY <1>1 DEF DInv, RunStaged
<1>4. Working' /\ DOMAIN work' = DOMAIN level' /\ level' = file.git
  BY <1>1, FreshWork, RememberedMeans DEF DInv, Begin
<1>5. RunStaged'
  BY <1>1, <1>2, <1>3, <1>4 DEF RunStaged
<1>6. Served' /\ PinsKnown(saved)' /\ PinsKnown(pins)'
  BY <1>1 DEF DInv, Served, PinsKnown
<1>7. Remembered' /\ Refreshing'
  BY <1>1, <1>3 DEF DInv, Remembered, Refreshing, MeaningKept
<1>8. Findings' /\ PinHolds'
  BY <1>1, <1>3 DEF Findings, PinHolds
<1> QED  BY <1>4, <1>5, <1>6, <1>7, <1>8 DEF DInv

LEMMA UpstreamInv ==
  ASSUME DInv, UNCHANGED <<saved, pins, arts, run, level, work, found, todo, last>>, Served'
  PROVE  DInv'
<1>1. RunStaged' /\ PinsKnown(saved)' /\ PinsKnown(pins)' /\ PinHolds'
  BY DEF DInv, RunStaged, PinsKnown, PinHolds
<1>2. Remembered' /\ Refreshing'
  BY DEF DInv, Remembered, MeaningKept, Refreshing, Answered
<1>3. Working'
  BY DEF DInv, Working, Under, Repeats, Stays, Pinned, Writes
<1>4. Findings'
  BY DEF DInv, Findings, Listed, Writes
<1> QED  BY <1>1, <1>2, <1>3, <1>4 DEF DInv

LEMMA MoveHeadServes ==
  ASSUME DInv, NEW h \in Moving, MoveHead(h)
  PROVE  Served'
<1>1. h \in Heads /\ FirstTip[h] \in Nat /\ MaxTip \in Nat
  BY DiscoveryAssumption
<1>2. tip[h] \in Tips(h) /\ tip[h] < MaxTip /\ tip' = [tip EXCEPT ![h] = tip[h] + 1] /\ tags' = tags
  BY <1>1 DEF DInv, Served, MoveHead
<1>3. tip[h] + 1 \in Tips(h)
  BY <1>1, <1>2 DEF Tips
<1> QED  BY <1>1, <1>2, <1>3 DEF DInv, Served

LEMMA PublishServes ==
  ASSUME DInv, Publish
  PROVE  Served'
<1>1. tags \in 1 .. Len(TagLists) /\ Len(TagLists) \in Nat /\ DOMAIN TagLists = 1 .. Len(TagLists)
  BY DiscoveryAssumption DEF DInv, Served
<1>2. tags < Len(TagLists) /\ tags' = tags + 1 /\ tip' = tip
  BY DEF Publish
<1> QED  BY <1>1, <1>2 DEF DInv, Served

\* Between runs there is nothing under way.
LEMMA IdleInv ==
  ASSUME DInv, run.phase = "idle", UNCHANGED <<tip, tags, run, level, work, found, todo>>,
         pins' = saved', PinsKnown(saved)',
         \A r \in DOMAIN last' :
           r \in Requests /\ last'[r].key = PinKey(r, last'[r].g) /\ Held(r, last'[r].g, last'[r].c, saved', arts')
  PROVE  DInv'
<1>1. DOMAIN work = {} /\ found = {} /\ run.mode = "plain"
  BY DEF DInv, RunStaged
<1>2. Served' /\ RunStaged' /\ PinsKnown(pins)'
  BY <1>1 DEF DInv, Served, RunStaged, PinsKnown
<1>3. Remembered' /\ Working' /\ Findings' /\ Refreshing' /\ PinHolds'
  BY <1>1 DEF Remembered, MeaningKept, Working, Findings, Refreshing, PinHolds
<1> QED  BY <1>2, <1>3 DEF DInv

LEMMA PurgeInv ==
  ASSUME DInv, NEW a \in arts, Purge(a)
  PROVE  DInv'
<1>1. /\ run.phase = "idle" /\ arts' = arts \ {a}
      /\ last' = [r \in {q \in DOMAIN last : IsRole(q) => a \notin ArtifactsAt(q, last[q].g, last[q].c)} |-> last[r]]
      /\ UNCHANGED <<tip, tags, saved, pins, run, level, work, found, todo>>
  BY DEF Purge, upstream
<1>2. pins' = saved' /\ PinsKnown(saved)'
  BY <1>1 DEF DInv, RunStaged, PinsKnown
<1>3. ASSUME NEW r \in DOMAIN last'
      PROVE  r \in Requests /\ last'[r].key = PinKey(r, last'[r].g) /\ Held(r, last'[r].g, last'[r].c, saved', arts')
  <2>1. r \in DOMAIN last /\ last'[r] = last[r] /\ (IsRole(r) => a \notin ArtifactsAt(r, last[r].g, last[r].c))
    BY <1>1
  <2>2. r \in Requests /\ last[r].key = PinKey(r, last[r].g) /\ Held(r, last[r].g, last[r].c, saved, arts)
    BY <2>1 DEF DInv, Remembered, MeaningKept
  <2> QED  BY <1>1, <2>1, <2>2 DEF Held
<1> QED  BY <1>1, <1>2, <1>3, IdleInv

LEMMA ClearInv ==
  ASSUME DInv, Clear
  PROVE  DInv'
<1>1. /\ run.phase = "idle" /\ saved' = Empty /\ pins' = Empty /\ last' = Empty
      /\ UNCHANGED <<tip, tags, run, level, work, found, todo>>
  BY DEF Clear, upstream
<1>2. DOMAIN Empty = {}
  BY DEF Empty
<1>3. PinsKnown(saved)'
  BY <1>1, <1>2 DEF PinsKnown
<1> QED  BY <1>1, <1>2, <1>3, IdleInv

LEMMA DInvInit ==
  ASSUME DiscoveryInit
  PROVE  DInv
<1>1. DOMAIN Empty = {} /\ DOMAIN <<>> = {} /\ NoRun.phase = "idle" /\ NoRun.mode = "plain" /\ IsRun(NoRun)
  BY DEF Empty, NoRun, IsRun
<1>2. Served
  BY DiscoveryAssumption DEF DiscoveryInit, Served, Tips
<1>3. RunStaged
  BY <1>1 DEF DiscoveryInit, RunStaged
<1>4. PinsKnown(saved) /\ PinsKnown(pins) /\ Remembered
  BY <1>1 DEF DiscoveryInit, PinsKnown, Remembered
<1>5. Working /\ Findings /\ Refreshing /\ PinHolds
  BY <1>1 DEF DiscoveryInit, Working, Findings, Refreshing, PinHolds
<1> QED  BY <1>2, <1>3, <1>4, <1>5 DEF DInv

LEMMA DInvNext ==
  ASSUME PinsApart, DInv, [DiscoveryNext]_discoveryVars
  PROVE  DInv'
<1>1. CASE UNCHANGED discoveryVars
  <2>1. Served' /\ UNCHANGED <<saved, pins, arts, run, level, work, found, todo, last>>
    BY <1>1 DEF discoveryVars, DInv, Served
  <2> QED  BY <2>1, UpstreamInv
<1>2. ASSUME NEW i \in DOMAIN work,
             \/ resolveGalaxyRole(i) \/ resolveGitRole(i) \/ resolveURLRole(i)
             \/ expandGitRoot(i) \/ expandURLRoot(i)
             \/ FetchGit(i) \/ downloadURLToTemp(i)
             \/ acquireGitRoot(i) \/ acquireURLRoot(i) \/ acquireRole(i) \/ acquireURLRole(i)
      PROVE  DInv'
  BY <1>2, ResolveGalaxyRoleInv, LookInv, FetchInv, StoreInv
<1>3. CASE Merge
  BY <1>3, MergeInv
<1>4. CASE Refuse \/ Crash
  BY <1>4, AbandonInv DEF Refuse, Crash
<1>5. CASE Finish
  BY <1>5, FinishedInv
<1>6. ASSUME NEW f \in todo, installRole(f) \/ InstallCollection(f)
      PROVE  DInv'
  BY <1>6, InstallInv
<1>7. ASSUME NEW mode \in Modes, NEW file \in Files, StartRun(mode, file)
      PROVE  DInv'
  BY <1>7, StartRunInv
<1>8. ASSUME NEW h \in Moving, MoveHead(h)
      PROVE  DInv'
  <2>1. UNCHANGED <<saved, pins, arts, run, level, work, found, todo, last>>
    BY <1>8 DEF MoveHead
  <2> QED  BY <1>8, <2>1, MoveHeadServes, UpstreamInv
<1>9. CASE Publish
  <2>1. UNCHANGED <<saved, pins, arts, run, level, work, found, todo, last>>
    BY <1>9 DEF Publish
  <2> QED  BY <1>9, <2>1, PublishServes, UpstreamInv
<1>10. ASSUME NEW a \in arts, Purge(a)
       PROVE  DInv'
  BY <1>10, PurgeInv
<1>11. CASE Clear
  BY <1>11, ClearInv
<1>12. ASSUME NEW n \in Handmade, Handwritten(n)
       PROVE  DInv'
  <2>1. Served' /\ UNCHANGED <<saved, pins, arts, run, level, work, found, todo, last>>
    BY <1>12 DEF Handwritten, upstream, DInv, Served
  <2> QED  BY <2>1, UpstreamInv
<1> QED  BY <1>1, <1>2, <1>3, <1>4, <1>5, <1>6, <1>7, <1>8, <1>9, <1>10, <1>11, <1>12 DEF DiscoveryNext

(* Every reachable state keeps the meanings the saved snapshot stands for, *)
(* provided that requests which share a pin share one that does not move.  *)
THEOREM MeaningsAreKept == PinsApart /\ DiscoverySpec => []DInv
<1> DEFINE I == PinsApart /\ DInv
<1>1. I /\ [DiscoveryNext]_discoveryVars => I'
  BY DInvNext
<1>2. PinsApart /\ DiscoveryInit => I
  BY DInvInit
<1>3. I => DInv
  OBVIOUS
<1> HIDE DEF I
<1> QED  BY <1>1, <1>2, <1>3, PTL DEF DiscoverySpec

(* Of files whose requests share no moving pin: a request repeats what it  *)
(* meant in the last run that saved it, whatever moved upstream since,     *)
(* unless it was refreshed, the cache was cleared, or it asks for a role   *)
(* whose artifact was taken away in between, which the code looks up anew. *)
THEOREM RequestsRepeat == PinsApart /\ DiscoverySpec => []PinHolds
<1>1. DInv => PinHolds
  BY DEF DInv
<1> QED  BY <1>1, MeaningsAreKept, PTL

(* Of files whose requests share no moving pin: --offline refuses nothing  *)
(* that a saved run resolved, but a role whose artifact is gone: that one  *)
(* the code does refuse.                                                   *)
THEOREM OfflineRefusesNothingKept == PinsApart /\ DiscoverySpec => []OfflineRepeats
<1>1. DInv => OfflineRepeats
  BY DEF DInv, Working, Stays, OfflineRepeats
<1> QED  BY <1>1, MeaningsAreKept, PTL

\* What is still to install is among what was found.
LEMMA TodoIsFound ==
  ASSUME todo \subseteq found, [DiscoveryNext]_discoveryVars
  PROVE  todo' \subseteq found'
<1>1. CASE UNCHANGED discoveryVars
  BY <1>1 DEF discoveryVars
<1>2. ASSUME NEW i \in DOMAIN work,
             \/ resolveGalaxyRole(i) \/ resolveGitRole(i) \/ resolveURLRole(i)
             \/ expandGitRoot(i) \/ expandURLRoot(i)
             \/ FetchGit(i) \/ downloadURLToTemp(i)
             \/ acquireGitRoot(i) \/ acquireURLRoot(i) \/ acquireRole(i) \/ acquireURLRole(i)
      PROVE  todo' = todo /\ found' = found
  BY <1>2 DEF resolveGalaxyRole, resolveGitRole, resolveURLRole, expandGitRoot, expandURLRoot, FetchGit,
              downloadURLToTemp, Fetch, acquireGitRoot, acquireURLRoot, acquireRole, acquireURLRole, Looked, Stored
<1>3. CASE Merge
  BY <1>3 DEF Merge
<1>4. CASE Refuse \/ Crash \/ Finish
  BY <1>4 DEF Refuse, Crash, Abandon, Finish
<1>5. ASSUME NEW f \in todo, installRole(f) \/ InstallCollection(f)
      PROVE  todo' \subseteq todo /\ found' = found
  BY <1>5 DEF installRole, InstallCollection, Installing
<1>6. CASE \/ \E mode \in Modes, file \in Files : StartRun(mode, file)
           \/ \E h \in Moving : MoveHead(h)
           \/ Publish \/ Clear
           \/ \E a \in arts : Purge(a)
           \/ \E n \in Handmade : Handwritten(n)
  BY <1>6 DEF StartRun, MoveHead, Publish, Clear, Purge, Handwritten
<1> QED  BY <1>1, <1>2, <1>3, <1>4, <1>5, <1>6 DEF DiscoveryNext

\* An install writes what was resolved, whatever it had to fetch again.
LEMMA InstallWritesWhatWasFound ==
  ASSUME todo \subseteq found, NEW f \in todo, installRole(f) \/ InstallCollection(f),
         NEW n, disk'[n] # disk[n]
  PROVE  \E x \in found : x.name = n /\ disk'[n] = roleArtifactKey(x)
<1>1. disk' # disk
  OBVIOUS
<1>2. fetchRoleArtifact(f)
  BY <1>1 DEF installRole, InstallCollection
<1>3. PICK c \in {f.c} : disk' = [disk EXCEPT ![f.name] = [roleArtifactKey(f) EXCEPT !.c = c]]
  BY <1>1, <1>2 DEF fetchRoleArtifact, Unpack, Refetched
<1>4. [roleArtifactKey(f) EXCEPT !.c = c] = roleArtifactKey(f)
  BY <1>3 DEF roleArtifactKey, Artifact
<1>5. n = f.name /\ disk'[n] = roleArtifactKey(f)
  BY <1>3, <1>4
<1> QED  BY <1>5

(* What a run installs is what its dependencies were read from, at any     *)
(* speed of upstream.                                                      *)
THEOREM InstallsWhatWasRead == DiscoverySpec => InstalledIsRead
<1> DEFINE I == todo \subseteq found
           A == \A n \in InstallNames : disk'[n] # disk[n] /\ run.phase = "install" =>
                  \E f \in found : f.name = n /\ disk'[n] = roleArtifactKey(f)
<1>1. I /\ [DiscoveryNext]_discoveryVars => I'
  BY TodoIsFound
<1>2. DiscoveryInit => I
  BY DEF DiscoveryInit
<1>3. ASSUME todo \subseteq found, [DiscoveryNext]_discoveryVars, NEW n \in InstallNames,
             disk'[n] # disk[n], run.phase = "install"
      PROVE  \E f \in found : f.name = n /\ disk'[n] = roleArtifactKey(f)
  <2>1. CASE \E f \in todo : installRole(f) \/ InstallCollection(f)
    BY <1>3, <2>1, InstallWritesWhatWasFound
  <2>2. CASE \E i \in DOMAIN work : acquireGitRoot(i) \/ acquireURLRoot(i) \/ acquireRole(i) \/ acquireURLRole(i)
    BY <1>3, <2>2 DEF acquireGitRoot, acquireURLRoot, acquireRole, acquireURLRole, Stored
  <2>3. CASE \E i \in DOMAIN work : \/ resolveGalaxyRole(i) \/ resolveGitRole(i) \/ resolveURLRole(i)
                                    \/ expandGitRoot(i) \/ expandURLRoot(i) \/ FetchGit(i) \/ downloadURLToTemp(i)
    BY <1>3, <2>3 DEF resolveGalaxyRole, resolveGitRole, resolveURLRole, expandGitRoot, expandURLRoot, FetchGit,
                      downloadURLToTemp, Fetch, Looked
  <2>4. CASE \/ Merge \/ Refuse \/ Finish \/ Crash
             \/ \E mode \in Modes, file \in Files : StartRun(mode, file)
             \/ \E h \in Moving : MoveHead(h)
             \/ Publish \/ Clear
             \/ \E a \in arts : Purge(a)
    BY <1>3, <2>4 DEF Merge, Refuse, Finish, Crash, Abandon, StartRun, MoveHead, Publish, Clear, Purge
  <2>5. CASE \E m \in Handmade : Handwritten(m)
    BY <1>3, <2>5 DEF Handwritten
  <2>6. CASE UNCHANGED discoveryVars
    BY <1>3, <2>6 DEF discoveryVars
  <2> QED  BY <1>3, <2>1, <2>2, <2>3, <2>4, <2>5, <2>6 DEF DiscoveryNext
<1>4. I /\ [DiscoveryNext]_discoveryVars => [A]_discoveryVars
  BY <1>3
<1> HIDE DEF A, I
<1>5. DiscoverySpec => [][A]_discoveryVars
  BY <1>1, <1>2, <1>4, PTL DEF DiscoverySpec
<1> QED  BY <1>5 DEF InstalledIsRead, A
=============================================================================
