------------------------------ MODULE Attempts ------------------------------
(***************************************************************************)
(* What one run makes of its network: every request is tried a bounded     *)
(* number of times under contexts that end for four different reasons      *)
(* (the user's signal, the loss of the cache lock, the operation's own     *)
(* budget, the stall watchdog), and the error that is left at the end is   *)
(* read once, by FromError, to choose the exit code.                       *)
(*                                                                         *)
(* An error is the SET of sentinels errors.Is finds in it: "%w" unites two *)
(* sets, "%v" leaves only the sentinel in front of it.  A run is a row of  *)
(* stages, each a set of operations: open the S3 cache, load the snapshot, *)
(* empty the cache (only under --clear-cache), record the project, page    *)
(* through a versions list, fetch version metadata, download the artifacts *)
(* side by side, save the snapshot.  An artifact is downloaded ahead by    *)
(* the prefetcher, whose failure is a warning, or by its worker, which     *)
(* downloads again after such a warning.                                   *)
(***************************************************************************)
EXTENDS Naturals, Sequences, FiniteSets

CONSTANTS
  Open, Load, Clearing, Record, Paging, Metadata, Save,   \* made one at a time
  Artifacts,                                              \* downloads made side by side
  MaxTries,                                               \* RetryPolicy.MaxAttempts
  MaxRequests                                             \* bound: requests of one operation

Single == {Open, Load, Clearing, Record, Paging, Metadata, Save}
Ops == Single \cup Artifacts
S3 == {Open, Load, Clearing, Record, Save}

ASSUME AttemptsAssumption ==
  /\ MaxTries \in Nat \ {0} /\ MaxRequests \in Nat \ {0, 1}
  /\ Artifacts \cap Single = {} /\ Cardinality(S3) = 5
  /\ Paging # Metadata /\ {Paging, Metadata} \cap S3 = {}

VARIABLES
  canceled,   \* the command's own context was canceled by a signal
  lost,       \* the holder context was canceled because the lock is gone
  op,         \* per operation, where it stands
  stage,      \* index into Stages, or Len(Stages) + 1 when only the verdict is left
  outcome,    \* the run's error
  verdict,    \* what FromError answers
  mismatch    \* history: a worker's own download did not match its sha256

vars == <<canceled, lost, op, stage, outcome, verdict, mismatch>>

Stages == <<{Open}, {Load}, {Clearing}, {Record}, {Paging}, {Metadata}, Artifacts, {Save}>>

Sentinels == {"canceled", "expired",           \* context.Canceled, context.DeadlineExceeded
              "deadline", "stalled", "sha",    \* this operation's own budget, ErrReadStalled, ErrSHA256Mismatch
              "transport", "status",           \* no response came, a status worth retrying
              "refused", "wire"}               \* an answer no retry changes, any other failure

(* own is ctx.Err() of the operation's own context, outer that of the one  *)
(* budget a versions list spends across its pages; request counts the      *)
(* requests an operation has finished, tries the attempts at this one; an  *)
(* artifact's request 0 is the prefetcher's download, 1 its worker's.      *)
Idle == [at |-> "idle", own |-> "live", outer |-> "live", tries |-> 0, request |-> 0,
         drips |-> FALSE, fired |-> FALSE, err |-> {}]

HolderLive == ~canceled /\ ~lost
Active(o) == op[o].at \notin {"idle", "done"}
Prefetching(o) == o \in Artifacts /\ op[o].request = 0
Stopped(o) == op[o].fired \/ op[o].own # "live"
ParentLive(o) == IF o = Paging THEN op[o].outer = "live" ELSE HolderLive

(* Open's bucket creation and its conditional writes are never retried:    *)
(* the first one may have landed.                                          *)
SingleShot(o) == o = Open /\ op[o].request > 0

(* Mutant: LoadStore is passed through like ClearFiles.                    *)
BudgetedButLoad(o) == o \notin {Open, Clearing, Load}

(* WithStateDeadline bounds the snapshot and the registry, and passes Open *)
(* and --clear-cache's bulk delete through; the Galaxy requests have       *)
(* budgets of their own.                                                   *)
Budgeted(o) == o \notin {Open, Clearing}

----------------------------------------------------------------------------
(* The errors.                                                             *)

(* Mutant: only an expired context counts as the budget's work, and a read *)
(* that the watchdog canceled meanwhile passes as it is.                   *)
DeadlineErrorExpiredOnly(parentLive, own, err) ==
  IF parentLive /\ own = "expired" /\ "expired" \in err /\ "deadline" \notin err
  THEN {"deadline"} ELSE err

(* deadlineError: the budget is blamed once, only for a failure a context  *)
(* caused, only when the budget did end and the caller's context did not.  *)
DeadlineError(parentLive, own, err) ==
  IF parentLive /\ own = "expired" /\ err \cap {"expired", "canceled"} # {} /\ "deadline" \notin err
  THEN {"deadline"} ELSE err

(* Mutant: a digest mismatch is relabelled like every other failure.       *)
ArtifactDeadlineErrorAny(parentLive, own, err) ==
  IF parentLive /\ own = "expired" /\ err # {} THEN {"deadline"} ELSE err

(* artifactDeadlineError: as above, for any cause but a digest mismatch.   *)
ArtifactDeadlineError(parentLive, own, err) ==
  IF parentLive /\ own = "expired" /\ err # {} /\ err \cap {"deadline", "sha"} = {}
  THEN {"deadline"} ELSE err

(* do and the download functions: a failed round trip is a transport       *)
(* failure; S3 asks first whether its own context ended, a metadata GET    *)
(* never says so.                                                          *)
Dialed(o, err) ==
  IF o \in Artifacts \/ (o \in S3 /\ op[o].own = "live") THEN err \cup {"transport"} ELSE err

(* downloadRetryable, fetchRetryable and s3Retryable.                      *)
DownloadRetryable(err) ==
  /\ "deadline" \notin err
  /\ \/ "stalled" \in err
     \/ err \cap {"canceled", "expired", "sha"} = {} /\ err \cap {"transport", "status"} # {}

FetchRetryable(err) ==
  /\ "deadline" \notin err
  /\ \/ "stalled" \in err
     \/ err \cap {"canceled", "expired"} = {} /\ "status" \in err

S3Retryable(own, err) ==
  \/ "stalled" \in err
  \/ IF "transport" \in err THEN own = "live" ELSE "status" \in err

Retryable(o) ==
  IF o \in S3 THEN S3Retryable(op[o].own, op[o].err)
  ELSE IF o \in Artifacts THEN DownloadRetryable(op[o].err)
  ELSE FetchRetryable(op[o].err)

(* The label an attempt's error gets inside the retry loop, and the one    *)
(* the operation's error gets when it leaves.                              *)
AttemptLabel(o) ==
  IF o \in S3 THEN op[o].err
  ELSE IF o \in Artifacts THEN ArtifactDeadlineError(ParentLive(o), op[o].own, op[o].err)
  ELSE DeadlineError(ParentLive(o), op[o].own, op[o].err)

FinalLabel(o) ==
  IF ~Budgeted(o) THEN op[o].err
  ELSE IF o \in Artifacts THEN ArtifactDeadlineError(ParentLive(o), op[o].own, op[o].err)
  ELSE DeadlineError(ParentLive(o), op[o].own, op[o].err)

(* FromError's precedence, as far as the properties tell classes apart.    *)
FromError(err) ==
  IF err = {} THEN "ok"
  ELSE IF "canceled" \in err THEN "interrupt"
  ELSE IF "sha" \in err THEN "integrity"
  ELSE "failed"

----------------------------------------------------------------------------
Init ==
  /\ canceled = FALSE /\ lost = FALSE
  /\ op = [o \in Ops |-> Idle]
  /\ stage = 1
  /\ outcome = {} /\ verdict = "none" /\ mismatch = FALSE

(* The end of the holder context reaches every context derived from it.    *)
Severed(o) ==
  IF ~Active(o) THEN op[o]
  ELSE [op[o] EXCEPT !.own = IF @ = "live" THEN "canceled" ELSE @,
                     !.outer = IF @ = "live" THEN "canceled" ELSE @]

Cancel ==
  /\ verdict = "none" /\ ~canceled
  /\ canceled' = TRUE
  /\ op' = [o \in Ops |-> Severed(o)]
  /\ UNCHANGED <<lost, stage, outcome, verdict, mismatch>>

Lose ==
  /\ verdict = "none" /\ HolderLive /\ stage > 1
  /\ lost' = TRUE
  /\ op' = [o \in Ops |-> Severed(o)]
  /\ UNCHANGED <<canceled, stage, outcome, verdict, mismatch>>

Step(o, r) ==
  /\ op' = [op EXCEPT ![o] = r]
  /\ UNCHANGED <<canceled, lost, stage, outcome, verdict, mismatch>>

Expire(o) ==
  /\ Active(o) /\ Budgeted(o) /\ op[o].own = "live"
  /\ Step(o, [op[o] EXCEPT !.own = "expired"])

(* The paging budget ends every page request's context with it.            *)
ExpirePaging ==
  /\ Active(Paging) /\ op[Paging].outer = "live"
  /\ Step(Paging, [op[Paging] EXCEPT !.outer = "expired",
                                     !.own = IF @ = "live" THEN "expired" ELSE @])

Begun(n) ==
  LET live == IF HolderLive THEN "live" ELSE "canceled"
  IN  [Idle EXCEPT !.at = "send", !.own = live, !.outer = live, !.request = n]

(* There is no prefetch under --no-cache, nor a download by it when it     *)
(* could not get the metadata.                                             *)
Start(o) ==
  /\ verdict = "none" /\ stage <= Len(Stages) /\ o \in Stages[stage]
  /\ op[o].at = "idle"
  /\ \E n \in {0, 1} : (n = 1 => o \in Artifacts) /\ Step(o, Begun(n))

(* One round trip.  ok is where a good answer leads; the body of a bad one *)
(* is read for its Code only by the S3 client.  A dial or header timeout   *)
(* of the transport matches DeadlineExceeded though no budget ended.       *)
RoundTrip(o, ok) ==
  /\ op[o].at = "send"
  /\ IF op[o].own # "live"
     THEN Step(o, [op[o] EXCEPT !.at = "dialed", !.err = {op[o].own}])
     ELSE \/ \E r \in ok : Step(o, r)
          \/ \E code \in {"status", "refused"}, drips \in BOOLEAN :
               /\ drips => o \in S3
               /\ Step(o, [op[o] EXCEPT !.at = IF o \in S3 THEN "refusal" ELSE "attempted",
                                        !.drips = drips, !.err = {code}])
          \/ \E cause \in {"wire", "expired"} :
               Step(o, [op[o] EXCEPT !.at = "dialed", !.err = {cause}])

WithBody(o) == {[op[o] EXCEPT !.at = "body", !.drips = drips] : drips \in BOOLEAN}
NoBody(o) == {[op[o] EXCEPT !.at = "return"]}

(* Open: a HEAD of the bucket, its creation or the conditional writes.     *)
OpenRequest == RoundTrip(Open, NoBody(Open))

(* getObject; a missing snapshot or registry is an empty one.              *)
GetObject(o) ==
  /\ o = Load \/ (o = Record /\ op[o].request = 0)
  /\ RoundTrip(o, WithBody(o) \cup NoBody(o))

(* putObject without a condition.                                          *)
PutObject(o) ==
  /\ o = Save \/ (o = Record /\ op[o].request > 0)
  /\ RoundTrip(o, NoBody(o))

(* listObjectsPage, and deleteObjectsBatch for the page's keys.            *)
ClearRequest == RoundTrip(Clearing, WithBody(Clearing))

(* fetchJSONBodyOnce; a 304 has no body.                                   *)
FetchJSON(o) ==
  /\ o \in {Paging, Metadata}
  /\ RoundTrip(o, WithBody(o) \cup NoBody(o))

DownloadCollection(o) == o \in Artifacts /\ RoundTrip(o, WithBody(o))

Send(o) ==
  \/ o = Open /\ OpenRequest
  \/ o = Clearing /\ ClearRequest
  \/ GetObject(o) \/ PutObject(o) \/ FetchJSON(o) \/ DownloadCollection(o)

Tag(o) ==
  /\ op[o].at = "dialed"
  /\ Step(o, [op[o] EXCEPT !.at = "attempted", !.err = Dialed(o, @)])

(* onStall: the timer notes that it fired and ends the body's own context. *)
Stall(o) ==
  /\ op[o].at \in {"body", "refusal"} /\ ~op[o].drips /\ ~op[o].fired
  /\ Step(o, [op[o] EXCEPT !.fired = TRUE])

(* s3StatusError: the status is known, and no failure to read the body     *)
(* changes the error.                                                      *)
Refusal(o) ==
  /\ op[o].at = "refusal"
  /\ Step(o, [op[o] EXCEPT !.at = "attempted"])

(* The body arrives whole, of a size and shape that can be used or not; a  *)
(* download's digest is compared only then.  The state objects are read    *)
(* outside the retry loop, everything else inside it.                      *)
AfterBody(o) == IF o \in {Load, Record} THEN "return" ELSE "attempted"

Read(o) ==
  /\ op[o].at = "body" /\ ~op[o].fired
  /\ \/ Step(o, [op[o] EXCEPT !.at = "return"])
     \/ Step(o, [op[o] EXCEPT !.at = AfterBody(o), !.err = {"refused"}])
     \/ /\ o \in Artifacts
        /\ op' = [op EXCEPT ![o] = [@ EXCEPT !.at = "attempted", !.err = {"sha"}]]
        /\ mismatch' = (mismatch \/ ~Prefetching(o))
        /\ UNCHANGED <<canceled, lost, stage, outcome, verdict>>

(* The connection breaks by itself.                                        *)
Break(o) ==
  /\ op[o].at = "body"
  /\ Step(o, [op[o] EXCEPT !.at = "broken", !.err = {"wire"}])

(* The read is unblocked by the watchdog or by its context; what it saw    *)
(* last may as well have been the end of the body.                         *)
Unblock(o) ==
  /\ op[o].at = "body"
  /\ \E err \in (IF op[o].fired THEN {{}, {"canceled"}} ELSE {}) \cup
                (IF op[o].own # "live" THEN {{op[o].own}} ELSE {}) :
       Step(o, [op[o] EXCEPT !.at = "broken", !.err = err])

(* watchdogBody.Read: a failure after the watchdog fired is a stall only   *)
(* while the caller's context is live.                                     *)
Examine(o) ==
  /\ op[o].at = "broken"
  /\ LET err == IF op[o].fired /\ op[o].own = "live" THEN {"stalled"} ELSE op[o].err
     IN  Step(o, [op[o] EXCEPT !.at = IF err = {} THEN "return" ELSE AfterBody(o), !.err = err])

Label(o) ==
  /\ op[o].at = "attempted"
  /\ Step(o, [op[o] EXCEPT !.at = "decide", !.err = AttemptLabel(o)])

(* Retry: give up, or wait for the backoff's timer or the context's end,   *)
(* whichever select happens to pick when both are there.                   *)
Decide(o) ==
  /\ op[o].at = "decide"
  /\ Step(o, [op[o] EXCEPT !.at = IF op[o].tries + 1 < MaxTries /\ Retryable(o) /\ ~SingleShot(o)
                                  THEN "backoff" ELSE "return"])

Backoff(o) ==
  /\ op[o].at = "backoff"
  /\ \/ /\ op[o].own # "live"
        /\ Step(o, [op[o] EXCEPT !.at = "return", !.err = {op[o].own}])
     \/ Step(o, [op[o] EXCEPT !.at = "send", !.tries = @ + 1, !.fired = FALSE,
                              !.drips = FALSE, !.err = {}])

Finished(err) == [Idle EXCEPT !.at = "done", !.err = err]

(* The worker that waited for a prefetch only warns of its error, whatever *)
(* it is, and downloads for itself, with tries and a budget of its own.    *)
Warn(o) ==
  /\ op[o].at = "return" /\ Prefetching(o) /\ FinalLabel(o) # {}
  /\ Step(o, Begun(1))

(* What the operation returns; one that has more requests to make goes on  *)
(* under the same context, and a page of the versions list comes back to   *)
(* its pager.                                                              *)
Return(o) ==
  /\ op[o].at = "return" /\ (Prefetching(o) => FinalLabel(o) = {})
  /\ \/ /\ o \notin {Open, Clearing, Record} \/ op[o].err # {} \/ op[o].request > 0
        /\ Step(o, IF o = Paging THEN [op[o] EXCEPT !.at = "paged", !.err = FinalLabel(o)]
                   ELSE Finished(FinalLabel(o)))
     \/ /\ o \in {Open, Clearing, Record} /\ op[o].err = {} /\ op[o].request + 1 < MaxRequests
        /\ o = Record => op[o].request = 0
        /\ Step(o, [Idle EXCEPT !.at = "send", !.own = op[o].own, !.outer = op[o].outer,
                                !.request = op[o].request + 1])

(* fetchPage labels a page's error once more, by the paging budget and the *)
(* caller's context; a page without one may have a next.                   *)
Page ==
  /\ op[Paging].at = "paged"
  /\ \/ Step(Paging, Finished(DeadlineError(HolderLive, op[Paging].outer, op[Paging].err)))
     \/ /\ op[Paging].err = {} /\ op[Paging].request + 1 < MaxRequests
        /\ Step(Paging, [Idle EXCEPT !.at = "send", !.own = op[Paging].outer,
                                     !.outer = op[Paging].outer, !.request = op[Paging].request + 1])

(* A failed download never keeps the snapshot from being saved, and what   *)
(* the save then says is added to what the downloads said; a project that  *)
(* cannot be recorded is a warning; any other failure ends the run.        *)
EndStage ==
  /\ verdict = "none" /\ stage <= Len(Stages)
  /\ \A o \in Stages[stage] : op[o].at = "done"
  /\ LET ops == Stages[stage]
         err == UNION {op[o].err : o \in ops \ {Record}}
         skip == IF ops = {Load} THEN {stage + 2} ELSE {}   \* without --clear-cache
     IN  /\ outcome' = outcome \cup err
         /\ stage' \in IF err = {} \/ ops = Artifacts THEN {stage + 1} \cup skip ELSE {Len(Stages) + 1}
         /\ op' = [o \in Ops |-> Idle]
  /\ UNCHANGED <<canceled, lost, verdict, mismatch>>

(* LockLostError, then FromError.                                          *)
Judge ==
  /\ stage > Len(Stages) /\ verdict = "none"
  /\ verdict' = IF lost /\ ~canceled THEN "busy" ELSE FromError(outcome)
  /\ UNCHANGED <<canceled, lost, op, stage, outcome, mismatch>>

Advance(o) ==
  \/ Start(o) \/ Send(o) \/ Tag(o) \/ (Stopped(o) /\ Refusal(o)) \/ Unblock(o) \/ Examine(o)
  \/ Label(o) \/ Decide(o) \/ Backoff(o) \/ Return(o) \/ Warn(o)

Next ==
  \/ Cancel \/ Lose \/ ExpirePaging \/ Page \/ EndStage \/ Judge
  \/ \E o \in Ops : Advance(o) \/ Expire(o) \/ Stall(o) \/ Refusal(o) \/ Read(o) \/ Break(o)

(* Budgets and watchdogs fire, and the run's own steps are taken; nothing  *)
(* obliges a server to finish a body.                                      *)
Fairness ==
  /\ WF_vars(Page \/ EndStage \/ Judge \/ \E o \in Ops : Advance(o))
  /\ \A o \in Ops : WF_vars(Expire(o)) /\ WF_vars(Stall(o))

Spec == Init /\ [][Next]_vars /\ Fairness

----------------------------------------------------------------------------
TypeOK ==
  /\ canceled \in BOOLEAN /\ lost \in BOOLEAN /\ mismatch \in BOOLEAN
  /\ op \in [Ops -> [at : {"idle", "send", "dialed", "body", "refusal", "broken", "attempted",
                           "decide", "backoff", "return", "paged", "done"},
                     own : {"live", "canceled", "expired"}, outer : {"live", "canceled", "expired"},
                     tries : 0 .. MaxTries - 1, request : 0 .. MaxRequests - 1,
                     drips : BOOLEAN, fired : BOOLEAN, err : SUBSET Sentinels]]
  /\ stage \in 1 .. Len(Stages) + 1
  /\ outcome \in SUBSET Sentinels
  /\ verdict \in {"none", "ok", "interrupt", "integrity", "busy", "failed"}

(* A run exits as interrupted only when its user interrupted it: whatever  *)
(* the order in which the watchdog, a budget, the paging budget and the    *)
(* loss of the lock end the same read, a context error never reaches       *)
(* FromError without a signal (isCanceled, checked first).                 *)
NoFalseInterrupt == verdict = "interrupt" => canceled

(* A worker that downloaded bytes of another digest ends the run with      *)
(* ExitIntegrity, even when the budget ran out while the digest was        *)
(* computed, when the other downloads failed otherwise and when the save   *)
(* failed too; only a signal and a lost lock come before it.  A prefetch   *)
(* is excepted: its worker downloads again and is judged by that.          *)
MismatchAlarms ==
  (verdict # "none" /\ mismatch /\ HolderLive) => verdict = "integrity"

(* Every run ends with a verdict, whatever the servers do, unless an       *)
(* answer drips on to one of the two operations without a budget: a page   *)
(* of the cache listing, as ClearFiles' comment says, or the error         *)
(* document of a refused S3 request.                                       *)
RunJudged ==
  \/ <>(verdict # "none")
  \/ <>[](\E o \in {Open, Clearing} : op[o].at \in {"body", "refusal"} /\ op[o].drips)
=============================================================================
