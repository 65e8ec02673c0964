------------------------------- MODULE S3Lock -------------------------------
(***************************************************************************)
(* The distributed lock of the S3 cache backend (internal/cache/s3/        *)
(* lock.go).  A run is one process that acquires the lock once: it creates *)
(* the lock object if none exists, or swaps an expired one for its own,    *)
(* reads it back, and then refreshes its deadline from a background        *)
(* heartbeat until it releases it.  Every request to S3 is a step of its   *)
(* own, so that requests of other runs, time, a lost answer, a write that  *)
(* lands after its sender gave up on it, and a crash come between any two. *)
(*                                                                         *)
(* A lock object is its token and the deadline in its metadata; its ETag   *)
(* is the digest of the body, which mirrors both, so that two objects have *)
(* one ETag exactly when they are equal.                                   *)
(***************************************************************************)
EXTENDS Integers, FiniteSets

CONSTANTS
  Runs,         \* the runs that share the bucket; a run's token is itself
  Nobody,       \* the token of no run
  TTL,          \* lockTTL: how far ahead a deadline is written
  Heartbeat,    \* heartbeatInterval
  OpTimeout,    \* heartbeatOpTimeout: bounds one heartbeat's HEAD and PUT
  RelTimeout,   \* lockReleaseTimeout: bounds a release's HEAD and DELETE
  Ceiling,      \* lockWaitCeiling: bounds one acquisition
  MaxRetries,   \* maxImmediateLockRetries
  MaxMissed,    \* consecutive refreshes a prompt holder may fail to write
  MaxTime,      \* bound: the clock stops here
  MaxFaults,    \* bound: requests that fail before their budget has run out
  MaxLate,      \* bound: abandoned requests in flight at one time
  MaxCrashes    \* bound: runs killed without cleanup

ASSUME NobodyAssumption == Nobody \notin Runs
ASSUME TimingAssumption ==
  /\ TTL \in Nat /\ Heartbeat \in Nat \ {0} /\ Ceiling \in Nat
  /\ OpTimeout \in Nat /\ RelTimeout \in Nat /\ MaxRetries \in Nat
ASSUME BoundsAssumption ==
  /\ MaxMissed \in Nat /\ MaxTime \in Nat /\ MaxFaults \in Nat
  /\ MaxLate \in Nat /\ MaxCrashes \in Nat

VARIABLES
  now,       \* the clock every run reads
  obj,       \* the lock object, NoLock when the key is absent
  late,      \* requests S3 has still to apply though their sender moved on
  faults,    \* failed requests so far
  pc,        \* where each run is in the protocol
  dl,        \* the deadline the run's next PUT carries
  seen,      \* the object whose ETag the run's swap is conditioned on
  retries,   \* consecutiveRetryNow
  observed,  \* observedHolder
  waitEnd,   \* when the run's wait context ends
  relEnd,    \* when the run's release context ends
  hb,        \* the heartbeat goroutine
  hbDue,     \* when the heartbeat ticks next
  missed,    \* consecutive ticks that wrote no refresh
  lost,      \* the flag a heartbeat sets and release reads
  cause,     \* why the holder context ended
  interrupted, \* whether the caller's context, its parent, has ended
  verdict,   \* what the run reports
  relErr     \* whether release or abandonLockObject's release returned an error

store == <<obj, late, faults>>
wait  == <<dl, seen, retries, observed, waitEnd>>
beat  == <<hb, hbDue, missed, lost, cause>>
done  == <<interrupted, relEnd, verdict, relErr>>
vars  == <<now, store, pc, wait, beat, done>>

(***************************************************************************)
(* Types.                                                                  *)
(***************************************************************************)
Lock    == [tok : Runs \cup {Nobody}, exp : Nat]
NoLock  == [tok |-> Nobody, exp |-> 0]
Request == [op : {"create", "swap", "refresh", "delete"},
            by : Runs, exp : Nat, etag : Lock]

Acquiring == {"create", "inspect", "swap", "claim", "backoff"}
Holding   == {"work", "join"}
Releasing == {"check", "delete"}
Ended     == {"done", "crashed"}

TypeOK ==
  /\ now \in Nat
  /\ obj \in Lock
  /\ late \in SUBSET Request
  /\ faults \in Nat
  /\ pc \in [Runs -> {"idle"} \cup Acquiring \cup Holding \cup Releasing \cup Ended]
  /\ dl \in [Runs -> Nat]
  /\ seen \in [Runs -> Lock]
  /\ retries \in [Runs -> Nat]
  /\ observed \in [Runs -> BOOLEAN]
  /\ waitEnd \in [Runs -> Nat]
  /\ relEnd \in [Runs -> Nat]
  /\ hb \in [Runs -> {"off", "wait", "put", "foreign"}]
  /\ hbDue \in [Runs -> Nat]
  /\ missed \in [Runs -> Nat]
  /\ lost \in [Runs -> BOOLEAN]
  /\ cause \in [Runs -> {"live", "ended", "lost", "canceled"}]
  /\ interrupted \in [Runs -> BOOLEAN]
  /\ verdict \in [Runs -> {"none", "busy", "nobody", "error", "interrupted", "ok", "lost"}]
  /\ relErr \in [Runs -> BOOLEAN]

Init ==
  /\ now = 0
  /\ obj = NoLock
  /\ late = {}
  /\ faults = 0
  /\ pc = [r \in Runs |-> "idle"]
  /\ dl = [r \in Runs |-> 0]
  /\ seen = [r \in Runs |-> NoLock]
  /\ retries = [r \in Runs |-> 0]
  /\ observed = [r \in Runs |-> FALSE]
  /\ waitEnd = [r \in Runs |-> 0]
  /\ relEnd = [r \in Runs |-> 0]
  /\ hb = [r \in Runs |-> "off"]
  /\ hbDue = [r \in Runs |-> 0]
  /\ missed = [r \in Runs |-> 0]
  /\ lost = [r \in Runs |-> FALSE]
  /\ cause = [r \in Runs |-> "live"]
  /\ interrupted = [r \in Runs |-> FALSE]
  /\ verdict = [r \in Runs |-> "none"]
  /\ relErr = [r \in Runs |-> FALSE]

-----------------------------------------------------------------------------
(***************************************************************************)
(* S3: what a request does to the object, and the ways it can fail.        *)
(***************************************************************************)
Written(q) == [tok |-> q.by, exp |-> q.exp]

\* Mutant: any object of the holder the swap saw will do.
MatchesToken(q, o) == o.tok = q.etag.tok
Matches(q, o) == o = q.etag

\* A create lands only on an absent key and a swap only on the ETag it names;
\* a refresh and a delete carry no condition.
Effect(q, o) ==
  CASE q.op = "create"  -> IF o = NoLock THEN Written(q) ELSE o
    [] q.op = "swap"    -> IF Matches(q, o) THEN Written(q) ELSE o
    [] q.op = "refresh" -> Written(q)
    [] q.op = "delete"  -> NoLock

\* The request the run's next write sends.
Create(r)  == [op |-> "create",  by |-> r, exp |-> dl[r], etag |-> NoLock]
Swap(r)    == [op |-> "swap",    by |-> r, exp |-> dl[r], etag |-> seen[r]]
Refresh(r) == [op |-> "refresh", by |-> r, exp |-> dl[r], etag |-> NoLock]
Delete(r)  == [op |-> "delete",  by |-> r, exp |-> 0,     etag |-> NoLock]

\* A request whose context ended fails for nothing; any other failure is a fault.
Fails(budgetSpent) ==
  IF budgetSpent THEN faults' = faults
                 ELSE faults < MaxFaults /\ faults' = faults + 1

\* No answer came: the write was applied or not, and it (or a retry of it) may
\* still be applied later.
Unanswered(q) ==
  /\ obj' \in {obj, Effect(q, obj)}
  /\ late' \in {late} \cup (IF Cardinality(late) < MaxLate THEN {late \cup {q}} ELSE {})

\* S3 applies a request its sender no longer waits for.
Land(q) ==
  /\ q \in late
  /\ obj' = Effect(q, obj)
  /\ late' = late \ {q}
  /\ UNCHANGED <<now, faults, pc, wait, beat, done>>

\* lockExpired.  Deadlines are recorded in whole seconds, so that at the
\* deadline itself a reader may judge either way.
AlwaysExpired(o) == TRUE  \* faulty
MayBeExpired(o) == now >= o.exp
MayBeLive(o)    == now <= o.exp

-----------------------------------------------------------------------------
(***************************************************************************)
(* Acquisition.                                                            *)
(***************************************************************************)
Go(r, to) == pc' = [pc EXCEPT ![r] = to]

\* Every attempt writes a deadline of its own, computed before its PUT.
NextAttempt(r) == Go(r, "create") /\ dl' = [dl EXCEPT ![r] = now + TTL]

\* Mutant: every backoff counts as having seen a holder.
BackOffSeen(r, holderSeen) ==
  /\ Go(r, "backoff")
  /\ retries' = [retries EXCEPT ![r] = 0]
  /\ observed' = [observed EXCEPT ![r] = TRUE]
  /\ seen' = [seen EXCEPT ![r] = NoLock]
  /\ UNCHANGED <<dl, waitEnd>>

\* The loop's default arm: sleep, and start a new count of immediate retries.
BackOff(r, holderSeen) ==
  /\ Go(r, "backoff")
  /\ retries' = [retries EXCEPT ![r] = 0]
  /\ observed' = [observed EXCEPT ![r] = @ \/ holderSeen]
  /\ seen' = [seen EXCEPT ![r] = NoLock]
  /\ UNCHANGED <<dl, waitEnd>>

\* The object vanished: try the create again at once, a bounded number of times.
RetryNow(r) ==
  /\ retries' = [retries EXCEPT ![r] = @ + 1]
  /\ seen' = [seen EXCEPT ![r] = NoLock]
  /\ IF retries[r] < MaxRetries THEN NextAttempt(r)
                                ELSE Go(r, "backoff") /\ UNCHANGED dl
  /\ UNCHANGED <<observed, waitEnd>>

\* How an acquisition that failed is reported: acquireLockAttemptErr and
\* waitCeilingErr.  The caller's end comes before the ceiling's own classes.
Failure(r) ==
  CASE interrupted[r]                        -> "interrupted"
    [] ~interrupted[r] /\ now < waitEnd[r]   -> "error"
    [] ~interrupted[r] /\ now >= waitEnd[r]  -> IF observed[r] THEN "busy" ELSE "nobody"

\* The wait context ends with the ceiling or with the caller's context.
WaitOver(r) == now >= waitEnd[r] \/ interrupted[r]

\* Mutant: the object that may have been written is left behind.
AbandonNothing(r) ==
  /\ Go(r, "done")
  /\ verdict' = [verdict EXCEPT ![r] = "error"]
  /\ UNCHANGED <<wait, beat, interrupted, relEnd, relErr>>

\* abandonLockObject: release what may have been written, then report.
Abandon(r) ==
  /\ Go(r, "check")
  /\ relEnd' = [relEnd EXCEPT ![r] = now + RelTimeout]
  /\ UNCHANGED <<wait, beat, interrupted, verdict, relErr>>

Begin(r) ==
  /\ pc[r] = "idle" /\ now + Ceiling <= MaxTime
  /\ NextAttempt(r)
  /\ waitEnd' = [waitEnd EXCEPT ![r] = now + Ceiling]
  /\ UNCHANGED <<now, store, seen, retries, observed, beat, done>>

\* PUT If-None-Match: *
PutCreate(r) ==
  /\ pc[r] = "create"
  /\ obj' = Effect(Create(r), obj)
  /\ Go(r, IF obj = NoLock THEN "claim" ELSE "inspect")
  /\ UNCHANGED <<now, late, faults, wait, beat, done>>

PutCreateFails(r) ==
  /\ pc[r] = "create"
  /\ Fails(WaitOver(r))
  /\ Unanswered(Create(r))
  /\ Abandon(r)
  /\ UNCHANGED now

\* A backend that contradicts itself: 412 though the key is absent.
PutCreateRefused(r) ==
  /\ pc[r] = "create" /\ obj = NoLock
  /\ Fails(FALSE)
  /\ Go(r, "inspect")
  /\ UNCHANGED <<now, obj, late, wait, beat, done>>

\* 409: a concurrent request was in the way, of a create or of a swap.
PutConflicts(r) ==
  /\ pc[r] \in {"create", "swap"}
  /\ Fails(FALSE)
  /\ BackOff(r, FALSE)
  /\ UNCHANGED <<now, obj, late, beat, done>>

\* The HEAD after a 412.
HeadExpired(r) ==
  /\ pc[r] = "inspect" /\ obj # NoLock /\ MayBeExpired(obj)
  /\ Go(r, "swap")
  /\ seen' = [seen EXCEPT ![r] = obj]
  /\ dl' = [dl EXCEPT ![r] = now + TTL]
  /\ UNCHANGED <<now, store, retries, observed, waitEnd, beat, done>>

HeadLive(r) ==
  /\ pc[r] = "inspect" /\ obj # NoLock /\ MayBeLive(obj)
  /\ BackOff(r, TRUE)
  /\ UNCHANGED <<now, store, beat, done>>

HeadGone(r) ==
  /\ pc[r] = "inspect" /\ obj = NoLock
  /\ RetryNow(r)
  /\ UNCHANGED <<now, store, beat, done>>

HeadFails(r) ==
  /\ pc[r] = "inspect"
  /\ Fails(WaitOver(r))
  /\ Go(r, "done")
  /\ verdict' = [verdict EXCEPT ![r] = Failure(r)]
  /\ UNCHANGED <<now, obj, late, wait, beat, interrupted, relEnd, relErr>>

\* PUT If-Match: it succeeds, finds the key absent (404), or finds another
\* object under it (412).
PutSwap(r) ==
  /\ pc[r] = "swap" /\ obj = seen[r]
  /\ obj' = Effect(Swap(r), obj)
  /\ Go(r, "claim")
  /\ seen' = [seen EXCEPT ![r] = NoLock]
  /\ UNCHANGED <<now, late, faults, dl, retries, observed, waitEnd, beat, done>>

PutSwapGone(r) ==
  /\ pc[r] = "swap" /\ obj = NoLock
  /\ RetryNow(r)
  /\ UNCHANGED <<now, store, beat, done>>

PutSwapLoses(r) ==
  /\ pc[r] = "swap" /\ obj \notin {NoLock, seen[r]}
  /\ BackOff(r, TRUE)
  /\ UNCHANGED <<now, store, beat, done>>

PutSwapFails(r) ==
  /\ pc[r] = "swap"
  /\ Fails(WaitOver(r))
  /\ Unanswered(Swap(r))
  /\ Abandon(r)
  /\ UNCHANGED now

\* claim: the HEAD that reads the written object back.
Claim(r) ==
  /\ pc[r] = "claim" /\ obj.tok = r
  /\ Go(r, "work")
  /\ hb' = [hb EXCEPT ![r] = "wait"]
  /\ hbDue' = [hbDue EXCEPT ![r] = now + Heartbeat]
  /\ UNCHANGED <<now, store, wait, missed, lost, cause, done>>

ClaimForeign(r) ==
  /\ pc[r] = "claim" /\ obj.tok \in Runs \ {r}
  /\ BackOff(r, TRUE)
  /\ UNCHANGED <<now, store, beat, done>>

ClaimFails(r) ==
  /\ pc[r] = "claim"
  /\ Fails(WaitOver(r) \/ obj = NoLock)
  /\ Abandon(r)
  /\ UNCHANGED <<now, obj, late>>

\* lockBackoff
Wake(r) ==
  /\ pc[r] = "backoff" /\ now < waitEnd[r]
  /\ NextAttempt(r)
  /\ UNCHANGED <<now, store, seen, retries, observed, waitEnd, beat, done>>

\* Mutant: a run that saw a holder waits for it beyond the ceiling.
GiveUpUnseen(r) ==
  /\ pc[r] = "backoff" /\ WaitOver(r) /\ ~observed[r]
  /\ Go(r, "done")
  /\ verdict' = [verdict EXCEPT ![r] = Failure(r)]
  /\ UNCHANGED <<now, store, wait, beat, interrupted, relEnd, relErr>>

GiveUp(r) ==
  /\ pc[r] = "backoff" /\ WaitOver(r)
  /\ Go(r, "done")
  /\ verdict' = [verdict EXCEPT ![r] = Failure(r)]
  /\ UNCHANGED <<now, store, wait, beat, interrupted, relEnd, relErr>>

-----------------------------------------------------------------------------
(***************************************************************************)
(* The heartbeat goroutine.                                                *)
(***************************************************************************)
\* A tick that refreshed nothing: the next one tries again.
SkipBeat(r) ==
  /\ hb' = [hb EXCEPT ![r] = "wait"]
  /\ hbDue' = [hbDue EXCEPT ![r] = @ + Heartbeat]
  /\ missed' = [missed EXCEPT ![r] = @ + 1]

\* HEAD: our token is on the object, and the refresh's deadline is computed.
BeatOwns(r) ==
  /\ hb[r] = "wait" /\ pc[r] = "work" /\ now >= hbDue[r] /\ obj.tok = r
  /\ hb' = [hb EXCEPT ![r] = "put"]
  /\ dl' = [dl EXCEPT ![r] = now + TTL]
  /\ UNCHANGED <<now, store, pc, seen, retries, observed, waitEnd,
                 hbDue, missed, lost, cause, done>>

\* HEAD: another token; the tick has decided but not yet recorded the loss.
BeatForeign(r) ==
  /\ hb[r] = "wait" /\ pc[r] = "work" /\ now >= hbDue[r] /\ obj.tok \in Runs \ {r}
  /\ hb' = [hb EXCEPT ![r] = "foreign"]
  /\ UNCHANGED <<now, store, pc, wait, hbDue, missed, lost, cause, done>>

\* HEAD: an error, a missing object included.
BeatHeadFails(r) ==
  /\ hb[r] = "wait" /\ pc[r] = "work" /\ now >= hbDue[r]
  /\ Fails(obj = NoLock)
  /\ SkipBeat(r)
  /\ UNCHANGED <<now, obj, late, pc, wait, lost, cause, done>>

\* lost.Store(true), then holderCancel(errS3LockLost): the first cancel wins.
BeatLoses(r) ==
  /\ hb[r] = "foreign"
  /\ hb' = [hb EXCEPT ![r] = "off"]
  /\ lost' = [lost EXCEPT ![r] = TRUE]
  /\ cause' = [cause EXCEPT ![r] = IF @ = "live" THEN "lost" ELSE @]
  /\ UNCHANGED <<now, store, pc, wait, hbDue, missed, done>>

\* The unconditional PUT of the refresh.
BeatPut(r) ==
  /\ hb[r] = "put"
  /\ obj' = Effect(Refresh(r), obj)
  /\ hb' = [hb EXCEPT ![r] = "wait"]
  /\ hbDue' = [hbDue EXCEPT ![r] = @ + Heartbeat]
  /\ missed' = [missed EXCEPT ![r] = 0]
  /\ UNCHANGED <<now, late, faults, pc, wait, lost, cause, done>>

\* It failed, or release canceled it, which also ends the goroutine.
BeatPutFails(r) ==
  /\ hb[r] = "put"
  /\ Fails(pc[r] = "join")
  /\ Unanswered(Refresh(r))
  /\ IF pc[r] = "join" THEN hb' = [hb EXCEPT ![r] = "off"] /\ UNCHANGED <<hbDue, missed>>
                       ELSE SkipBeat(r)
  /\ UNCHANGED <<now, pc, wait, lost, cause, done>>

-----------------------------------------------------------------------------
(***************************************************************************)
(* Release.                                                                *)
(***************************************************************************)
\* What the work's return is reported as.  LockLostError keeps what the work
\* returned once the caller's context ended, and otherwise puts the loss first.
Outcome(r) ==
  CASE interrupted[r]                        -> {"interrupted", "ok"}
    [] ~interrupted[r] /\ cause[r] = "lost"  -> {"lost"}
    [] ~interrupted[r] /\ cause[r] # "lost"  -> {"ok"}

\* Mutant: the holder context is canceled before the heartbeat is joined.
WorkReturnsEnding(r) ==
  /\ pc[r] = "work"
  /\ Go(r, "join")
  /\ cause' = [cause EXCEPT ![r] = IF @ = "live" THEN "ended" ELSE @]
  /\ \E v \in Outcome(r) : verdict' = [verdict EXCEPT ![r] = v]
  /\ UNCHANGED <<now, store, wait, hb, hbDue, missed, lost, interrupted, relEnd, relErr>>

\* The work returns, because it is over, failed or found a context canceled.
\* The deferred release cancels the heartbeat and waits for it.
WorkReturns(r) ==
  /\ pc[r] = "work"
  /\ Go(r, "join")
  /\ \E v \in Outcome(r) : verdict' = [verdict EXCEPT ![r] = v]
  /\ UNCHANGED <<now, store, wait, beat, interrupted, relEnd, relErr>>

\* The heartbeat has ended: cancel the holder context, and delete the object
\* unless the lock was lost.
Joined(r) ==
  /\ pc[r] = "join" /\ hb[r] \in {"wait", "off"}
  /\ hb' = [hb EXCEPT ![r] = "off"]
  /\ cause' = [cause EXCEPT ![r] = IF @ = "live" THEN "ended" ELSE @]
  /\ IF lost[r]
       THEN /\ Go(r, "done")
            /\ relErr' = [relErr EXCEPT ![r] = TRUE]
            /\ UNCHANGED relEnd
       ELSE /\ Go(r, "check")
            /\ relEnd' = [relEnd EXCEPT ![r] = now + RelTimeout]
            /\ UNCHANGED relErr
  /\ UNCHANGED <<now, store, wait, hbDue, missed, lost, interrupted, verdict>>

\* The end of release, or of an abandoned acquisition, which is only now
\* classified.
Finish(r, failed) ==
  /\ Go(r, "done")
  /\ relErr' = [relErr EXCEPT ![r] = failed]
  /\ verdict' = [verdict EXCEPT ![r] = IF @ = "none" THEN Failure(r) ELSE @]
  /\ UNCHANGED <<now, wait, beat, interrupted, relEnd>>

\* releaseLock: delete the object only while a HEAD sees our token on it.
CheckOwned(r) ==
  /\ pc[r] = "check" /\ obj.tok = r
  /\ Go(r, "delete")
  /\ UNCHANGED <<now, store, wait, beat, done>>

CheckNotOwned(r) ==
  /\ pc[r] = "check" /\ obj.tok # r
  /\ Finish(r, FALSE)
  /\ UNCHANGED store

CheckFails(r) ==
  /\ pc[r] = "check"
  /\ Fails(now >= relEnd[r])
  /\ Finish(r, TRUE)
  /\ UNCHANGED <<obj, late>>

DeleteObject(r) ==
  /\ pc[r] = "delete"
  /\ obj' = Effect(Delete(r), obj)
  /\ Finish(r, FALSE)
  /\ UNCHANGED <<late, faults>>

DeleteFails(r) ==
  /\ pc[r] = "delete"
  /\ Fails(now >= relEnd[r])
  /\ Unanswered(Delete(r))
  /\ Finish(r, TRUE)

-----------------------------------------------------------------------------
\* The writes a run has sent and not seen answered.
InFlight(r) ==
  {q \in {Create(r), Swap(r), Refresh(r), Delete(r)} :
     \/ pc[r] \in {"create", "swap", "delete"} /\ q.op = pc[r]
     \/ hb[r] = "put" /\ q.op = "refresh"}

\* A signal ends the caller's context at any time, and with it the wait and the
\* holder context derived from it; the heartbeat, on a context of its own, goes on.
Interrupt(r) ==
  /\ pc[r] \notin {"idle"} \cup Ended /\ ~interrupted[r]
  /\ interrupted' = [interrupted EXCEPT ![r] = TRUE]
  /\ cause' = [cause EXCEPT ![r] = IF @ = "live" THEN "canceled" ELSE @]
  /\ UNCHANGED <<now, store, pc, wait, hb, hbDue, missed, lost, relEnd, verdict, relErr>>

\* A fatal error or a kill: nothing is cleaned up, a write already sent may land.
Crash(r) ==
  /\ pc[r] \notin {"idle"} \cup Ended
  /\ Cardinality({s \in Runs : pc[s] = "crashed"}) < MaxCrashes
  /\ late' \in {late} \cup {late \cup {q} : q \in IF Cardinality(late) < MaxLate
                                                    THEN InFlight(r) ELSE {}}
  /\ Go(r, "crashed")
  /\ hb' = [hb EXCEPT ![r] = "off"]
  /\ UNCHANGED <<now, obj, faults, wait, hbDue, missed, lost, cause, done>>

Tick ==
  /\ now < MaxTime
  /\ now' = now + 1
  /\ UNCHANGED <<store, pc, wait, beat, done>>

Acquire(r) ==
  \/ PutCreate(r) \/ PutCreateFails(r) \/ PutCreateRefused(r) \/ PutConflicts(r)
  \/ HeadExpired(r) \/ HeadLive(r) \/ HeadGone(r) \/ HeadFails(r)
  \/ PutSwap(r) \/ PutSwapGone(r) \/ PutSwapLoses(r) \/ PutSwapFails(r)
  \/ Claim(r) \/ ClaimForeign(r) \/ ClaimFails(r) \/ Wake(r) \/ GiveUp(r)

Beat(r) ==
  \/ BeatOwns(r) \/ BeatForeign(r) \/ BeatHeadFails(r) \/ BeatLoses(r)
  \/ BeatPut(r) \/ BeatPutFails(r)

Release(r) ==
  \/ Joined(r) \/ CheckOwned(r) \/ CheckNotOwned(r) \/ CheckFails(r)
  \/ DeleteObject(r) \/ DeleteFails(r)

Next ==
  \/ \E r \in Runs : Begin(r) \/ Acquire(r) \/ Beat(r) \/ WorkReturns(r)
                     \/ Release(r) \/ Interrupt(r) \/ Crash(r)
  \/ \E q \in late : Land(q)
  \/ Tick

Spec == Init /\ [][Next]_vars

\* Goroutines are scheduled, requests end (each has a timeout), time passes.
\* Nothing forces a run to start, its work to return, or a late write to land.
FairSpec ==
  Spec /\ WF_vars(Tick) /\ \A r \in Runs : WF_vars(Acquire(r) \/ Beat(r) \/ Release(r))

-----------------------------------------------------------------------------
(***************************************************************************)
(* Properties.                                                             *)
(***************************************************************************)
\* An acquisition puts its token on the object only where there was none or an
\* expired one, even when the process was suspended between its HEAD and its
\* swap, or the swap landed after its sender gave up.
TakesNoLiveLock ==
  [][\A r \in Runs :
       /\ obj' # obj /\ obj'.tok = r /\ obj.tok # r
       /\ pc[r] \notin Holding /\ \A q \in late : q.by = r => q.op \in {"create", "swap"}
       => obj = NoLock \/ MayBeExpired(obj)]_vars

\* A run that ended without holding the lock any more, and whose cleanup did not
\* itself fail, has left no object with its token to block the others for a TTL:
\* neither an acquisition whose write landed but failed later, nor a heartbeat
\* refreshing what its own release deletes.
LeavesNoOrphan ==
  \A r \in Runs : pc[r] = "done" /\ obj.tok = r => relErr[r]

\* The cause of the holder context is the loss once a loss was recorded, though
\* release cancels the same context: release joins the heartbeat first.  Only a
\* caller whose own context had ended keeps the cause that gave.
LossIsTheCause ==
  \A r \in Runs : lost[r] => cause[r] = "lost" \/ (cause[r] = "canceled" /\ interrupted[r])

\* Every acquisition and every release comes to an end, whatever fails.
Waits(r) == pc[r] \in Acquiring \cup Releasing \cup {"join"}
WaitEnds == \A r \in Runs : Waits(r) ~> ~Waits(r)
=============================================================================
