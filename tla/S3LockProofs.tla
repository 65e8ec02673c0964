---------------------------- MODULE S3LockProofs ----------------------------
(***************************************************************************)
(* Theorems about the S3 lock, for every set of runs and every timing.     *)
(***************************************************************************)
EXTENDS S3LockPrompt, TLAPS

USE NobodyAssumption, TimingAssumption, BoundsAssumption

-----------------------------------------------------------------------------
(***************************************************************************)
(* Requests and their effects.                                             *)
(***************************************************************************)
\* The requests a run sends are requests.
LEMMA RequestType ==
  ASSUME NEW r \in Runs, dl \in [Runs -> Nat], seen \in [Runs -> Lock]
  PROVE  /\ Create(r) \in Request /\ Swap(r) \in Request
         /\ Refresh(r) \in Request /\ Delete(r) \in Request
BY DEF Create, Swap, Refresh, Delete, Request, Lock, NoLock

\* Whatever S3 applies to a lock object leaves a lock object.
LEMMA EffectType ==
  ASSUME NEW q \in Request, NEW o \in Lock
  PROVE  Effect(q, o) \in Lock
BY DEF Effect, Matches, Request, Lock, NoLock, Written

\* An unanswered request leaves a lock object, and only itself in flight.
LEMMA UnansweredType ==
  ASSUME NEW q \in Request, obj \in Lock, late \in SUBSET Request, Unanswered(q)
  PROVE  obj' \in Lock /\ late' \in SUBSET Request
BY EffectType DEF Unanswered

-----------------------------------------------------------------------------
(***************************************************************************)
(* Type correctness.                                                       *)
(***************************************************************************)
\* The initial state is well typed.
LEMMA InitType == Init => TypeOK
BY DEF Init, TypeOK, Lock, NoLock

\* An immediate retry, and the backoff that replaces it, change four variables.
LEMMA RetryNowType ==
  ASSUME TypeOK, NEW r \in Runs, RetryNow(r)
  PROVE  /\ pc' \in [Runs -> {"idle"} \cup Acquiring \cup Holding \cup Releasing \cup Ended]
         /\ dl' \in [Runs -> Nat] /\ retries' \in [Runs -> Nat]
         /\ seen' \in [Runs -> Lock] /\ UNCHANGED <<observed, waitEnd>>
<1>1. CASE retries[r] < MaxRetries
  BY <1>1 DEF RetryNow, TypeOK, NextAttempt, Go, Acquiring, Lock, NoLock
<1>2. CASE ~(retries[r] < MaxRetries)
  <2>1. Go(r, "backoff") /\ UNCHANGED dl  BY <1>2, Zenon DEF RetryNow
  <2>. QED  BY <2>1 DEF RetryNow, TypeOK, Go, Acquiring, Lock, NoLock
<1>. QED  BY <1>1, <1>2

\* Every step of an acquisition keeps the types.
LEMMA AcquireType ==
  ASSUME TypeOK, NEW r \in Runs, Acquire(r)
  PROVE  TypeOK'
<1> USE RequestType, EffectType, UnansweredType
    DEF TypeOK, store, wait, beat, done, Go, NextAttempt, BackOff, Failure,
        Abandon, Fails, Acquiring, Releasing, Holding, Ended
<1>1. CASE PutCreate(r)        BY <1>1 DEF PutCreate
<1>2. CASE PutCreateFails(r)   BY <1>2 DEF PutCreateFails
<1>3. CASE PutCreateRefused(r) BY <1>3 DEF PutCreateRefused
<1>4. CASE PutConflicts(r)
  <2>1. observed' \in [Runs -> BOOLEAN]  BY <1>4, Zenon DEF PutConflicts
  <2>. QED  BY <1>4, <2>1 DEF PutConflicts, Lock, NoLock
<1>5. CASE HeadExpired(r)      BY <1>5 DEF HeadExpired
<1>6. CASE HeadLive(r)         BY <1>6 DEF HeadLive, Lock, NoLock
<1>7. CASE HeadGone(r)         BY <1>7, RetryNowType DEF HeadGone
<1>8. CASE HeadFails(r)        BY <1>8 DEF HeadFails
<1>9. CASE PutSwap(r)          BY <1>9 DEF PutSwap, Lock, NoLock
<1>10. CASE PutSwapGone(r)     BY <1>10, RetryNowType DEF PutSwapGone
<1>11. CASE PutSwapLoses(r)    BY <1>11 DEF PutSwapLoses, Lock, NoLock
<1>12. CASE PutSwapFails(r)    BY <1>12 DEF PutSwapFails
<1>13. CASE Claim(r)           BY <1>13 DEF Claim
<1>14. CASE ClaimForeign(r)    BY <1>14 DEF ClaimForeign, Lock, NoLock
<1>15. CASE ClaimFails(r)      BY <1>15 DEF ClaimFails
<1>16. CASE Wake(r)            BY <1>16 DEF Wake
<1>17. CASE GiveUp(r)          BY <1>17 DEF GiveUp
<1>. QED
  BY <1>1, <1>2, <1>3, <1>4, <1>5, <1>6, <1>7, <1>8, <1>9, <1>10, <1>11, <1>12,
     <1>13, <1>14, <1>15, <1>16, <1>17, Zenon DEF Acquire

\* Every step of a heartbeat keeps the types.
LEMMA BeatType ==
  ASSUME TypeOK, NEW r \in Runs, Beat(r)
  PROVE  TypeOK'
<1> USE RequestType, EffectType, UnansweredType
    DEF TypeOK, store, wait, beat, done, Fails, SkipBeat
<1>1. CASE BeatOwns(r)       BY <1>1 DEF BeatOwns
<1>2. CASE BeatForeign(r)    BY <1>2 DEF BeatForeign
<1>3. CASE BeatHeadFails(r)  BY <1>3 DEF BeatHeadFails
<1>4. CASE BeatLoses(r)      BY <1>4 DEF BeatLoses
<1>5. CASE BeatPut(r)        BY <1>5 DEF BeatPut
<1>6. CASE BeatPutFails(r)
  <2>1. CASE pc[r] = "join"  BY <1>6, <2>1 DEF BeatPutFails
  <2>2. CASE pc[r] # "join"  BY <1>6, <2>2 DEF BeatPutFails
  <2>. QED  BY <2>1, <2>2
<1>. QED  BY <1>1, <1>2, <1>3, <1>4, <1>5, <1>6, Zenon DEF Beat

\* However an acquisition failed, its report is a verdict.
LEMMA FailureType ==
  ASSUME TypeOK, NEW r \in Runs
  PROVE  Failure(r) \in {"interrupted", "error", "busy", "nobody"}
<1>1. now < waitEnd[r] \/ now >= waitEnd[r]
  BY DEF TypeOK
<1>2. CASE interrupted[r]
  BY <1>2 DEF Failure
<1>3. CASE ~interrupted[r] /\ now < waitEnd[r]
  BY <1>3 DEF Failure
<1>4. CASE ~interrupted[r] /\ ~(now < waitEnd[r])
  BY <1>1, <1>4, Zenon DEF Failure
<1>. QED  BY <1>2, <1>3, <1>4

\* The end of a release keeps the verdict it has, or reports the acquisition.
LEMMA FinishType ==
  ASSUME TypeOK, NEW r \in Runs, NEW failed \in BOOLEAN, Finish(r, failed),
         obj' \in Lock, late' \in SUBSET Request, faults' \in Nat
  PROVE  TypeOK'
<1>1. verdict' \in [Runs -> {"none", "busy", "nobody", "error", "interrupted", "ok", "lost"}]
  BY FailureType DEF Finish, TypeOK
<1>. QED
  BY <1>1 DEF Finish, Go, TypeOK, wait, beat, Ended

\* Every step of a release keeps the types.
LEMMA ReleaseType ==
  ASSUME TypeOK, NEW r \in Runs, Release(r)
  PROVE  TypeOK'
<1>1. CASE Joined(r)
  <2> USE DEF TypeOK, store, wait, Go, Releasing, Ended
  <2>1. CASE lost[r]   BY <1>1, <2>1 DEF Joined
  <2>2. CASE ~lost[r]  BY <1>1, <2>2 DEF Joined
  <2>. QED  BY <2>1, <2>2
<1>2. CASE CheckOwned(r)
  BY <1>2 DEF CheckOwned, TypeOK, store, wait, beat, done, Go, Releasing
<1>3. CASE CheckNotOwned(r) \/ CheckFails(r) \/ DeleteObject(r) \/ DeleteFails(r)
  <2>1. \E failed \in BOOLEAN : Finish(r, failed)
    BY <1>3 DEF CheckNotOwned, CheckFails, DeleteObject, DeleteFails
  <2>2. obj \in Lock /\ late \in SUBSET Request /\ faults \in Nat /\ Delete(r) \in Request
    BY RequestType DEF TypeOK
  <2>3. obj' \in Lock /\ late' \in SUBSET Request /\ faults' \in Nat
    <3>1. CASE CheckNotOwned(r)  BY <2>2, <3>1 DEF CheckNotOwned, store
    <3>2. CASE CheckFails(r)     BY <2>2, <3>2 DEF CheckFails, Fails
    <3>3. CASE DeleteObject(r)   BY <2>2, <3>3, EffectType DEF DeleteObject
    <3>4. CASE DeleteFails(r)    BY <2>2, <3>4, UnansweredType DEF DeleteFails, Fails
    <3>. QED  BY <1>3, <3>1, <3>2, <3>3, <3>4
  <2>. QED  BY <2>1, <2>3, FinishType
<1>. QED  BY <1>1, <1>2, <1>3, Zenon DEF Release

\* Every step keeps the types.
LEMMA NextType == TypeOK /\ [Next]_vars => TypeOK'
<1> SUFFICES ASSUME TypeOK, [Next]_vars PROVE TypeOK'
  OBVIOUS
<1> USE DEF TypeOK, store, wait, beat, done, Go, Acquiring, Releasing, Holding, Ended
<1>1. ASSUME NEW r \in Runs, Begin(r) PROVE TypeOK'
  BY <1>1 DEF Begin, NextAttempt
<1>2. ASSUME NEW r \in Runs, Acquire(r) PROVE TypeOK'
  BY <1>2, AcquireType, Zenon
<1>3. ASSUME NEW r \in Runs, Beat(r) PROVE TypeOK'
  BY <1>3, BeatType, Zenon
<1>4. ASSUME NEW r \in Runs, WorkReturns(r) PROVE TypeOK'
  <2>1. Outcome(r) \subseteq {"interrupted", "ok", "lost"}
    BY DEF Outcome
  <2>. QED  BY <1>4, <2>1 DEF WorkReturns
<1>5. ASSUME NEW r \in Runs, Release(r) PROVE TypeOK'
  BY <1>5, ReleaseType, Zenon
<1>6. ASSUME NEW r \in Runs, Crash(r) PROVE TypeOK'
  BY <1>6, RequestType DEF Crash, InFlight
<1>7. ASSUME NEW q \in late, Land(q) PROVE TypeOK'
  BY <1>7, EffectType DEF Land
<1>8. CASE Tick
  BY <1>8 DEF Tick
<1>9. CASE UNCHANGED vars
  BY <1>9 DEF vars
<1>10. ASSUME NEW r \in Runs, Interrupt(r) PROVE TypeOK'
  BY <1>10 DEF Interrupt
<1>. QED
  BY <1>1, <1>2, <1>3, <1>4, <1>5, <1>6, <1>7, <1>8, <1>9, <1>10, Zenon DEF Next

\* Every run and every S3 answer keeps the state in its types.
THEOREM TypeCorrect == Spec => []TypeOK
BY InitType, NextType, PTL DEF Spec

-----------------------------------------------------------------------------
(***************************************************************************)
(* Mutual exclusion in a prompt environment.                               *)
(***************************************************************************)
\* Products with Heartbeat, stated once: the other steps use only sums.
LEMMA Ticks ==
  ASSUME NEW m \in Nat
  PROVE  m * Heartbeat \in Nat /\ (m + 1) * Heartbeat = m * Heartbeat + Heartbeat
OBVIOUS

\* What a holder may still miss is a time, one Heartbeat less after a miss, and
\* never more than LeaseCoversAssumption allows for.
LEMMA GraceFacts ==
  ASSUME TypeOK, NEW r \in Runs, missed[r] <= MaxMissed
  PROVE  /\ Grace(r) \in Nat
         /\ Ceiling + Grace(r) + Heartbeat + OpTimeout + RelTimeout < TTL
         /\ missed[r] + 1 <= MaxMissed =>
              (MaxMissed - (missed[r] + 1)) * Heartbeat = Grace(r) - Heartbeat
<1> DEFINE m == MaxMissed - missed[r]
<1>1. m \in Nat /\ missed[r] \in Nat /\ m + missed[r] = MaxMissed
  BY DEF TypeOK
<1>2. Grace(r) = m * Heartbeat /\ Grace(r) \in Nat
  BY <1>1, Ticks DEF Grace
<1>3. (MaxMissed + 1) * Heartbeat = Grace(r) + Heartbeat + missed[r] * Heartbeat
  <2>1. (MaxMissed + 1) * Heartbeat = (m + missed[r] + 1) * Heartbeat
    BY <1>1
  <2>. QED  BY <1>1, <1>2, <2>1
<1>4. missed[r] * Heartbeat \in Nat
  BY <1>1, Ticks
<1>5. missed[r] + 1 <= MaxMissed =>
        (MaxMissed - (missed[r] + 1)) * Heartbeat = Grace(r) - Heartbeat
  <2> SUFFICES ASSUME missed[r] + 1 <= MaxMissed
               PROVE  (MaxMissed - (missed[r] + 1)) * Heartbeat = Grace(r) - Heartbeat
    OBVIOUS
  <2>1. m - 1 \in Nat /\ MaxMissed - (missed[r] + 1) = m - 1
    BY <1>1
  <2>2. (m - 1 + 1) * Heartbeat = (m - 1) * Heartbeat + Heartbeat /\ (m - 1) * Heartbeat \in Nat
    BY <2>1, Ticks
  <2>3. m - 1 + 1 = m
    BY <1>1
  <2>. QED  BY <1>2, <2>1, <2>2, <2>3
<1>. QED  BY <1>2, <1>3, <1>4, <1>5, LeaseCoversAssumption

\* The variables of one run.
SameFor(s) ==
  /\ pc'[s] = pc[s] /\ dl'[s] = dl[s] /\ seen'[s] = seen[s] /\ waitEnd'[s] = waitEnd[s]
  /\ relEnd'[s] = relEnd[s] /\ hb'[s] = hb[s] /\ hbDue'[s] = hbDue[s]
  /\ missed'[s] = missed[s] /\ lost'[s] = lost[s]

\* A run whose lease is written on the object has not reached its end.
LEMMA LeaseLasts ==
  ASSUME TypeOK, LeaseInv, NEW s \in Runs, pc[s] \in {"claim", "delete"} \cup Holding
  PROVE  obj.tok = s /\ now < obj.exp
<1> USE DEF LeaseInv, Waiting, Working, Leaving, TypeOK, Lock, Acquiring, Holding, Releasing
<1>1. CASE pc[s] \in Holding
  <2>1. Grace(s) \in Nat  BY <1>1, GraceFacts
  <2>. QED  BY <1>1, <2>1
<1>2. CASE pc[s] = "claim"
  <2>1. missed[s] <= MaxMissed  BY <1>2
  <2>2. Ceiling < TTL  BY <2>1, GraceFacts
  <2>. QED  BY <1>2, <2>2
<1>3. CASE pc[s] = "delete"
  BY <1>3
<1>. QED  BY <1>1, <1>2, <1>3

\* A step of run r leaves every other run's part of the invariant alone if it
\* writes the object only where no other run's lease is still running.
LEMMA Frame ==
  ASSUME TypeOK, LeaseInv, NEW r \in Runs, NEW s \in Runs, s # r, now' = now, SameFor(s),
         \/ obj' = obj
         \/ obj'.tok = r /\ (obj = NoLock \/ obj.exp <= now \/ obj.tok = r)
         \/ obj' = NoLock /\ obj.tok = r
  PROVE  Waiting(s)' /\ Working(s)' /\ Leaving(s)'
<1> USE DEF SameFor, LeaseInv, Waiting, Working, Leaving, Grace
<1>1. CASE obj' = obj
  BY <1>1
<1>2. CASE obj' # obj
  <2>1. pc[s] \notin {"claim", "delete"} \cup Holding
    BY <1>2, LeaseLasts DEF NoLock, TypeOK, Lock
  <2>2. obj'.tok # s
    BY <1>2 DEF NoLock
  <2>. QED  BY <2>1, <2>2
<1>. QED  BY <1>1, <1>2

\* What a step of run r must show for the invariant to survive it.
Mine(r)   == Waiting(r)' /\ Working(r)' /\ Leaving(r)'
Writes(r) == \/ obj' = obj
             \/ obj'.tok = r /\ (obj = NoLock \/ obj.exp <= now \/ obj.tok = r)
             \/ obj' = NoLock /\ obj.tok = r
Keeps(r)  == now' = now /\ Writes(r) /\ Mine(r) /\ \A s \in Runs \ {r} : SameFor(s)

\* A write by run r, answered or not.
LEMMA CreateWrites ==
  ASSUME TypeOK, NEW r \in Runs
  PROVE  Effect(Create(r), obj) = IF obj = NoLock THEN [tok |-> r, exp |-> dl[r]] ELSE obj
BY DEF Effect, Create, Written

\* A swap writes only over the very object its ETag names.
LEMMA SwapWrites ==
  ASSUME TypeOK, NEW r \in Runs
  PROVE  Effect(Swap(r), obj) = IF obj = seen[r] THEN [tok |-> r, exp |-> dl[r]] ELSE obj
BY DEF Effect, Matches, Swap, Written

\* A refresh writes whatever it finds.
LEMMA RefreshWrites ==
  ASSUME TypeOK, NEW r \in Runs
  PROVE  Effect(Refresh(r), obj) = [tok |-> r, exp |-> dl[r]]
BY DEF Effect, Refresh, Written

\* A delete removes whatever it finds.
LEMMA DeleteWrites ==
  ASSUME TypeOK, NEW r \in Runs
  PROVE  Effect(Delete(r), obj) = NoLock
BY DEF Effect, Delete

\* A run that starts touches nothing of another run.
LEMMA BeginKeeps ==
  ASSUME TypeOK, LeaseInv, NEW r \in Runs, Begin(r)
  PROVE  Keeps(r)
BY DEF Begin, Keeps, Mine, Writes, SameFor, LeaseInv, Waiting, Working, Leaving, TypeOK, Lock,
       Acquiring, Holding, Releasing, store, wait, beat, done, Go, NextAttempt, Grace

\* An acquisition writes only an absent or expired object, or its own.
LEMMA AcquireKeeps ==
  ASSUME TypeOK, LeaseInv, NEW r \in Runs, Acquire(r)
  PROVE  Keeps(r)
<1> USE DEF Keeps, Mine, Writes, SameFor, LeaseInv, Waiting, Working, Leaving, TypeOK, Lock,
            Acquiring, Holding, Releasing, store, wait, beat, done, Go, Grace
<1>0. missed[r] <= MaxMissed => Ceiling + RelTimeout < TTL
  BY GraceFacts
<1>1. CASE PutCreate(r)        BY <1>1, CreateWrites DEF PutCreate, NoLock
<1>2. CASE PutCreateFails(r)
  BY <1>0, <1>2, CreateWrites DEF PutCreateFails, Unanswered, Abandon, NoLock
<1>3. CASE PutCreateRefused(r) BY <1>3 DEF PutCreateRefused
<1>4. CASE PutConflicts(r)     BY <1>4 DEF PutConflicts, BackOff
<1>5. CASE HeadExpired(r)      BY <1>5 DEF HeadExpired, MayBeExpired
<1>6. CASE HeadLive(r)         BY <1>6 DEF HeadLive, BackOff
<1>7. CASE HeadGone(r)
  <2>1. CASE retries[r] < MaxRetries
    BY <1>7, <2>1 DEF HeadGone, RetryNow, NextAttempt
  <2>2. CASE ~(retries[r] < MaxRetries)
    <3>1. Go(r, "backoff") /\ UNCHANGED dl  BY <1>7, <2>2, Zenon DEF HeadGone, RetryNow
    <3>. QED  BY <1>7, <3>1 DEF HeadGone, RetryNow
  <2>. QED  BY <2>1, <2>2
<1>8. CASE HeadFails(r)        BY <1>8 DEF HeadFails
<1>9. CASE PutSwap(r)          BY <1>9, SwapWrites DEF PutSwap
<1>10. CASE PutSwapGone(r)
  <2>1. CASE retries[r] < MaxRetries
    BY <1>10, <2>1 DEF PutSwapGone, RetryNow, NextAttempt
  <2>2. CASE ~(retries[r] < MaxRetries)
    <3>1. Go(r, "backoff") /\ UNCHANGED dl  BY <1>10, <2>2, Zenon DEF PutSwapGone, RetryNow
    <3>. QED  BY <1>10, <3>1 DEF PutSwapGone, RetryNow
  <2>. QED  BY <2>1, <2>2
<1>11. CASE PutSwapLoses(r)    BY <1>11 DEF PutSwapLoses, BackOff
<1>12. CASE PutSwapFails(r)
  BY <1>0, <1>12, SwapWrites DEF PutSwapFails, Unanswered, Abandon
<1>13. CASE Claim(r)
  BY <1>13, GraceFacts DEF Claim
<1>14. CASE ClaimForeign(r)    BY <1>14 DEF ClaimForeign, BackOff
<1>15. CASE ClaimFails(r)      BY <1>0, <1>15 DEF ClaimFails, Abandon
<1>16. CASE Wake(r)            BY <1>16 DEF Wake, NextAttempt
<1>17. CASE GiveUp(r)          BY <1>17 DEF GiveUp
<1>. QED
  BY <1>1, <1>2, <1>3, <1>4, <1>5, <1>6, <1>7, <1>8, <1>9, <1>10, <1>11, <1>12,
     <1>13, <1>14, <1>15, <1>16, <1>17, Zenon DEF Acquire

\* A heartbeat refreshes only the object of its own run.
LEMMA BeatKeeps ==
  ASSUME TypeOK, LeaseInv, NEW r \in Runs, Beat(r), missed'[r] <= MaxMissed
  PROVE  Keeps(r)
<1> USE DEF Keeps, Mine, Writes, SameFor, LeaseInv, Waiting, Working, Leaving, TypeOK, Lock,
            Acquiring, Holding, Releasing, store, wait, beat, done
<1>1. CASE BeatOwns(r)       BY <1>1 DEF BeatOwns, Grace
<1>2. CASE BeatForeign(r)    BY <1>2 DEF BeatForeign
<1>3. CASE BeatHeadFails(r)
  <2>1. missed'[r] = missed[r] + 1 /\ hbDue'[r] = hbDue[r] + Heartbeat
    BY <1>3 DEF BeatHeadFails, SkipBeat
  <2>2. Grace(r)' = Grace(r) - Heartbeat /\ Grace(r) \in Nat
    BY <1>3, <2>1, GraceFacts DEF BeatHeadFails, Grace
  <2>3. hbDue'[r] + Grace(r)' + OpTimeout + RelTimeout < obj.exp
    BY <1>3, <2>1, <2>2 DEF BeatHeadFails
  <2>4. Working(r)'
    BY <1>3, <2>1, <2>3 DEF BeatHeadFails, SkipBeat
  <2>. QED  BY <1>3, <2>4 DEF BeatHeadFails, SkipBeat
<1>4. CASE BeatLoses(r)      BY <1>4 DEF BeatLoses
<1>5. CASE BeatPut(r)
  <2>1. pc[r] \in Holding /\ obj' = [tok |-> r, exp |-> dl[r]] /\ hbDue[r] + TTL <= dl[r]
    BY <1>5, RefreshWrites DEF BeatPut
  <2>2. missed'[r] = 0 /\ hbDue'[r] = hbDue[r] + Heartbeat
    BY <1>5 DEF BeatPut
  <2>3. Grace(r)' = MaxMissed * Heartbeat
    BY <2>2 DEF Grace
  <2>4. Grace(r)' + Heartbeat + OpTimeout + RelTimeout < TTL /\ Grace(r)' \in Nat
    BY <2>3, Ticks, LeaseCoversAssumption
  <2>5. hbDue'[r] + Grace(r)' + OpTimeout + RelTimeout < obj'.exp
    <3>1. obj'.exp = dl[r] /\ dl[r] \in Nat /\ hbDue[r] \in Nat
      BY <2>1
    <3>. QED  BY <2>1, <2>2, <2>4, <3>1
  <2>6. Working(r)'
    BY <1>5, <2>1, <2>2, <2>5 DEF BeatPut
  <2>. QED  BY <1>5, <2>1, <2>6 DEF BeatPut
<1>6. CASE BeatPutFails(r)
  <2>1. pc[r] \in Holding /\ obj' \in {obj, [tok |-> r, exp |-> dl[r]]} /\ hbDue[r] + TTL <= dl[r]
    BY <1>6, RefreshWrites DEF BeatPutFails, Unanswered
  <2>2. \/ missed'[r] = missed[r] /\ hbDue'[r] = hbDue[r] /\ pc[r] = "join" /\ hb'[r] = "off"
        \/ missed'[r] = missed[r] + 1 /\ hbDue'[r] = hbDue[r] + Heartbeat /\ hb'[r] = "wait"
    <3>1. CASE pc[r] = "join"  BY <1>6, <3>1 DEF BeatPutFails
    <3>2. CASE pc[r] # "join"  BY <1>6, <3>2 DEF BeatPutFails, SkipBeat
    <3>. QED  BY <3>1, <3>2
  <2>3. hbDue'[r] + Grace(r)' = hbDue[r] + Grace(r) /\ Grace(r) \in Nat /\ Grace(r)' \in Int
    BY <2>1, <2>2, GraceFacts DEF Grace
  <2>4. Grace(r) + OpTimeout + RelTimeout < TTL
    BY <2>1, GraceFacts
  <2>5. hbDue'[r] + Grace(r)' + OpTimeout + RelTimeout < obj'.exp
    <3>1. hbDue'[r] \in Nat /\ obj.exp \in Nat /\ dl[r] \in Nat /\ hbDue[r] \in Nat
      BY <2>1, <2>2
    <3>2. hbDue[r] + Grace(r) + OpTimeout + RelTimeout < obj.exp
      BY <2>1
    <3>. QED  BY <2>1, <2>3, <2>4, <3>1, <3>2
  <2>6. UNCHANGED <<now, pc, lost>> /\ now <= hbDue'[r] + OpTimeout
    BY <1>6, <2>1, <2>2 DEF BeatPutFails
  <2>7. Working(r)'
    BY <2>1, <2>2, <2>5, <2>6
  <2>8. UNCHANGED <<dl, seen, waitEnd, relEnd>> /\ \A s \in Runs \ {r} : SameFor(s)
    BY <1>6 DEF BeatPutFails, SkipBeat
  <2>. QED  BY <2>1, <2>6, <2>7, <2>8
<1>. QED  BY <1>1, <1>2, <1>3, <1>4, <1>5, <1>6, Zenon DEF Beat

\* A release deletes only the object of its own run.
LEMMA ReleaseKeeps ==
  ASSUME TypeOK, LeaseInv, NEW r \in Runs, Release(r) \/ WorkReturns(r) \/ Crash(r)
  PROVE  Keeps(r)
<1> USE DEF Keeps, Mine, Writes, SameFor, LeaseInv, Waiting, Working, Leaving, TypeOK, Lock,
            Acquiring, Holding, Releasing, Ended, store, wait, beat, done, Go
<1>1. CASE Joined(r)
  <2>1. Grace(r) \in Nat  BY <1>1, GraceFacts DEF Joined
  <2>. QED  BY <1>1, <2>1 DEF Joined, Grace
<1>2. CASE CheckOwned(r)     BY <1>2 DEF CheckOwned
<1>3. CASE CheckNotOwned(r)  BY <1>3 DEF CheckNotOwned, Finish
<1>4. CASE CheckFails(r)     BY <1>4 DEF CheckFails, Finish
<1>5. CASE DeleteObject(r)   BY <1>5, DeleteWrites DEF DeleteObject, Finish, NoLock
<1>6. CASE DeleteFails(r)    BY <1>6, DeleteWrites DEF DeleteFails, Unanswered, Finish, NoLock
<1>7. CASE WorkReturns(r)    BY <1>7 DEF WorkReturns, Grace
<1>8. CASE Crash(r)          BY <1>8 DEF Crash
<1>. QED  BY <1>1, <1>2, <1>3, <1>4, <1>5, <1>6, <1>7, <1>8, Zenon DEF Release

\* A step that keeps run r's part keeps the whole invariant.
LEMMA KeepsLease ==
  ASSUME TypeOK, LeaseInv, NEW r \in Runs, Keeps(r), late' = {}
  PROVE  LeaseInv'
<1>1. ASSUME NEW s \in Runs PROVE (Waiting(s) /\ Working(s) /\ Leaving(s))'
  <2>1. CASE s = r  BY <2>1 DEF Keeps, Mine
  <2>2. CASE s # r  BY <2>2, Frame DEF Keeps, Writes
  <2>. QED  BY <2>1, <2>2
<1>2. (obj.tok = Nobody => obj = NoLock)'
  BY DEF Keeps, Writes, LeaseInv
<1>. QED  BY <1>1, <1>2 DEF LeaseInv

\* Time passes within the deadlines the leases were written for.
LEMMA TickKeepsLease ==
  ASSUME TypeOK, LeaseInv, Tick, Prompt
  PROVE  LeaseInv'
<1> USE DEF Tick, Prompt, InTime, LeaseInv, TypeOK, store, wait, beat, done
<1>1. ASSUME NEW s \in Runs PROVE (Waiting(s) /\ Working(s) /\ Leaving(s))'
  <2>1. now' = now + 1 /\ InTime(s)
    OBVIOUS
  <2>2. Waiting(s)'
    <3>1. seen[s].exp \in Nat  BY DEF Lock
    <3>. QED  BY <2>1, <3>1 DEF Waiting, Acquiring
  <2>3. Working(s)'  BY <2>1 DEF Working, Grace, Holding
  <2>4. Leaving(s)'  BY <2>1 DEF Leaving, Releasing
  <2>. QED  BY <2>2, <2>3, <2>4
<1>. QED  BY <1>1

\* The lease invariant is inductive in a prompt environment.
LEMMA LeaseInductive == TypeOK /\ LeaseInv /\ [Next /\ Prompt]_vars => LeaseInv'
<1> SUFFICES ASSUME TypeOK, LeaseInv, [Next /\ Prompt]_vars PROVE LeaseInv'
  OBVIOUS
<1>1. ASSUME NEW r \in Runs, Prompt, Begin(r) PROVE LeaseInv'
  BY <1>1, BeginKeeps, KeepsLease DEF Prompt
<1>2. ASSUME NEW r \in Runs, Prompt, Acquire(r) PROVE LeaseInv'
  BY <1>2, AcquireKeeps, KeepsLease DEF Prompt
<1>3. ASSUME NEW r \in Runs, Prompt, Beat(r) PROVE LeaseInv'
  BY <1>3, BeatKeeps, KeepsLease DEF Prompt
<1>4. ASSUME NEW r \in Runs, Prompt, Release(r) \/ WorkReturns(r) \/ Crash(r) PROVE LeaseInv'
  BY <1>4, ReleaseKeeps, KeepsLease DEF Prompt
<1>5. ASSUME NEW q \in late, Land(q) PROVE LeaseInv'
  BY <1>5 DEF LeaseInv
<1>6. CASE Tick /\ Prompt
  BY <1>6, TickKeepsLease
<1>7. CASE UNCHANGED vars
  BY <1>7 DEF vars, store, wait, beat, done, LeaseInv, Waiting, Working, Leaving, Grace
<1>8. ASSUME NEW r \in Runs, Interrupt(r) PROVE LeaseInv'
  BY <1>8 DEF Interrupt, store, wait, LeaseInv, Waiting, Working, Leaving, Grace
<1>. QED
  BY <1>1, <1>2, <1>3, <1>4, <1>5, <1>6, <1>7, <1>8, Zenon DEF Next

\* The types hold in a prompt environment too.
LEMMA PromptType == PromptSpec => []TypeOK
<1>1. TypeOK /\ [Next /\ Prompt]_vars => TypeOK'
  BY NextType
<1>. QED  BY InitType, <1>1, PTL DEF PromptSpec

\* At the start nobody holds anything.
LEMMA InitLease == Init => LeaseInv
BY DEF Init, LeaseInv, Waiting, Working, Leaving, NoLock, Acquiring, Holding, Releasing

\* Two leases on one object belong to one run.
LEMMA LeaseExcludes == TypeOK /\ LeaseInv => MutualExclusion
BY LeaseLasts DEF MutualExclusion, LeaseInv, Working

\* In a prompt environment the lease invariant always holds: for every number of
\* runs and every timing whose lease covers a whole acquisition, the missed ticks
\* and a release.
THEOREM LeaseAlways == PromptSpec => [](TypeOK /\ LeaseInv)
<1>1. Init => LeaseInv  BY InitLease
<1>. QED  BY <1>1, PromptType, LeaseInductive, PTL DEF PromptSpec

\* And with it mutual exclusion: no two runs work under the lock, and no holder
\* finds that it lost it (startHeartbeat, reclaimIfExpired, releaseLock).
THEOREM Exclusion == PromptSpec => []MutualExclusion
BY LeaseAlways, LeaseExcludes, PTL

-----------------------------------------------------------------------------
(***************************************************************************)
(* The prompt lock implements the abstract one.                            *)
(***************************************************************************)
\* A run that is granted the lock finds no other holder.
LEMMA ClaimAlone ==
  ASSUME TypeOK, LeaseInv, NEW r \in Runs, Claim(r)
  PROVE  Holders = {} /\ Holders' = {r}
<1> USE DEF Claim, Holders, Go, TypeOK
<1>1. Holders = {}
  BY LeaseLasts DEF Holding
<1>. QED  BY <1>1 DEF Holding

\* The other steps of a run keep it in or out, or take it out.
LEMMA StepHolders ==
  ASSUME TypeOK, NEW r \in Runs,
         \/ pc' = pc
         \/ pc[r] \notin Holding /\ \E to \in {"create", "inspect", "swap", "claim", "backoff",
                                               "check", "delete", "done", "crashed"} : Go(r, to)
         \/ pc[r] \in Holding /\ \E to \in {"join", "check", "done", "crashed"} : Go(r, to)
  PROVE  Holders' = Holders \/ Abstract!Leave(r)
BY DEF TypeOK, Holders, Holding, Go, Abstract!Leave

\* A step maps to a step of the abstract lock or to none.
LEMMA NextHolders ==
  ASSUME TypeOK, LeaseInv, [Next /\ Prompt]_vars
  PROVE  [Abstract!Next]_Holders
<1>1. ASSUME NEW r \in Runs, Claim(r) PROVE Abstract!Next
  BY <1>1, ClaimAlone DEF Abstract!Next, Abstract!Acquire
<1>2. ASSUME NEW r \in Runs, Begin(r) \/ Acquire(r) \/ Release(r) \/ WorkReturns(r) \/ Crash(r),
             ~Claim(r)
      PROVE  Holders' = Holders \/ Abstract!Leave(r)
  <2> USE StepHolders DEF Go, Holding
  <2>1. CASE Begin(r)        BY <2>1 DEF Begin, NextAttempt
  <2>2. CASE Acquire(r)
    <3>1. CASE HeadGone(r) \/ PutSwapGone(r)
      BY <3>1 DEF HeadGone, PutSwapGone, RetryNow, NextAttempt
    <3>2. CASE ~(HeadGone(r) \/ PutSwapGone(r))
      BY <1>2, <2>2, <3>2
         DEF Acquire, PutCreate, PutCreateFails, PutCreateRefused, PutConflicts, HeadExpired,
             HeadLive, HeadFails, PutSwap, PutSwapLoses, PutSwapFails, ClaimForeign, ClaimFails,
             Wake, GiveUp, NextAttempt, BackOff, Abandon
    <3>. QED  BY <3>1, <3>2
  <2>3. CASE Release(r)
    BY <2>3 DEF Release, Joined, CheckOwned, CheckNotOwned, CheckFails, DeleteObject,
                DeleteFails, Finish
  <2>4. CASE WorkReturns(r)  BY <2>4 DEF WorkReturns
  <2>5. CASE Crash(r)        BY <2>5 DEF Crash, TypeOK
  <2>. QED  BY <1>2, <2>1, <2>2, <2>3, <2>4, <2>5
<1>3. ASSUME NEW r \in Runs, Beat(r) PROVE Holders' = Holders
  BY <1>3 DEF Beat, BeatOwns, BeatForeign, BeatHeadFails, BeatLoses, BeatPut, BeatPutFails, Holders
<1>4. ASSUME NEW q \in late, Land(q) PROVE Holders' = Holders
  BY <1>4 DEF Land, Holders
<1>5. CASE Tick \/ UNCHANGED vars
  BY <1>5 DEF Tick, vars, Holders
<1>6. ASSUME NEW r \in Runs, Interrupt(r) PROVE Holders' = Holders
  BY <1>6 DEF Interrupt, Holders
<1>. QED
  BY <1>1, <1>2, <1>3, <1>4, <1>5, <1>6, Zenon DEF Next, Abstract!Next

\* A prompt environment gives every run the exclusive lock Backend.Lock promises.
THEOREM ImplementsExclusiveLock == PromptSpec => IsExclusiveLock
<1>1. Init => Holders = {}
  BY DEF Init, Holders, Holding
<1>2. Init => Abstract!Init
  BY <1>1 DEF Abstract!Init
<1>3. TypeOK /\ LeaseInv /\ [Next /\ Prompt]_vars => [Abstract!Next]_Holders
  BY NextHolders
<1>. QED
  BY <1>2, <1>3, LeaseAlways, PTL DEF PromptSpec, IsExclusiveLock, Abstract!Spec

-----------------------------------------------------------------------------
(***************************************************************************)
(* What a prompt run leaves behind.                                        *)
(***************************************************************************)
\* A step that writes only for run r leaves no orphan of another run.
LEMMA OthersLeaveNone ==
  ASSUME TypeOK, LeavesNoOrphan, NEW r \in Runs, Keeps(r), NEW s \in Runs \ {r}, relErr'[s] = relErr[s]
  PROVE  pc'[s] = "done" /\ obj'.tok = s => relErr'[s]
BY DEF Keeps, Writes, SameFor, LeavesNoOrphan, NoLock

\* An acquisition ends only where the run's token is not on the object.
LEMMA AcquireLeavesNone ==
  ASSUME TypeOK, LeaseInv, LeavesNoOrphan, NEW r \in Runs, Begin(r) \/ Acquire(r)
  PROVE  LeavesNoOrphan'
<1>1. Keeps(r)
  BY BeginKeeps, AcquireKeeps
<1>2. UNCHANGED relErr
  BY DEF Begin, Acquire, PutCreate, PutCreateFails, PutCreateRefused, PutConflicts, HeadExpired,
         HeadLive, HeadGone, HeadFails, PutSwap, PutSwapGone, PutSwapLoses, PutSwapFails, Claim,
         ClaimForeign, ClaimFails, Wake, GiveUp, Abandon, done
<1>3. pc'[r] = "done" => obj'.tok # r
  <2>1. CASE HeadFails(r) \/ GiveUp(r)
    BY <2>1 DEF HeadFails, GiveUp, LeaseInv, Waiting, Acquiring, store
  <2>2. CASE HeadGone(r) \/ PutSwapGone(r)
    BY <2>2 DEF HeadGone, PutSwapGone, RetryNow, NextAttempt, Go, TypeOK
  <2>3. CASE ~(HeadFails(r) \/ GiveUp(r) \/ HeadGone(r) \/ PutSwapGone(r))
    BY <2>3 DEF Begin, Acquire, PutCreate, PutCreateFails, PutCreateRefused, PutConflicts, HeadExpired,
       HeadLive, PutSwap, PutSwapLoses, PutSwapFails, Claim, ClaimForeign, ClaimFails, Wake,
       NextAttempt, BackOff, Abandon, Go, TypeOK
  <2>. QED  BY <2>1, <2>2, <2>3
<1>. QED  BY <1>1, <1>2, <1>3, OthersLeaveNone DEF LeavesNoOrphan

\* A release that ends without an error has deleted the object or found
\* another's; a heartbeat ends no run.
LEMMA ReleaseLeavesNone ==
  ASSUME TypeOK, LeaseInv, LeavesNoOrphan, NEW r \in Runs, Prompt,
         Beat(r) \/ Release(r) \/ WorkReturns(r) \/ Crash(r)
  PROVE  LeavesNoOrphan'
<1>1. Keeps(r)
  BY BeatKeeps, ReleaseKeeps DEF Prompt
<1>2. \A s \in Runs \ {r} : relErr'[s] = relErr[s]
  BY DEF TypeOK, Beat, BeatOwns, BeatForeign, BeatHeadFails, BeatLoses, BeatPut, BeatPutFails, Release,
         Joined, CheckOwned, CheckNotOwned, CheckFails, DeleteObject, DeleteFails, WorkReturns, Crash,
         Finish, done
<1>3. pc'[r] = "done" /\ obj'.tok = r => relErr'[r]
  <2> USE DEF TypeOK, Go, Finish, store
  <2>1. CASE Beat(r)
    <3>1. pc' = pc /\ pc[r] \in Holding
      BY <2>1 DEF Beat, BeatOwns, BeatForeign, BeatHeadFails, BeatLoses, BeatPut, BeatPutFails,
                  LeaseInv, Working
    <3>. QED  BY <3>1 DEF Holding
  <2>2. CASE Joined(r)        BY <2>2 DEF Joined
  <2>3. CASE CheckOwned(r)    BY <2>3 DEF CheckOwned
  <2>4. CASE CheckNotOwned(r) BY <2>4 DEF CheckNotOwned
  <2>5. CASE CheckFails(r) \/ DeleteFails(r)  BY <2>5 DEF CheckFails, DeleteFails
  <2>6. CASE DeleteObject(r)  BY <2>6, DeleteWrites DEF DeleteObject, NoLock
  <2>7. CASE WorkReturns(r) \/ Crash(r)  BY <2>7 DEF WorkReturns, Crash
  <2>. QED  BY <2>1, <2>2, <2>3, <2>4, <2>5, <2>6, <2>7 DEF Release
<1>. QED  BY <1>1, <1>2, <1>3, OthersLeaveNone DEF LeavesNoOrphan

\* A run that ended and whose cleanup did not itself fail leaves no object with
\* its token behind, however its acquisition failed (abandonLockObject) and
\* whatever its heartbeat was about when it released (releaseLock).
THEOREM NoOrphan == PromptSpec => []LeavesNoOrphan
<1>1. Init => LeavesNoOrphan
  BY DEF Init, LeavesNoOrphan
<1>2. TypeOK /\ LeaseInv /\ LeavesNoOrphan /\ [Next /\ Prompt]_vars => LeavesNoOrphan'
  <2> SUFFICES ASSUME TypeOK, LeaseInv, LeavesNoOrphan, [Next /\ Prompt]_vars
               PROVE  LeavesNoOrphan'
    OBVIOUS
  <2>1. CASE Tick \/ UNCHANGED vars
    BY <2>1 DEF Tick, vars, store, done, LeavesNoOrphan
  <2>2. ASSUME NEW q \in late, Land(q) PROVE LeavesNoOrphan'
    BY <2>2 DEF LeaseInv
  <2>3. ASSUME NEW r \in Runs, Interrupt(r) PROVE LeavesNoOrphan'
    BY <2>3 DEF Interrupt, store, LeavesNoOrphan
  <2>. QED
    BY <2>1, <2>2, <2>3, AcquireLeavesNone, ReleaseLeavesNone, Zenon DEF Next
<1>. QED  BY <1>1, <1>2, LeaseAlways, PTL DEF PromptSpec

\* Two acquisitions fit into one lease.  The shipped values, 300 and 600
\* seconds, are the largest that do.
TwoWaitsFit == 2 * Ceiling <= TTL

\* What a swap may lose to is an object that outlives its run's wait: whoever
\* wrote it did so after that run's HEAD, for a lease of its own.
SeesLive ==
  /\ TwoWaitsFit
  /\ \A r \in Runs : pc[r] = "swap" => obj \in {NoLock, seen[r]} \/ waitEnd[r] <= obj.exp

\* Whatever a run writes lasts at least one acquisition longer.
LEMMA WritesLast ==
  ASSUME TypeOK, LeaseInv, TwoWaitsFit, NEW r \in Runs, Prompt,
         Begin(r) \/ Acquire(r) \/ Beat(r) \/ Release(r) \/ WorkReturns(r) \/ Crash(r)
  PROVE  obj' \in {obj, NoLock} \/ now + Ceiling <= obj'.exp
<1> USE DEF TypeOK, Lock
<1>1. CASE Begin(r) \/ Acquire(r)
  <2>1. \/ obj' = obj
        \/ pc[r] \in {"create", "swap"} /\ obj' = [tok |-> r, exp |-> dl[r]]
    BY <1>1, CreateWrites, SwapWrites
       DEF Begin, Acquire, PutCreate, PutCreateFails, PutCreateRefused, PutConflicts, HeadExpired,
           HeadLive, HeadGone, HeadFails, PutSwap, PutSwapGone, PutSwapLoses, PutSwapFails, Claim,
           ClaimForeign, ClaimFails, Wake, GiveUp, Unanswered, store
  <2>2. pc[r] \in {"create", "swap"} => now + TTL <= dl[r] + Ceiling
    BY DEF LeaseInv, Waiting, Acquiring
  <2>. QED  BY <2>1, <2>2 DEF TwoWaitsFit
<1>2. CASE Beat(r)
  <2>1. obj' = obj \/ (hb[r] = "put" /\ obj' = [tok |-> r, exp |-> dl[r]])
    BY <1>2, RefreshWrites DEF Beat, BeatOwns, BeatForeign, BeatHeadFails, BeatLoses, BeatPut,
                               BeatPutFails, Unanswered, store
  <2>2. ASSUME hb[r] = "put" PROVE now + Ceiling <= dl[r]
    <3>1. pc[r] \in Holding /\ missed[r] <= MaxMissed /\ now <= hbDue[r] + OpTimeout /\ hbDue[r] + TTL <= dl[r]
      BY <2>2 DEF LeaseInv, Working
    <3>2. Ceiling + OpTimeout < TTL
      BY <3>1, GraceFacts
    <3>. QED  BY <3>1, <3>2
  <2>. QED  BY <2>1, <2>2
<1>3. CASE Release(r) \/ WorkReturns(r) \/ Crash(r)
  BY <1>3, DeleteWrites DEF Release, Joined, CheckOwned, CheckNotOwned, CheckFails, DeleteObject,
                            DeleteFails, Unanswered, WorkReturns, Crash, store
<1>. QED  BY <1>1, <1>2, <1>3

\* Only a HEAD that found the object expired leads to a swap.
LEMMA SwapsAfterHead ==
  ASSUME TypeOK, NEW r \in Runs, NEW s \in Runs, pc'[s] = "swap",
         Begin(r) \/ Acquire(r) \/ Beat(r) \/ Release(r) \/ WorkReturns(r) \/ Crash(r)
  PROVE  \/ HeadExpired(r) /\ s = r /\ seen'[s] = obj /\ obj' = obj
         \/ UNCHANGED <<pc, seen, waitEnd>>
         \/ s # r /\ pc[s] = "swap" /\ seen'[s] = seen[s] /\ waitEnd'[s] = waitEnd[s]
<1> USE DEF TypeOK, Go, NextAttempt, BackOff, Abandon, Finish, store, wait
<1>1. CASE HeadExpired(r)  BY <1>1 DEF HeadExpired
<1>2. CASE HeadGone(r) \/ PutSwapGone(r)
  BY <1>2 DEF HeadGone, PutSwapGone, RetryNow
<1>3. CASE (Begin(r) \/ Acquire(r)) /\ ~HeadExpired(r) /\ ~HeadGone(r) /\ ~PutSwapGone(r)
  BY <1>3 DEF Begin, Acquire, PutCreate, PutCreateFails, PutCreateRefused, PutConflicts, HeadLive,
     HeadFails, PutSwap, PutSwapLoses, PutSwapFails, Claim, ClaimForeign, ClaimFails, Wake, GiveUp
<1>4. CASE Beat(r)
  BY <1>4 DEF Beat, BeatOwns, BeatForeign, BeatHeadFails, BeatLoses, BeatPut, BeatPutFails, SkipBeat
<1>5. CASE Release(r) \/ WorkReturns(r) \/ Crash(r)
  BY <1>5 DEF Release, Joined, CheckOwned, CheckNotOwned, CheckFails, DeleteObject, DeleteFails,
              WorkReturns, Crash
<1>. QED  BY <1>1, <1>2, <1>3, <1>4, <1>5

\* A step of a run keeps what every swap may find.
LEMMA StepSeesLive ==
  ASSUME TypeOK, LeaseInv, SeesLive, NEW r \in Runs, Prompt,
         Begin(r) \/ Acquire(r) \/ Beat(r) \/ Release(r) \/ WorkReturns(r) \/ Crash(r)
  PROVE  SeesLive'
<1> SUFFICES ASSUME NEW s \in Runs, pc'[s] = "swap"
             PROVE  obj' \in {NoLock, seen'[s]} \/ waitEnd'[s] <= obj'.exp
  BY DEF SeesLive, TwoWaitsFit
<1>1. CASE seen'[s] = obj /\ obj' = obj
  BY <1>1
<1>2. CASE pc[s] = "swap" /\ seen'[s] = seen[s] /\ waitEnd'[s] = waitEnd[s]
  <2>1. waitEnd[s] <= now + Ceiling
    BY <1>2 DEF LeaseInv, Waiting, Acquiring
  <2>2. obj' \in {obj, NoLock} \/ now + Ceiling <= obj'.exp
    BY WritesLast DEF SeesLive
  <2>3. waitEnd[s] \in Nat /\ now \in Nat /\ Ceiling \in Nat
    BY DEF TypeOK
  <2>4. CASE obj' \in {obj, NoLock}
    BY <1>2, <2>4 DEF SeesLive
  <2>5. CASE obj' \notin {obj, NoLock}
    <3>1. obj' \in Lock
      BY NextType DEF Next, TypeOK
    <3>. QED  BY <1>2, <2>1, <2>2, <2>3, <2>5, <3>1 DEF Lock
  <2>. QED  BY <2>4, <2>5
<1>. QED  BY <1>1, <1>2, SwapsAfterHead

\* An acquisition reports that it observed a holder (exit 8, not 4) only of the
\* lock of another run that had not expired: its HEAD judged it so, or its swap
\* lost to an object written in the meantime, which still outlives its wait.
THEOREM ObservedIsHeld == TwoWaitsFit /\ PromptSpec => ObservedMeansHeld
<1> DEFINE A == \A r \in Runs : ~observed[r] /\ observed'[r]
                                => obj.tok \in Runs \ {r} /\ MayBeLive(obj)
<1>1. TwoWaitsFit /\ Init => SeesLive
  BY DEF Init, SeesLive
<1>2. TypeOK /\ LeaseInv /\ SeesLive /\ [Next /\ Prompt]_vars => SeesLive'
  <2> SUFFICES ASSUME TypeOK, LeaseInv, SeesLive, [Next /\ Prompt]_vars
               PROVE  SeesLive'
    OBVIOUS
  <2>1. CASE Tick \/ UNCHANGED vars
    BY <2>1 DEF Tick, vars, store, wait, SeesLive, TwoWaitsFit
  <2>2. ASSUME NEW q \in late, Land(q) PROVE SeesLive'
    BY <2>2 DEF LeaseInv
  <2>3. ASSUME NEW r \in Runs, Interrupt(r) PROVE SeesLive'
    BY <2>3 DEF Interrupt, store, wait, SeesLive, TwoWaitsFit
  <2>. QED
    BY <2>1, <2>2, <2>3, StepSeesLive, Zenon DEF Next
<1>3. TypeOK /\ LeaseInv /\ SeesLive /\ [Next /\ Prompt]_vars => [A]_vars
  <2> SUFFICES ASSUME TypeOK, LeaseInv, SeesLive, Next, NEW s \in Runs, ~observed[s], observed'[s]
               PROVE  obj.tok \in Runs \ {s} /\ MayBeLive(obj)
    OBVIOUS
  <2>1. obj \in Lock /\ (obj.tok = Nobody => obj = NoLock)
    BY DEF TypeOK, LeaseInv
  <2>2. ASSUME NEW r \in Runs, HeadLive(r) \/ PutSwapLoses(r)
        PROVE  obj.tok \in Runs \ {s} /\ MayBeLive(obj)
    <3>1. s = r
      BY <2>2 DEF HeadLive, PutSwapLoses, BackOff, TypeOK
    <3>2. obj # NoLock /\ obj.tok # r
      BY <2>2 DEF HeadLive, PutSwapLoses, LeaseInv, Waiting, Acquiring
    <3>3. MayBeLive(obj)
      <4>1. CASE HeadLive(r)  BY <4>1 DEF HeadLive
      <4>2. CASE PutSwapLoses(r)
        <5>1. waitEnd[r] <= obj.exp /\ now <= waitEnd[r]
          BY <4>2 DEF PutSwapLoses, SeesLive, LeaseInv, Waiting, Acquiring
        <5>. QED  BY <2>1, <5>1 DEF MayBeLive, TypeOK, Lock
      <4>. QED  BY <2>2, <4>1, <4>2
    <3>. QED  BY <2>1, <3>1, <3>2, <3>3 DEF Lock
  <2>3. ASSUME NEW r \in Runs, ClaimForeign(r) PROVE FALSE
    BY <2>3 DEF ClaimForeign, LeaseInv, Waiting
  <2>4. ASSUME NEW r \in Runs, PutConflicts(r) PROVE FALSE
    BY <2>4 DEF PutConflicts, BackOff, TypeOK
  <2>5. ASSUME NEW r \in Runs, Begin(r) \/ Acquire(r), ~HeadLive(r), ~PutSwapLoses(r),
               ~ClaimForeign(r), ~PutConflicts(r)
        PROVE  FALSE
    BY <2>5 DEF Begin, Acquire, PutCreate, PutCreateFails, PutCreateRefused, HeadExpired, HeadGone,
       HeadFails, PutSwap, PutSwapGone, PutSwapFails, Claim, ClaimFails, Wake, GiveUp, RetryNow,
       Abandon, wait
  <2>6. ASSUME NEW r \in Runs, Beat(r) \/ Release(r) \/ WorkReturns(r) \/ Crash(r) PROVE FALSE
    BY <2>6 DEF Beat, BeatOwns, BeatForeign, BeatHeadFails, BeatLoses, BeatPut, BeatPutFails, Release,
       Joined, CheckOwned, CheckNotOwned, CheckFails, DeleteObject, DeleteFails, Finish, WorkReturns,
       Crash, wait
  <2>7. CASE Tick  BY <2>7 DEF Tick, wait
  <2>8. ASSUME NEW q \in late, Land(q) PROVE FALSE
    BY <2>8 DEF LeaseInv
  <2>9. ASSUME NEW r \in Runs, Interrupt(r) PROVE FALSE
    BY <2>9 DEF Interrupt, wait
  <2>. QED  BY <2>2, <2>3, <2>4, <2>5, <2>6, <2>7, <2>8, <2>9, Zenon DEF Next
<1>4. TwoWaitsFit /\ PromptSpec => [][A]_vars
  BY <1>1, <1>2, <1>3, LeaseAlways, PTL DEF PromptSpec
<1>. QED  BY <1>4 DEF ObservedMeansHeld

-----------------------------------------------------------------------------
(***************************************************************************)
(* With no assumption on the environment.                                  *)
(***************************************************************************)
\* A swap, sent or still to land, is conditioned on an object that had expired.
SwapsExpired ==
  /\ \A r \in Runs : pc[r] = "swap" => seen[r].exp <= now
  /\ \A q \in late : q.op = "swap" => q.etag.exp <= now

\* A heartbeat runs only under a holder, and a release ends the holder context
\* only when no heartbeat runs any more; an interrupt may end it at any time.
BeatsInOrder ==
  \A r \in Runs : /\ hb[r] # "off" => pc[r] \in Holding
                  /\ lost[r] => cause[r] \in {"lost", "canceled"}
                  /\ cause[r] = "canceled" => interrupted[r]
                  /\ cause[r] = "ended" => pc[r] \in Releasing \cup Ended
                  /\ pc[r] \in Releasing \cup Ended => hb[r] = "off"

AnyInv == SwapsExpired /\ BeatsInOrder

\* At the start nothing is in flight and nothing lost.
LEMMA InitAny == Init => AnyInv
BY DEF Init, AnyInv, SwapsExpired, BeatsInOrder

\* What an unanswered request or a crash may leave in flight.
LEMMA LateSwaps ==
  ASSUME TypeOK, SwapsExpired, now' = now, NEW q \in Request,
         q.op = "swap" => q.etag.exp <= now, late' \in {late, late \cup {q}}
  PROVE  (\A p \in late : p.op = "swap" => p.etag.exp <= now)'
BY DEF SwapsExpired

\* An acquisition swaps only what its HEAD found expired.
LEMMA AcquireAny ==
  ASSUME TypeOK, AnyInv, NEW r \in Runs, Begin(r) \/ Acquire(r)
  PROVE  AnyInv'
<1> USE DEF AnyInv, TypeOK, Acquiring, Holding, Releasing, Ended, Go, NextAttempt, BackOff,
            Abandon, store, wait, beat, done
<1>1. BeatsInOrder'
  <2>1. pc[r] \in {"idle"} \cup Acquiring /\ UNCHANGED <<lost, cause, interrupted>>
    BY DEF Begin, Acquire, PutCreate, PutCreateFails, PutCreateRefused, PutConflicts,
           HeadExpired, HeadLive, HeadGone, HeadFails, PutSwap, PutSwapGone, PutSwapLoses,
           PutSwapFails, Claim, ClaimForeign, ClaimFails, Wake, GiveUp
  <2>2. CASE Claim(r)
    BY <2>1, <2>2 DEF Claim, BeatsInOrder
  <2>3. CASE ~Claim(r)
    <3>1. UNCHANGED hb
      BY <2>3 DEF Begin, Acquire, PutCreate, PutCreateFails, PutCreateRefused, PutConflicts,
                  HeadExpired, HeadLive, HeadGone, HeadFails, PutSwap, PutSwapGone, PutSwapLoses,
                  PutSwapFails, ClaimForeign, ClaimFails, Wake, GiveUp
    <3>2. \E to \in Acquiring \cup {"check", "done"} : pc' = [pc EXCEPT ![r] = to]
      <4>1. CASE HeadGone(r) \/ PutSwapGone(r)
        BY <4>1 DEF HeadGone, PutSwapGone, RetryNow
      <4>2. CASE ~(HeadGone(r) \/ PutSwapGone(r))
        BY <2>3, <4>2 DEF Begin, Acquire, PutCreate, PutCreateFails, PutCreateRefused,
           PutConflicts, HeadExpired, HeadLive, HeadFails, PutSwap, PutSwapLoses, PutSwapFails,
           ClaimForeign, ClaimFails, Wake, GiveUp
      <4>. QED  BY <4>1, <4>2
    <3>. QED  BY <2>1, <3>1, <3>2 DEF BeatsInOrder
  <2>. QED  BY <2>2, <2>3
<1>2. SwapsExpired'
  <2> USE DEF SwapsExpired
  <2>1. CASE PutCreateFails(r)
    BY <2>1, LateSwaps, RequestType DEF PutCreateFails, Unanswered, Create
  <2>2. CASE PutSwapFails(r)
    BY <2>2, LateSwaps, RequestType DEF PutSwapFails, Unanswered, Swap
  <2>3. CASE HeadGone(r) \/ PutSwapGone(r)
    <3>1. \E to \in {"create", "backoff"} : pc' = [pc EXCEPT ![r] = to]
      BY <2>3 DEF HeadGone, PutSwapGone, RetryNow
    <3>2. seen' = [seen EXCEPT ![r] = NoLock] /\ UNCHANGED <<now, late>>
      BY <2>3 DEF HeadGone, PutSwapGone, RetryNow
    <3>. QED  BY <3>1, <3>2
  <2>4. CASE HeadExpired(r)
    BY <2>4 DEF HeadExpired, MayBeExpired
  <2>5. CASE ~(\/ PutCreateFails(r) \/ PutSwapFails(r) \/ HeadGone(r) \/ PutSwapGone(r)
               \/ HeadExpired(r))
    <3>1. UNCHANGED <<now, late>>
      BY <2>5 DEF Begin, Acquire, PutCreate, PutCreateRefused, PutConflicts, HeadLive, HeadFails,
                  PutSwap, PutSwapLoses, Claim, ClaimForeign, ClaimFails, Wake, GiveUp
    <3>2. \E to \in {"idle", "create", "inspect", "claim", "backoff", "check", "work", "done"} :
            pc' = [pc EXCEPT ![r] = to]
      BY <2>5 DEF Begin, Acquire, PutCreate, PutCreateRefused, PutConflicts, HeadLive, HeadFails,
                  PutSwap, PutSwapLoses, Claim, ClaimForeign, ClaimFails, Wake, GiveUp
    <3>3. \A s \in Runs \ {r} : seen'[s] = seen[s]
      BY <2>5 DEF Begin, Acquire, PutCreate, PutCreateRefused, PutConflicts, HeadLive, HeadFails,
                  PutSwap, PutSwapLoses, Claim, ClaimForeign, ClaimFails, Wake, GiveUp
    <3>. QED  BY <3>1, <3>2, <3>3
  <2>. QED  BY <2>1, <2>2, <2>3, <2>4, <2>5
<1>. QED  BY <1>1, <1>2

\* A heartbeat records a loss and its cause together.
LEMMA BeatAny ==
  ASSUME TypeOK, AnyInv, NEW r \in Runs, Beat(r)
  PROVE  AnyInv'
<1> USE DEF AnyInv, TypeOK, Holding, Releasing, Ended, store, wait, beat, done
<1>1. CASE BeatPutFails(r)
  <2>1. /\ UNCHANGED <<now, pc, lost, cause, interrupted, wait>> /\ hb[r] = "put"
        /\ \E b \in {"off", "wait"} : hb' = [hb EXCEPT ![r] = b]
    BY <1>1 DEF BeatPutFails, SkipBeat
  <2>2. BeatsInOrder'  BY <2>1 DEF BeatsInOrder
  <2>3. late' \in {late, late \cup {Refresh(r)}} /\ Refresh(r).op = "refresh"
    BY <1>1 DEF BeatPutFails, Unanswered, Refresh
  <2>4. (\A p \in late : p.op = "swap" => p.etag.exp <= now)'
    BY <2>1, <2>3, LateSwaps, RequestType
  <2>. QED  BY <2>1, <2>2, <2>4 DEF SwapsExpired
<1>2. CASE ~BeatPutFails(r)
  <2>1. BeatsInOrder'
    BY <1>2 DEF Beat, BeatOwns, BeatForeign, BeatHeadFails, BeatLoses, BeatPut, SkipBeat, BeatsInOrder
  <2>2. UNCHANGED <<now, late, pc, seen>>
    BY <1>2 DEF Beat, BeatOwns, BeatForeign, BeatHeadFails, BeatLoses, BeatPut
  <2>. QED  BY <2>1, <2>2 DEF SwapsExpired
<1>. QED  BY <1>1, <1>2

\* A release cancels the holder context only after the heartbeat ended.
LEMMA ReleaseAny ==
  ASSUME TypeOK, AnyInv, NEW r \in Runs, Release(r) \/ WorkReturns(r) \/ Crash(r)
  PROVE  AnyInv'
<1> USE DEF AnyInv, TypeOK, Holding, Releasing, Ended, Go, Finish, store, wait, beat, done
<1>1. BeatsInOrder'
  BY DEF Release, Joined, CheckOwned, CheckNotOwned, CheckFails, DeleteObject, DeleteFails,
         WorkReturns, Crash, BeatsInOrder
<1>2. UNCHANGED <<now, seen>> /\ \E to \in Holding \cup Releasing \cup Ended : pc' = [pc EXCEPT ![r] = to]
  BY DEF Release, Joined, CheckOwned, CheckNotOwned, CheckFails, DeleteObject, DeleteFails,
         WorkReturns, Crash
<1>3. (\A p \in late : p.op = "swap" => p.etag.exp <= now)'
  <2>1. CASE DeleteFails(r)
    BY <2>1, <1>2, LateSwaps, RequestType DEF DeleteFails, Unanswered, Delete
  <2>2. CASE Crash(r)
    <3>1. \/ late' = late
          \/ \E q \in InFlight(r) : late' = late \cup {q}
      BY <2>2 DEF Crash
    <3>2. ASSUME NEW q \in InFlight(r)
          PROVE  q \in Request /\ (q.op = "swap" => pc[r] = "swap" /\ q.etag = seen[r])
      <4>1. q \in {Create(r), Swap(r), Refresh(r), Delete(r)}
        BY DEF InFlight
      <4>2. q \in Request
        BY <4>1, RequestType
      <4>3. CASE q.op = "swap"
        <5>1. q = Swap(r)  BY <4>1, <4>3 DEF Create, Refresh, Delete
        <5>2. pc[r] = "swap"  BY <4>3 DEF InFlight
        <5>. QED  BY <4>2, <5>1, <5>2 DEF Swap
      <4>. QED  BY <4>2, <4>3
    <3>. QED  BY <1>2, <3>1, <3>2 DEF SwapsExpired
  <2>3. CASE ~(DeleteFails(r) \/ Crash(r))
    BY <1>2, <2>3 DEF Release, Joined, CheckOwned, CheckNotOwned, CheckFails, DeleteObject,
                      WorkReturns, SwapsExpired
  <2>. QED  BY <2>1, <2>2, <2>3
<1>. QED  BY <1>1, <1>2, <1>3 DEF SwapsExpired

\* Every step keeps both.
LEMMA NextAny == TypeOK /\ AnyInv /\ [Next]_vars => AnyInv'
<1> SUFFICES ASSUME TypeOK, AnyInv, [Next]_vars PROVE AnyInv'
  OBVIOUS
<1>1. ASSUME NEW q \in late, Land(q) PROVE AnyInv'
  BY <1>1 DEF Land, AnyInv, SwapsExpired, BeatsInOrder, wait, beat, done
<1>4. ASSUME NEW r \in Runs, Interrupt(r) PROVE AnyInv'
  BY <1>4 DEF Interrupt, store, wait, TypeOK, AnyInv, SwapsExpired, BeatsInOrder, Releasing, Ended
<1>2. CASE Tick
  <2>1. now' = now + 1 /\ UNCHANGED <<late, pc, seen, hb, lost, cause, interrupted>>
    BY <1>2 DEF Tick, store, wait, beat, done
  <2>2. now \in Nat /\ (\A r \in Runs : seen[r].exp \in Nat) /\ \A q \in late : q.etag.exp \in Nat
    BY DEF TypeOK, Lock, Request
  <2>. QED  BY <2>1, <2>2 DEF AnyInv, SwapsExpired, BeatsInOrder
<1>3. CASE UNCHANGED vars
  BY <1>3 DEF vars, store, wait, beat, done, AnyInv, SwapsExpired, BeatsInOrder
<1>. QED
  BY <1>1, <1>2, <1>3, <1>4, AcquireAny, BeatAny, ReleaseAny, Zenon DEF Next

\* Nothing but expired locks is ever the target of a swap, and a heartbeat never
\* outlives the holder it serves: whatever fails, and however late.
THEOREM AnyAlways == Spec => [](TypeOK /\ AnyInv)
BY InitAny, InitType, NextType, NextAny, PTL DEF Spec

\* The cause a loss leaves on the holder context survives the release: a run
\* whose heartbeat recorded one reads the loss there, or the end of its caller's
\* own context if that came first.
THEOREM LossCauseKept == Spec => []LossIsTheCause
<1>1. AnyInv => LossIsTheCause
  BY DEF AnyInv, BeatsInOrder, LossIsTheCause
<1>. QED  BY <1>1, AnyAlways, PTL

\* No acquisition takes over a lock that is still live, even when its process was
\* suspended before the swap or the swap was applied after its sender gave up.
THEOREM NoLiveTakeover == Spec => TakesNoLiveLock
<1> DEFINE Takes(r) ==
             /\ obj' # obj /\ obj'.tok = r /\ obj.tok # r
             /\ pc[r] \notin Holding /\ \A q \in late : q.by = r => q.op \in {"create", "swap"}
           A == \A r \in Runs : Takes(r) => obj = NoLock \/ MayBeExpired(obj)
<1>1. TypeOK /\ AnyInv /\ [Next]_vars => [A]_vars
  <2> SUFFICES ASSUME TypeOK, AnyInv, Next, NEW r \in Runs, Takes(r)
               PROVE  obj = NoLock \/ obj.exp <= now
    BY DEF MayBeExpired
  <2> USE DEF TypeOK
  <2>1. ASSUME NEW s \in Runs, Begin(s) \/ Acquire(s) PROVE obj = NoLock \/ obj.exp <= now
    BY <2>1, CreateWrites, SwapWrites
       DEF Begin, Acquire, PutCreate, PutCreateFails, PutCreateRefused, PutConflicts, HeadExpired,
           HeadLive, HeadGone, HeadFails, PutSwap, PutSwapGone, PutSwapLoses, PutSwapFails, Claim,
           ClaimForeign, ClaimFails, Wake, GiveUp, Unanswered, store, AnyInv, SwapsExpired
  <2>2. ASSUME NEW s \in Runs, Beat(s) PROVE obj = NoLock \/ obj.exp <= now
    <3>1. hb[s] = "put" /\ obj' = [tok |-> s, exp |-> dl[s]]
      BY <2>2, RefreshWrites DEF Beat, BeatOwns, BeatForeign, BeatHeadFails, BeatLoses, BeatPut,
                                 BeatPutFails, Unanswered, store
    <3>. QED  BY <3>1 DEF AnyInv, BeatsInOrder
  <2>3. ASSUME NEW s \in Runs, Release(s) \/ WorkReturns(s) \/ Crash(s)
        PROVE  obj = NoLock \/ obj.exp <= now
    <3>1. obj' = NoLock
      BY <2>3, DeleteWrites DEF Release, Joined, CheckOwned, CheckNotOwned, CheckFails,
         DeleteObject, DeleteFails, Unanswered, WorkReturns, Crash, store
    <3>. QED  BY <3>1 DEF NoLock
  <2>4. ASSUME NEW q \in late, Land(q) PROVE obj = NoLock \/ obj.exp <= now
    BY <2>4 DEF Land, Effect, Matches, Written, NoLock, Request, AnyInv, SwapsExpired
  <2>5. CASE Tick
    BY <2>5 DEF Tick, store
  <2>6. ASSUME NEW s \in Runs, Interrupt(s) PROVE obj = NoLock \/ obj.exp <= now
    BY <2>6 DEF Interrupt, store
  <2>. QED  BY <2>1, <2>2, <2>3, <2>4, <2>5, <2>6, Zenon DEF Next
<1>2. Spec => [][A]_vars
  BY <1>1, AnyAlways, PTL DEF Spec
<1>. QED  BY <1>2 DEF TakesNoLiveLock
=============================================================================
