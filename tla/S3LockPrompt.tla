---------------------------- MODULE S3LockPrompt ----------------------------
(***************************************************************************)
(* The environment the timings are chosen for (docs/caching.md, and        *)
(* TestStateObjectDeadlineFitsInsideTheLockTimings for three of them): a   *)
(* run is never suspended past a deadline of its own, a request its sender *)
(* gave up on is never applied later, and a heartbeat fails to refresh at  *)
(* most MaxMissed times in a row.                                          *)
(***************************************************************************)
EXTENDS S3Lock

InTime(r) ==
  /\ pc[r] \in Acquiring => now < waitEnd[r]
  /\ pc[r] \in Releasing => now < relEnd[r]
  /\ hb[r] # "off" \/ pc[r] = "join" => now < hbDue[r] + OpTimeout

Prompt ==
  /\ now' # now => \A r \in Runs : InTime(r)
  /\ late' = {}
  /\ \A r \in Runs : missed'[r] <= MaxMissed

PromptSpec == Init /\ [][Next /\ Prompt]_vars

\* A lease outlives the longest acquisition, every tick that may miss, the tick
\* that does not, and the release that follows.
ASSUME LeaseCoversAssumption ==
  Ceiling + (MaxMissed + 1) * Heartbeat + OpTimeout + RelTimeout < TTL

-----------------------------------------------------------------------------
(***************************************************************************)
(* Properties.                                                             *)
(***************************************************************************)
\* At most one run does its work under the lock at a time, and no holder ever
\* finds that it lost it.  In a prompt environment only: startHeartbeat,
\* reclaimIfExpired and releaseLock against lockExpired.
MutualExclusion ==
  /\ \A r, s \in Runs : pc[r] \in Holding /\ pc[s] \in Holding => r = s
  /\ \A r \in Runs : ~lost[r]

\* The same as an abstract lock: what a holder is promised.
Holders == {r \in Runs : pc[r] \in Holding}
Abstract == INSTANCE ExclusiveLock WITH holders <- Holders
IsExclusiveLock == Abstract!Spec

\* What counts as having observed a holder, and so turns an outage (exit 4) into
\* contention (exit 8): the lock of another run that had not expired.
ObservedMeansHeld ==
  [][\A r \in Runs :
       ~observed[r] /\ observed'[r]
       => obj.tok \in Runs \ {r} /\ MayBeLive(obj)]_vars

-----------------------------------------------------------------------------
(***************************************************************************)
(* The inductive invariant behind MutualExclusion.  Whoever may still act  *)
(* on the lock as its own has its token on the object, and the object's    *)
(* deadline lies beyond the last moment at which it may do so.             *)
(***************************************************************************)
\* The ticks run r may still miss, in time.
Grace(r) == (MaxMissed - missed[r]) * Heartbeat

Waiting(r) ==
  /\ pc[r] \in Acquiring => now <= waitEnd[r] /\ waitEnd[r] <= now + Ceiling
  /\ pc[r] \in {"create", "swap"} => waitEnd[r] + TTL <= dl[r] + Ceiling
  /\ pc[r] = "swap" => seen[r].exp <= now
  /\ pc[r] \in Acquiring \ {"claim"} => obj.tok # r
  /\ pc[r] = "claim" => obj.tok = r /\ waitEnd[r] + TTL <= obj.exp + Ceiling
  /\ pc[r] = "idle" => obj.tok # r
  /\ pc[r] \in {"idle"} \cup Acquiring => missed[r] = 0

Working(r) ==
  /\ pc[r] \in Holding => /\ obj.tok = r
                           /\ now <= hbDue[r] + OpTimeout
                           /\ missed[r] <= MaxMissed
                           /\ hbDue[r] + Grace(r) + OpTimeout + RelTimeout < obj.exp
  /\ pc[r] = "work" => hb[r] # "off"
  /\ pc[r] \notin Holding => hb[r] = "off"
  /\ hb[r] = "put" => hbDue[r] + TTL <= dl[r]
  /\ hb[r] # "foreign" /\ ~lost[r]

Leaving(r) ==
  /\ pc[r] \in Releasing => now <= relEnd[r]
  /\ pc[r] \in Releasing /\ obj.tok = r => relEnd[r] < obj.exp
  /\ pc[r] = "delete" => obj.tok = r

LeaseInv ==
  /\ late = {}
  /\ obj.tok = Nobody => obj = NoLock
  /\ \A r \in Runs : Waiting(r) /\ Working(r) /\ Leaving(r)
=============================================================================
