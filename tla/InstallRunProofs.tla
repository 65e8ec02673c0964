-------------------------- MODULE InstallRunProofs --------------------------
(***************************************************************************)
(* Theorems about InstallRun, for every plan, any number of workers and    *)
(* every point at which a signal or the loss of the lock cuts the run      *)
(* short: nothing runs without the lock, exit 0 means done and saved, and  *)
(* every temp file is removed by the time the run ends.                    *)
(***************************************************************************)
EXTENDS InstallRun, TLAPS

(* TypeOK, part by part.                                                   *)
Phases == Pools \cup {"start", "load", "unlock", "begin", "resolve", "plan", "schedule", "between",
                      "openroles", "reclaim", "save", "judge", "memo", "close", "release", "exit", "ended"}
TypeRun ==
  /\ cmd \in {"install", "warm"} /\ noCache \in BOOLEAN /\ graph \in Graphs
  /\ phase \in Phases
  /\ open \in BOOLEAN /\ held \in BOOLEAN
  /\ caught \in BOOLEAN /\ canceled \in BOOLEAN /\ lost \in BOOLEAN
TypePool ==
  /\ levels \in Seq(SUBSET Cols)
  /\ todo \in SUBSET Items /\ pick \in Items \cup {None}
  /\ st \in [Items -> {"none", "wait", "run", "ok", "failed"}]
TypeTemps ==
  /\ pf \in [Cols -> {"off", "queued", "fetch", "stored", "done"}]
  /\ shelf \in SUBSET Cols
  /\ memo \in [Cols -> Roots \cup {None}]
  /\ hand \in [Cols -> SUBSET Temps]
  /\ files \in SUBSET Temps
TypeResult ==
  /\ records \in SUBSET (Cols \cup Roles) /\ snapshot \in SUBSET (Cols \cup Roles)
  /\ saved \in BOOLEAN
  /\ errs \in SUBSET {"failed", "canceled", "busy"}
  /\ exit \in {None, "ok", "failed", "interrupt", "busy", "signal"}

(* Phases in which the run is inside withBackend, and those after the run  *)
(* was judged.                                                             *)
Inside == Pools \cup {"load", "begin", "resolve", "plan", "schedule", "openroles", "between",
                      "save", "reclaim", "memo", "close"}
Judged == {"memo", "close", "release", "exit", "ended"}

Active(x) == st[x] \in {"wait", "run"}

(* Goroutines of the pools run only inside a pool, which ends when none is *)
(* left and nothing waits to be dispatched.                                *)
Pooled ==
  /\ \A x \in Items : Active(x) => phase \in Pools
  /\ (pick # None \/ todo # {}) => phase \in Pools

(* A prefetch that is not over, or was not taken, is yet to be reclaimed.  *)
Unreclaimed ==
  \/ phase \in {"openroles", "between", "level", "reclaim"}
  \/ cmd = "install" /\ phase \in {"roles", "save"}
Fetching == \A c \in Cols : (pf[c] \notin {"off", "done"} \/ c \in shelf) => Unreclaimed

Locked ==
  /\ phase \in Inside => held /\ open
  /\ phase = "start" \/ (phase = "judge" /\ held) => open

(* Temp files have owners, and a worker owns some only while it runs.      *)
Hands ==
  \A c \in Cols : /\ hand[c] # {} => st[c] = "run"
                  /\ memo[c] # None => Yields[memo[c]] = c
Owned == \A f \in files : f \in shelf \/ \E c \in Cols : memo[c] = f \/ f \in hand[c]
Filed == files # {} => held /\ phase \notin {"start", "load", "unlock", "begin", "close", "release", "exit", "ended"}

(* Two roots that expand to one collection would overwrite each other's    *)
(* build in the memo.                                                      *)
OneRootEach == \A q, r \in Roots : Yields[q] = Yields[r] => q = r

(* What cuts a run short shows in its result, until it is judged in the    *)
(* loss of the lock and in the signal as well.                             *)
Cut == errs # {} \/ caught \/ (lost /\ phase \notin Judged)
Shown == /\ canceled => caught
         /\ \A x \in Items : st[x] = "failed" => errs # {}
         /\ phase = "unlock" => errs # {}

(* Nothing is dispatched twice: what waits in line has not been touched.   *)
Untouched(x) == st[x] = "none"
Early == {"start", "load", "begin", "discover", "resolve", "plan"}
Late == {"schedule", "openroles", "between", "level"}
Fresh ==
  /\ \A x \in Items : x \in todo \/ x = pick => Untouched(x)
  /\ pick \notin todo
  /\ phase \in {"start", "load", "begin"} => \A r \in Roots : Untouched(r)
  /\ phase \in Early => \A c \in Cols : Untouched(c)
  /\ phase \in Early \cup Late \/ (cmd = "warm" /\ phase = "reclaim") => \A r \in Roles : Untouched(r)
  /\ phase = "discover" => todo \subseteq Roots /\ (pick = None \/ pick \in Roots)
  /\ phase = "level" => todo \subseteq Cols /\ (pick = None \/ pick \in Cols)

(* The levels share nothing, and a level not begun is wholly untouched.    *)
Disjoint ==
  /\ \A i, j \in DOMAIN levels : i # j => levels[i] \cap levels[j] = {}
  /\ phase \in Late => \A i \in DOMAIN levels : \A c \in levels[i] : Untouched(c) /\ c \notin todo /\ c # pick
  /\ phase \in {"start", "load", "begin", "discover", "resolve"} => levels = <<>>

(* Unless the run was cut short, what is not done yet is still in line.    *)
InLine(x) == st[x] = "ok" \/ Active(x) \/ x \in todo \/ x = pick
Levelled(c) == phase \in {"schedule", "openroles", "between", "level"} /\ c \in Placed
ColsDone ==
  phase \in {"schedule", "openroles", "between", "level", "reclaim", "roles", "save", "judge"} \cup Judged =>
    Cut \/ \A c \in Cols : InLine(c) \/ Levelled(c)
RolesDone ==
  phase \in {"roles", "save", "judge"} \cup Judged \/ (cmd = "install" /\ phase = "reclaim") =>
    Cut \/ \A r \in Roles : InLine(r)
Saved ==
  phase \in {"judge"} \cup Judged \/ (cmd = "install" /\ phase = "reclaim") =>
    errs # {} \/ (saved /\ snapshot = records)

Ended == (exit # None => phase = "ended") /\ OkMeansDone

IInv ==
  /\ TypeRun /\ TypePool /\ TypeTemps /\ TypeResult
  /\ Pooled /\ Fetching /\ Locked /\ Fresh /\ Disjoint
  /\ Hands /\ (OneRootEach => Owned /\ Filed)
  /\ Shown /\ ColsDone /\ RolesDone /\ Saved /\ Ended

-----------------------------------------------------------------------------
LEMMA TypeParts == TypeOK <=> TypeRun /\ TypePool /\ TypeTemps /\ TypeResult
BY DEF TypeOK, TypeRun, TypePool, TypeTemps, TypeResult, Phases

(* A sequence without its head.                                            *)
LEMMA Behead ==
  ASSUME NEW S, NEW s \in Seq(S), s # <<>>
  PROVE  /\ 1 \in DOMAIN s /\ Head(s) = s[1]
         /\ \A i \in DOMAIN Tail(s) : i \in Nat /\ i + 1 \in DOMAIN s /\ i + 1 # 1 /\ Tail(s)[i] = s[i + 1]
         /\ \A i \in DOMAIN s : i = 1 \/ (i - 1 \in DOMAIN Tail(s) /\ Tail(s)[i - 1] = s[i])
OBVIOUS

LEMMA InitInv == ASSUME Init  PROVE IInv
<1>1. TypeRun /\ TypePool
  <2>1. TypeRun
    BY DEF Init, TypeRun, Phases
  <2>2. TypePool
    BY DEF Init, TypePool
  <2>. QED  BY <2>1, <2>2
<1>2. TypeTemps /\ TypeResult
  BY DEF Init, TypeTemps, TypeResult
<1>3. Pooled /\ Fetching /\ Locked /\ Fresh /\ Disjoint
  BY PlanAssumption DEF Init, Pooled, Active, Fetching, Locked, Inside, Pools, Fresh, Disjoint, Early, Late,
     Untouched, Items
<1>4. Hands /\ Owned /\ Filed /\ Shown
  BY PlanAssumption DEF Init, Hands, Owned, Filed, Shown
<1>5. ColsDone /\ RolesDone /\ Saved /\ Ended
  BY PlanAssumption DEF Init, ColsDone, RolesDone, Saved, Judged, Ended, OkMeansDone
<1>. QED  BY <1>1, <1>2, <1>3, <1>4, <1>5 DEF IInv

-----------------------------------------------------------------------------
(***************************************************************************)
(* One lemma per action: first the parts of the invariant whose variables  *)
(* it leaves alone, then each part it may disturb.                         *)
(***************************************************************************)
LEMMA CatchInv == ASSUME IInv, Catch  PROVE IInv'
<1>1. TypePool' /\ TypeTemps' /\ TypeResult' /\ Pooled' /\ Fetching' /\ Locked' /\ Hands'
      /\ (OneRootEach => Owned /\ Filed)' /\ Saved' /\ Ended' /\ Fresh' /\ Disjoint'
  BY DEF IInv, TypePool, TypeTemps, TypeResult, Pooled, Active, Fetching, Unreclaimed, Locked, Hands, Owned, Filed,
     Saved, Ended, OkMeansDone, Fresh, Untouched, Disjoint, Catch, config, owner, pool, temps, store, result
<1>2. TypeRun'
  BY DEF IInv, Catch, TypeRun, Phases, Pools, config, owner
<1>3. Shown'
  BY DEF IInv, Catch, Shown, pool, result, Items
<1>4. ColsDone'
  BY DEF IInv, Catch, ColsDone, Cut, Judged, InLine, Active, Levelled, Placed, Shown, Pooled, Pools, pool, result,
     Items
<1>5. RolesDone'
  BY DEF IInv, Catch, RolesDone, Cut, Judged, InLine, Active, Shown, Pooled, Pools, config, pool, result, Items
<1>. QED  BY <1>1, <1>2, <1>3, <1>4, <1>5 DEF IInv

LEMMA CancelInv == ASSUME IInv, Cancel  PROVE IInv'
<1>1. TypePool' /\ TypeTemps' /\ TypeResult' /\ Pooled' /\ Fetching' /\ Locked' /\ Hands'
      /\ (OneRootEach => Owned /\ Filed)' /\ ColsDone' /\ RolesDone' /\ Saved' /\ Ended' /\ Fresh' /\ Disjoint'
  BY DEF IInv, TypePool, TypeTemps, TypeResult, Pooled, Active, Fetching, Unreclaimed, Locked, Hands, Owned, Filed,
     ColsDone, Cut, InLine, Levelled, Placed, RolesDone, Saved, Ended, OkMeansDone, Fresh, Untouched, Disjoint,
     Cancel, config, owner, pool, temps, store, result
<1>2. TypeRun'
  BY DEF IInv, Cancel, TypeRun, Phases, Pools, config, owner
<1>3. Shown'
  BY DEF IInv, Cancel, Shown, pool, result, Items
<1>. QED  BY <1>1, <1>2, <1>3 DEF IInv

LEMMA LoseInv == ASSUME IInv, Lose  PROVE IInv'
<1>1. TypePool' /\ TypeTemps' /\ TypeResult' /\ Pooled' /\ Fetching' /\ Locked' /\ Hands'
      /\ (OneRootEach => Owned /\ Filed)' /\ Shown' /\ Saved' /\ Ended' /\ Fresh' /\ Disjoint'
  BY DEF IInv, TypePool, TypeTemps, TypeResult, Pooled, Active, Fetching, Unreclaimed, Locked, Hands, Owned, Filed,
     Shown, Saved, Ended, OkMeansDone, Fresh, Untouched, Disjoint, Lose, config, owner, pool, temps, store, result
<1>2. TypeRun'
  BY DEF IInv, Lose, TypeRun, Phases, Pools, config, owner
<1>3. ColsDone'
  BY DEF IInv, Lose, ColsDone, Cut, Judged, InLine, Active, Levelled, Placed, Shown, Pooled, Pools, pool, result,
     Items
<1>4. RolesDone'
  BY DEF IInv, Lose, RolesDone, Cut, Judged, InLine, Active, Shown, Pooled, Pools, config, pool, result, Items
<1>. QED  BY <1>1, <1>2, <1>3, <1>4 DEF IInv

LEMMA LockInv == ASSUME IInv, Lock  PROVE IInv'
<1>1. TypePool' /\ TypeTemps' /\ Hands'
  BY DEF IInv, TypePool, TypeTemps, Hands, Lock, pool, temps
<1>2. TypeRun'
  BY DEF IInv, Lock, TypeRun, Phases, Pools, config, signal, Go
<1>3. TypeResult'
  BY DEF IInv, Lock, TypeResult, Items, store, Err, Errors, CtxDone
<1>4. Pooled'
  BY DEF IInv, Lock, Pooled, Active, Pools, pool, Items, Go
<1>5. Fetching'
  BY DEF IInv, Lock, Fetching, Unreclaimed, Pooled, Active, Pools, config, temps, Items, Go
<1>6. Locked'
  BY DEF IInv, Lock, Locked, Inside, Pools, Go
<1>7. (OneRootEach => Owned /\ Filed)'
  BY DEF IInv, Lock, Owned, Filed, Hands, OneRootEach, Locked, Inside, Pools, Pooled, Active, Fetching,
     Unreclaimed, temps, Items, Go
<1>8. Shown'
  BY DEF IInv, Lock, Shown, signal, pool, Items, Go, Err, Errors, CtxDone
<1>9. ColsDone'
  <2>1. phase' = "load" \/ errs' # {}
    BY DEF Lock, Go, Err
  <2>. QED  BY <2>1 DEF ColsDone, Cut, Judged
<1>10. RolesDone'
  BY DEF IInv, Lock, RolesDone, Cut, Judged, InLine, Active, Shown, Pooled, Pools, config, signal, pool, Items, Go,
     Err, Errors, CtxDone
<1>11. Saved'
  BY DEF IInv, Lock, Saved, Judged, Shown, Pooled, Active, Pools, config, store, Items, Go, Err, Errors, CtxDone
<1>12. Ended'
  BY DEF IInv, Lock, Ended, OkMeansDone, Pooled, Active, Pools, pool, store, Items, Go
<1>13. Fresh'
  BY DEF IInv, Lock, Fresh, Untouched, Early, Late, Disjoint, Pooled, Active, Pools, config, pool, Items, Go
<1>14. Disjoint'
  BY DEF IInv, Lock, Fresh, Disjoint, Untouched, Early, Late, Pooled, Active, Pools, Placed, Ready, pool, Items, Go
<1>. QED  BY <1>1, <1>2, <1>3, <1>4, <1>5, <1>6, <1>7, <1>8, <1>9, <1>10, <1>11, <1>12, <1>13, <1>14 DEF IInv

LEMMA LoadInv == ASSUME IInv, Load  PROVE IInv'
<1>1. TypePool' /\ TypeTemps' /\ Hands'
  BY DEF IInv, TypePool, TypeTemps, Hands, Load, pool, temps
<1>2. TypeRun'
  BY DEF IInv, Load, TypeRun, Phases, Pools, config, owner, signal, Go
<1>3. TypeResult'
  BY DEF IInv, Load, TypeResult, Items, store, Err, Errors, CtxDone
<1>4. Pooled'
  BY DEF IInv, Load, Pooled, Active, Pools, pool, Items, Go
<1>5. Fetching'
  BY DEF IInv, Load, Fetching, Unreclaimed, Pooled, Active, Pools, config, temps, Items, Go
<1>6. Locked'
  BY DEF IInv, Load, Locked, Inside, Pools, owner, Go
<1>7. (OneRootEach => Owned /\ Filed)'
  BY DEF IInv, Load, Owned, Filed, Hands, OneRootEach, Locked, Inside, Pools, Pooled, Active, Fetching,
     Unreclaimed, owner, temps, Items, Go
<1>8. Shown'
  BY DEF IInv, Load, Shown, signal, pool, Items, Go, Err, Errors, CtxDone
<1>9. ColsDone'
  BY DEF IInv, Load, ColsDone, Cut, Judged, InLine, Active, Levelled, Placed, Shown, Pooled, Pools, signal, pool,
     Items, Go, Err, Errors, CtxDone
<1>10. RolesDone'
  BY DEF IInv, Load, RolesDone, Cut, Judged, InLine, Active, Shown, Pooled, Pools, config, signal, pool, Items, Go,
     Err, Errors, CtxDone
<1>11. Saved'
  BY DEF IInv, Load, Saved, Judged, Shown, Pooled, Active, Pools, config, store, Items, Go, Err, Errors, CtxDone
<1>12. Ended'
  BY DEF IInv, Load, Ended, OkMeansDone, Pooled, Active, Pools, pool, store, Items, Go
<1>13. Fresh'
  BY DEF IInv, Load, Fresh, Untouched, Early, Late, Disjoint, Pooled, Active, Pools, config, pool, Items, Go
<1>14. Disjoint'
  BY DEF IInv, Load, Fresh, Disjoint, Untouched, Early, Late, Pooled, Active, Pools, Placed, Ready, pool, Items, Go
<1>. QED  BY <1>1, <1>2, <1>3, <1>4, <1>5, <1>6, <1>7, <1>8, <1>9, <1>10, <1>11, <1>12, <1>13, <1>14 DEF IInv

LEMMA UnwindInv == ASSUME IInv, Unwind  PROVE IInv'
<1>1. TypePool' /\ TypeTemps' /\ TypeResult' /\ Hands'
  BY DEF IInv, TypePool, TypeTemps, TypeResult, Hands, Unwind, pool, temps, store, result
<1>2. TypeRun'
  BY DEF IInv, Unwind, TypeRun, Phases, Pools, config, signal, Go
<1>3. Pooled'
  BY DEF IInv, Unwind, Pooled, Active, Pools, pool, Items, Go
<1>4. Fetching'
  BY DEF IInv, Unwind, Fetching, Unreclaimed, Pooled, Active, Pools, config, temps, Items, Go
<1>5. Locked'
  BY DEF IInv, Unwind, Locked, Inside, Pools, Go
<1>6. (OneRootEach => Owned /\ Filed)'
  BY DEF IInv, Unwind, Owned, Filed, Hands, OneRootEach, Locked, Inside, Pools, Pooled, Active, Fetching,
     Unreclaimed, temps, Items, Go
<1>7. Shown'
  BY DEF IInv, Unwind, Shown, signal, pool, result, Items, Go
<1>8. ColsDone'
  BY DEF IInv, Unwind, ColsDone, Cut, Judged, InLine, Active, Levelled, Placed, Shown, Pooled, Pools, signal, pool,
     result, Items, Go
<1>9. RolesDone'
  BY DEF IInv, Unwind, RolesDone, Cut, Judged, InLine, Active, Shown, Pooled, Pools, config, signal, pool, result,
     Items, Go
<1>10. Saved'
  BY DEF IInv, Unwind, Saved, Judged, Shown, Pooled, Active, Pools, config, store, result, Items, Go
<1>11. Ended'
  BY DEF IInv, Unwind, Ended, OkMeansDone, Pooled, Active, Pools, pool, store, result, Items, Go
<1>12. Fresh'
  BY DEF IInv, Unwind, Fresh, Untouched, Early, Late, Disjoint, Pooled, Active, Pools, config, pool, Items, Go
<1>13. Disjoint'
  BY DEF IInv, Unwind, Fresh, Disjoint, Untouched, Early, Late, Pooled, Active, Pools, Placed, Ready, pool, Items, Go
<1>. QED  BY <1>1, <1>2, <1>3, <1>4, <1>5, <1>6, <1>7, <1>8, <1>9, <1>10, <1>11, <1>12, <1>13 DEF IInv

LEMMA BeginInv == ASSUME IInv, Begin  PROVE IInv'
<1>1. TypeTemps' /\ Hands'
  BY DEF IInv, TypeTemps, Hands, Begin, temps
<1>2. TypeRun'
  BY DEF IInv, Begin, TypeRun, Phases, Pools, config, owner, signal, Go
<1>3. TypePool'
  BY DEF IInv, Begin, TypePool, Ready, Items
<1>4. TypeResult'
  BY DEF IInv, Begin, TypeResult, Items, store, Err
<1>5. Pooled'
  BY DEF IInv, TypePool, Begin, Pooled, Active, Pools, Items, Go
<1>6. Fetching'
  BY DEF IInv, Begin, Fetching, Unreclaimed, Pooled, Active, Pools, config, temps, Items, Go
<1>7. Locked'
  BY DEF IInv, Begin, Locked, Inside, Pools, owner, Go
<1>8. (OneRootEach => Owned /\ Filed)'
  BY DEF IInv, Begin, Owned, Filed, Hands, OneRootEach, Locked, Inside, Pools, Pooled, Active, Fetching,
     Unreclaimed, owner, temps, Items, Go
<1>9. Shown'
  BY DEF IInv, Begin, Shown, signal, Items, Go, Err
<1>10. ColsDone'
  BY DEF IInv, TypePool, Begin, ColsDone, Cut, Judged, InLine, Active, Levelled, Placed, Shown, Pooled, Pools,
     signal, Items, Go, Err
<1>11. RolesDone'
  BY DEF IInv, TypePool, Begin, RolesDone, Cut, Judged, InLine, Active, Shown, Pooled, Pools, config, signal,
     Items, Go, Err
<1>12. Saved'
  BY DEF IInv, Begin, Saved, Judged, Shown, Pooled, Active, Pools, config, store, Items, Go, Err
<1>13. Ended'
  BY DEF IInv, Begin, Ended, OkMeansDone, Pooled, Active, Pools, store, Items, Go
<1>14. Fresh'
  BY PlanAssumption DEF IInv, TypePool, Begin, Fresh, Untouched, Early, Late, Disjoint, Pooled, Active, Pools,
     config, Items, Go
<1>15. Disjoint'
  BY DEF IInv, TypePool, Begin, Fresh, Disjoint, Untouched, Early, Late, Pooled, Active, Pools, Placed, Ready,
     Items, Go
<1>. QED  BY <1>1, <1>2, <1>3, <1>4, <1>5, <1>6, <1>7, <1>8, <1>9, <1>10, <1>11, <1>12, <1>13, <1>14, <1>15 DEF IInv

LEMMA PickInv == ASSUME IInv, NEW x \in Items, Pick(x)  PROVE IInv'
<1>1. TypeRun' /\ TypeTemps' /\ TypeResult' /\ Fetching' /\ Locked' /\ Hands' /\ (OneRootEach => Owned
      /\ Filed)' /\ Shown' /\ Saved' /\ Ended'
  BY DEF IInv, TypeRun, TypeTemps, TypeResult, Fetching, Unreclaimed, Locked, Hands, Owned, Filed, Shown, Saved,
     Ended, OkMeansDone, Pick, config, owner, signal, temps, store, result
<1>2. TypePool'
  BY DEF IInv, Pick, TypePool, Ready, Items
<1>3. Pooled'
  BY DEF IInv, TypePool, Pick, Pooled, Active, Pools, Items
<1>4. ColsDone'
  BY PlanAssumption DEF IInv, TypePool, Pick, ColsDone, Cut, Judged, InLine, Active, Levelled, Placed, Shown,
     Pooled, Pools, signal, result, Items, CtxDone
<1>5. RolesDone'
  BY PlanAssumption DEF IInv, TypePool, Pick, RolesDone, Cut, Judged, InLine, Active, Shown, Pooled, Pools, config,
     signal, result, Items, CtxDone
<1>6. Fresh'
  BY DEF IInv, TypePool, Pick, Fresh, Untouched, Early, Late, Disjoint, Pooled, Active, Pools, config, Items
<1>7. Disjoint'
  BY DEF IInv, TypePool, Pick, Fresh, Disjoint, Untouched, Early, Late, Pooled, Active, Pools, Placed, Ready, Items
<1>. QED  BY <1>1, <1>2, <1>3, <1>4, <1>5, <1>6, <1>7 DEF IInv

LEMMA StopDispatchInv == ASSUME IInv, StopDispatch  PROVE IInv'
<1>1. TypeRun' /\ TypeTemps' /\ TypeResult' /\ Fetching' /\ Locked' /\ Hands' /\ (OneRootEach => Owned
      /\ Filed)' /\ Shown' /\ Saved' /\ Ended'
  BY DEF IInv, TypeRun, TypeTemps, TypeResult, Fetching, Unreclaimed, Locked, Hands, Owned, Filed, Shown, Saved,
     Ended, OkMeansDone, StopDispatch, config, owner, signal, temps, store, result
<1>2. TypePool'
  BY DEF IInv, StopDispatch, TypePool, Ready, Items
<1>3. Pooled'
  BY DEF IInv, TypePool, StopDispatch, Pooled, Active, Pools, Items
<1>4. ColsDone'
  BY DEF IInv, TypePool, StopDispatch, ColsDone, Cut, Judged, InLine, Active, Levelled, Placed, Shown, Pooled,
     Pools, signal, result, Items, CtxDone
<1>5. RolesDone'
  BY DEF IInv, TypePool, StopDispatch, RolesDone, Cut, Judged, InLine, Active, Shown, Pooled, Pools, config,
     signal, result, Items, CtxDone
<1>6. Fresh'
  BY DEF IInv, TypePool, StopDispatch, Fresh, Untouched, Early, Late, Disjoint, Pooled, Active, Pools, config, Items
<1>7. Disjoint'
  BY DEF IInv, TypePool, StopDispatch, Fresh, Disjoint, Untouched, Early, Late, Pooled, Active, Pools, Placed,
     Ready, Items
<1>. QED  BY <1>1, <1>2, <1>3, <1>4, <1>5, <1>6, <1>7 DEF IInv

LEMMA StartInv == ASSUME IInv, Start  PROVE IInv'
<1>1. TypeRun' /\ TypeTemps' /\ TypeResult' /\ Fetching' /\ Locked' /\ (OneRootEach => Owned /\ Filed)' /\ Saved'
  BY DEF IInv, TypeRun, TypeTemps, TypeResult, Fetching, Unreclaimed, Locked, Owned, Filed, Saved, Start, config,
     owner, signal, temps, store, result
<1>2. TypePool'
  BY DEF IInv, Start, TypePool, Ready, Items, Busy
<1>3. Pooled'
  BY DEF IInv, TypePool, Start, Pooled, Active, Pools, Items, Busy
<1>4. Hands'
  <2>1. pick \in Items /\ st[pick] = "none"
    BY DEF IInv, TypePool, Start, Fresh, Untouched
  <2>2. UNCHANGED <<hand, memo>> /\ st' = [st EXCEPT ![pick] = IF pick \in Cols THEN "wait" ELSE "run"]
    BY DEF Start, config, owner, signal, pool, temps, store, result
  <2>3. \A c \in Cols : hand[c] # {} => c # pick
    BY <2>1 DEF IInv, Hands
  <2>4. \A c \in Cols : c # pick => st'[c] = st[c]
    BY <2>1, <2>2 DEF IInv, TypePool, Items
  <2>. QED  BY <2>2, <2>3, <2>4 DEF IInv, Hands
<1>5. Shown'
  BY DEF IInv, TypePool, Start, Shown, signal, result, Items, Busy
<1>6. ColsDone'
  BY DEF IInv, TypePool, Start, ColsDone, Cut, Judged, InLine, Active, Levelled, Placed, Shown, Pooled, Pools,
     signal, result, Items, Busy
<1>7. RolesDone'
  BY DEF IInv, TypePool, Start, RolesDone, Cut, Judged, InLine, Active, Shown, Pooled, Pools, config, signal,
     result, Items, Busy
<1>8. Ended'
  BY PlanAssumption DEF IInv, TypePool, Start, Ended, OkMeansDone, Pooled, Active, Pools, store, result, Items, Busy
<1>9. Fresh'
  BY PlanAssumption DEF IInv, TypePool, Start, Fresh, Untouched, Early, Late, Disjoint, Pooled, Active, Pools,
     config, Items, Busy
<1>10. Disjoint'
  BY PlanAssumption DEF IInv, TypePool, Start, Fresh, Disjoint, Untouched, Early, Late, Pooled, Active, Pools,
     Placed, Ready, Items, Busy
<1>. QED  BY <1>1, <1>2, <1>3, <1>4, <1>5, <1>6, <1>7, <1>8, <1>9, <1>10 DEF IInv

LEMMA DiscoverInv == ASSUME IInv, NEW x \in Items, Discover(x)  PROVE IInv'
<1>1. TypeRun' /\ Fetching' /\ Locked'
  BY DEF IInv, TypeRun, Fetching, Unreclaimed, Locked, Discover, config, owner, signal
<1>2. TypePool'
  BY DEF IInv, Discover, TypePool, Ready, Items
<1>3. TypeTemps'
  BY DEF IInv, Discover, TypeTemps, Items, Temps
<1>4. TypeResult'
  <2>1. errs' \in SUBSET {"failed", "canceled", "busy"}
    BY DEF IInv, TypeResult, Discover, Err, Errors, CtxDone
  <2>. QED  BY <2>1 DEF IInv, TypeResult, Discover, config, owner, signal, pool, temps, store, result
<1>5. Pooled'
  BY DEF IInv, TypePool, Discover, Pooled, Active, Pools, Items
<1>6. Hands'
  BY PlanAssumption DEF IInv, TypePool, TypeTemps, Discover, Hands, Active, Pooled, Pools, Items
<1>7. (OneRootEach => Owned /\ Filed)'
  BY PlanAssumption DEF IInv, TypeRun, TypePool, TypeTemps, TypeResult, Discover, Owned, Filed, Hands, OneRootEach,
     Locked, Inside, Pools, Pooled, Active, Fetching, Unreclaimed, config, owner, signal, pool, temps, store,
     result, Items, Temps, Go, Err, Errors, CtxDone, Joined, Busy
<1>8. Shown'
  <2>1. UNCHANGED <<canceled, caught>> /\ errs \subseteq errs' /\ phase \in Pools /\ phase' = phase
    BY DEF Discover, IInv, Pooled, Active, Items, Err, config, owner, signal, pool, temps, store, result
  <2>2. ASSUME NEW y \in Items, st'[y] = "failed"  PROVE errs' # {}
    <3>1. CASE st[y] = "failed"
      BY <2>1, <3>1 DEF IInv, Shown
    <3>2. CASE st[y] # "failed" /\ st' = [st EXCEPT ![x] = "ok"]
      BY <2>2, <3>2 DEF IInv, TypePool
    <3>3. CASE \E e \in Errors : Err(e)
      BY <3>3 DEF Err
    <3>. QED  BY <3>1, <3>2, <3>3 DEF Discover
  <2>. QED  BY <2>1, <2>2 DEF IInv, Shown, Pools
<1>9. ColsDone'
  BY DEF IInv, TypePool, Discover, ColsDone, Cut, Judged, InLine, Active, Levelled, Placed, Shown, Pooled, Pools,
     signal, Items, Err, Errors, CtxDone
<1>10. RolesDone'
  BY DEF IInv, TypePool, Discover, RolesDone, Cut, Judged, InLine, Active, Shown, Pooled, Pools, config, signal,
     Items, Err, Errors, CtxDone
<1>11. Saved'
  BY DEF IInv, Discover, Saved, Judged, Shown, Pooled, Active, Pools, config, store, Items, Err, Errors, CtxDone
<1>12. Ended'
  BY DEF IInv, TypePool, Discover, Ended, OkMeansDone, Pooled, Active, Pools, store, Items
<1>13. Fresh'
  BY DEF IInv, TypePool, Discover, Fresh, Untouched, Early, Late, Disjoint, Pooled, Active, Pools, config, Items
<1>14. Disjoint'
  BY DEF IInv, TypePool, Discover, Fresh, Disjoint, Untouched, Early, Late, Pooled, Active, Pools, Placed, Ready,
     Items
<1>. QED  BY <1>1, <1>2, <1>3, <1>4, <1>5, <1>6, <1>7, <1>8, <1>9, <1>10, <1>11, <1>12, <1>13, <1>14 DEF IInv

LEMMA DiscoveredInv == ASSUME IInv, Discovered  PROVE IInv'
<1>1. TypePool' /\ TypeTemps' /\ TypeResult' /\ Hands'
  BY DEF IInv, TypePool, TypeTemps, TypeResult, Hands, Discovered, pool, temps, store, result
<1>2. TypeRun'
  BY DEF IInv, Discovered, TypeRun, Phases, Pools, config, owner, signal, Items, Go
<1>3. Pooled'
  BY DEF IInv, Discovered, Pooled, Active, Pools, pool, Items, Go, Joined, Busy
<1>4. Fetching'
  BY DEF IInv, Discovered, Fetching, Unreclaimed, Pooled, Active, Pools, config, temps, Items, Go, Joined, Busy
<1>5. Locked'
  BY DEF IInv, Discovered, Locked, Inside, Pools, owner, Items, Go, Joined, Busy
<1>6. (OneRootEach => Owned /\ Filed)'
  BY DEF IInv, Discovered, Owned, Filed, Hands, OneRootEach, Locked, Inside, Pools, Pooled, Active, Fetching,
     Unreclaimed, owner, temps, Items, Go, Joined, Busy
<1>7. Shown'
  BY DEF IInv, Discovered, Shown, signal, pool, result, Items, Go, Joined, Busy
<1>8. ColsDone'
  BY DEF IInv, Discovered, ColsDone, Cut, Judged, InLine, Active, Levelled, Placed, Shown, Pooled, Pools, signal,
     pool, result, Items, Go, Joined, Busy
<1>9. RolesDone'
  BY DEF IInv, Discovered, RolesDone, Cut, Judged, InLine, Active, Shown, Pooled, Pools, config, signal, pool,
     result, Items, Go, Joined, Busy
<1>10. Saved'
  BY DEF IInv, Discovered, Saved, Judged, Shown, Pooled, Active, Pools, config, store, result, Items, Go, Joined, Busy
<1>11. Ended'
  BY DEF IInv, Discovered, Ended, OkMeansDone, Pooled, Active, Pools, pool, store, result, Items, Go, Joined, Busy
<1>12. Fresh'
  BY DEF IInv, Discovered, Fresh, Untouched, Early, Late, Disjoint, Pooled, Active, Pools, config, pool, Items, Go,
     Joined, Busy
<1>13. Disjoint'
  BY DEF IInv, Discovered, Fresh, Disjoint, Untouched, Early, Late, Pooled, Active, Pools, Placed, Ready, pool,
     Items, Go, Joined, Busy
<1>. QED  BY <1>1, <1>2, <1>3, <1>4, <1>5, <1>6, <1>7, <1>8, <1>9, <1>10, <1>11, <1>12, <1>13 DEF IInv

LEMMA ResolveInv == ASSUME IInv, Resolve  PROVE IInv'
<1>1. TypePool' /\ TypeTemps' /\ Hands'
  BY DEF IInv, TypePool, TypeTemps, Hands, Resolve, pool, temps
<1>2. TypeRun'
  BY DEF IInv, Resolve, TypeRun, Phases, Pools, config, owner, signal, Go
<1>3. TypeResult'
  BY DEF IInv, Resolve, TypeResult, Items, store, Err, Errors, CtxDone
<1>4. Pooled'
  BY DEF IInv, Resolve, Pooled, Active, Pools, pool, Items, Go
<1>5. Fetching'
  BY DEF IInv, Resolve, Fetching, Unreclaimed, Pooled, Active, Pools, config, temps, Items, Go
<1>6. Locked'
  BY DEF IInv, Resolve, Locked, Inside, Pools, owner, Go
<1>7. (OneRootEach => Owned /\ Filed)'
  BY DEF IInv, Resolve, Owned, Filed, Hands, OneRootEach, Locked, Inside, Pools, Pooled, Active, Fetching,
     Unreclaimed, owner, temps, Items, Go
<1>8. Shown'
  BY DEF IInv, Resolve, Shown, signal, pool, Items, Go, Err, Errors, CtxDone
<1>9. ColsDone'
  <2>1. phase' = "plan" \/ errs' # {}
    BY DEF Resolve, Go, Err
  <2>. QED  BY <2>1 DEF ColsDone, Cut, Judged
<1>10. RolesDone'
  BY DEF IInv, Resolve, RolesDone, Cut, Judged, InLine, Active, Shown, Pooled, Pools, config, signal, pool, Items,
     Go, Err, Errors, CtxDone
<1>11. Saved'
  BY DEF IInv, Resolve, Saved, Judged, Shown, Pooled, Active, Pools, config, store, Items, Go, Err, Errors, CtxDone
<1>12. Ended'
  BY DEF IInv, Resolve, Ended, OkMeansDone, Pooled, Active, Pools, pool, store, Items, Go
<1>13. Fresh'
  BY DEF IInv, Resolve, Fresh, Untouched, Early, Late, Disjoint, Pooled, Active, Pools, config, pool, Items, Go
<1>14. Disjoint'
  BY DEF IInv, Resolve, Fresh, Disjoint, Untouched, Early, Late, Pooled, Active, Pools, Placed, Ready, pool, Items, Go
<1>. QED  BY <1>1, <1>2, <1>3, <1>4, <1>5, <1>6, <1>7, <1>8, <1>9, <1>10, <1>11, <1>12, <1>13, <1>14 DEF IInv

LEMMA PlaceLevelInv == ASSUME IInv, PlaceLevel  PROVE IInv'
<1>1. TypeRun' /\ TypeTemps' /\ TypeResult' /\ Pooled' /\ Fetching' /\ Locked' /\ Hands'
      /\ (OneRootEach => Owned /\ Filed)' /\ Shown' /\ RolesDone' /\ Saved' /\ Ended' /\ Fresh'
  BY DEF IInv, TypeRun, TypeTemps, TypeResult, Pooled, Active, Fetching, Unreclaimed, Locked, Hands, Owned, Filed,
     Shown, RolesDone, Cut, InLine, Saved, Ended, OkMeansDone, Fresh, Untouched, PlaceLevel, config, owner, signal,
     temps, store, result
<1>2. TypePool'
  BY DEF IInv, PlaceLevel, TypePool, Ready, Items
<1>3. ColsDone'
  BY DEF IInv, TypePool, PlaceLevel, ColsDone, Cut, Judged, InLine, Active, Levelled, Placed, Shown, Pooled, Pools,
     signal, result, Items, Ready
<1>4. Disjoint'
  BY DEF IInv, TypePool, PlaceLevel, Fresh, Disjoint, Untouched, Early, Late, Pooled, Active, Pools, Placed, Ready,
     Items
<1>. QED  BY <1>1, <1>2, <1>3, <1>4 DEF IInv

LEMMA PlannedInv == ASSUME IInv, Planned  PROVE IInv'
<1>1. TypeTemps' /\ Hands'
  BY DEF IInv, TypeTemps, Hands, Planned, temps
<1>2. TypeRun'
  BY DEF IInv, Planned, TypeRun, Phases, Pools, config, owner, signal, Go, Ready
<1>3. TypePool'
  <2>1. <<Cols>> \in Seq(SUBSET Cols)
    OBVIOUS
  <2>2. levels' \in Seq(SUBSET Cols)
    BY <2>1 DEF IInv, TypePool, Planned
  <2>. QED  BY <2>2 DEF IInv, TypePool, Planned, config, owner, signal, pool, temps, store, result
<1>4. TypeResult'
  BY DEF IInv, Planned, TypeResult, Items, store, Err, Ready
<1>5. Pooled'
  BY DEF IInv, Planned, Pooled, Active, Pools, Items, Go, Ready
<1>6. Fetching'
  BY DEF IInv, Planned, Fetching, Unreclaimed, Pooled, Active, Pools, config, temps, Items, Go, Ready
<1>7. Locked'
  BY DEF IInv, Planned, Locked, Inside, Pools, owner, Go, Ready
<1>8. (OneRootEach => Owned /\ Filed)'
  BY DEF IInv, Planned, Owned, Filed, Hands, OneRootEach, Locked, Inside, Pools, Pooled, Active, Fetching,
     Unreclaimed, owner, temps, Items, Go, Ready
<1>9. Shown'
  BY DEF IInv, Planned, Shown, signal, Items, Go, Err, Ready
<1>10. ColsDone'
  <2>1. CASE Placed # Cols
    BY <2>1 DEF Planned, Err, ColsDone, Cut
  <2>2. CASE Placed = Cols
    <3>1. phase' = "schedule" /\ (levels' = <<Cols>> \/ levels' = levels)
      BY <2>2 DEF Planned, Go
    <3>2. Placed' = Cols
      BY <2>2, <3>1 DEF Placed
    <3>. QED  BY <3>1, <3>2 DEF ColsDone, Levelled
  <2>. QED  BY <2>1, <2>2
<1>11. RolesDone'
  BY DEF IInv, Planned, RolesDone, Cut, Judged, InLine, Active, Shown, Pooled, Pools, config, signal, Items, Go,
     Err, Ready
<1>12. Saved'
  BY DEF IInv, Planned, Saved, Judged, Shown, Pooled, Active, Pools, config, store, Items, Go, Err, Ready
<1>13. Ended'
  BY DEF IInv, Planned, Ended, OkMeansDone, Pooled, Active, Pools, store, Items, Go, Ready
<1>14. Fresh'
  BY DEF IInv, Planned, Fresh, Untouched, Early, Late, Disjoint, Pooled, Active, Pools, config, Items, Go, Ready
<1>15. Disjoint'
  BY PlanAssumption DEF IInv, TypePool, Planned, Fresh, Disjoint, Untouched, Early, Late, Pooled, Active, Pools,
     Placed, Ready, Items, Go
<1>. QED  BY <1>1, <1>2, <1>3, <1>4, <1>5, <1>6, <1>7, <1>8, <1>9, <1>10, <1>11, <1>12, <1>13, <1>14, <1>15 DEF IInv

LEMMA ScheduleInv == ASSUME IInv, NEW tasks \in SUBSET Cols, Schedule(tasks)  PROVE IInv'
<1>1. TypePool' /\ TypeResult' /\ Hands'
  BY DEF IInv, TypePool, TypeResult, Hands, Schedule, pool, store, result
<1>2. TypeRun'
  BY DEF IInv, Schedule, TypeRun, Phases, Pools, config, owner, signal, Go
<1>3. TypeTemps'
  BY DEF IInv, Schedule, TypeTemps, Items, Temps
<1>4. Pooled'
  BY DEF IInv, Schedule, Pooled, Active, Pools, pool, Items, Go
<1>5. Fetching'
  BY DEF IInv, TypeTemps, Schedule, Fetching, Unreclaimed, Pooled, Active, Pools, config, Items, Go
<1>6. Locked'
  BY DEF IInv, Schedule, Locked, Inside, Pools, owner, Go
<1>7. (OneRootEach => Owned /\ Filed)'
  BY DEF IInv, Schedule, Owned, Filed, Hands, OneRootEach, Locked, Inside, Pools, Pooled, Active, Fetching,
     Unreclaimed, owner, Items, Go
<1>8. Shown'
  BY DEF IInv, Schedule, Shown, signal, pool, result, Items, Go
<1>9. ColsDone'
  BY DEF IInv, Schedule, ColsDone, Cut, Judged, InLine, Active, Levelled, Placed, Shown, Pooled, Pools, signal,
     pool, result, Items, Go
<1>10. RolesDone'
  BY DEF IInv, Schedule, RolesDone, Cut, Judged, InLine, Active, Shown, Pooled, Pools, config, signal, pool,
     result, Items, Go
<1>11. Saved'
  BY DEF IInv, Schedule, Saved, Judged, Shown, Pooled, Active, Pools, config, store, result, Items, Go
<1>12. Ended'
  BY DEF IInv, Schedule, Ended, OkMeansDone, Pooled, Active, Pools, pool, store, result, Items, Go
<1>13. Fresh'
  BY DEF IInv, Schedule, Fresh, Untouched, Early, Late, Disjoint, Pooled, Active, Pools, config, pool, Items, Go
<1>14. Disjoint'
  BY DEF IInv, Schedule, Fresh, Disjoint, Untouched, Early, Late, Pooled, Active, Pools, Placed, Ready, pool,
     Items, Go
<1>. QED  BY <1>1, <1>2, <1>3, <1>4, <1>5, <1>6, <1>7, <1>8, <1>9, <1>10, <1>11, <1>12, <1>13, <1>14 DEF IInv

LEMMA OpenRolesInv == ASSUME IInv, OpenRoles  PROVE IInv'
<1>1. TypePool' /\ TypeTemps' /\ Hands'
  BY DEF IInv, TypePool, TypeTemps, Hands, OpenRoles, pool, temps
<1>2. TypeRun'
  BY DEF IInv, OpenRoles, TypeRun, Phases, Pools, config, owner, signal, Go
<1>3. TypeResult'
  BY DEF IInv, OpenRoles, TypeResult, Items, store, Err
<1>4. Pooled'
  BY DEF IInv, OpenRoles, Pooled, Active, Pools, pool, Items, Go
<1>5. Fetching'
  BY DEF IInv, OpenRoles, Fetching, Unreclaimed, Pooled, Active, Pools, config, temps, Items, Go
<1>6. Locked'
  BY DEF IInv, OpenRoles, Locked, Inside, Pools, owner, Go
<1>7. (OneRootEach => Owned /\ Filed)'
  BY DEF IInv, OpenRoles, Owned, Filed, Hands, OneRootEach, Locked, Inside, Pools, Pooled, Active, Fetching,
     Unreclaimed, owner, temps, Items, Go
<1>8. Shown'
  BY DEF IInv, OpenRoles, Shown, signal, pool, Items, Go, Err
<1>9. ColsDone'
  <2>1. CASE phase' = "between" /\ UNCHANGED errs
    <3>1. phase = "openroles" /\ UNCHANGED <<levels, todo, pick, st, caught, lost>>
      BY DEF OpenRoles, config, owner, signal, pool, temps, store, result
    <3>. QED  BY <2>1, <3>1 DEF IInv, ColsDone, Cut, Judged, InLine, Active, Levelled, Placed
  <2>2. CASE errs' # {}
    BY <2>2 DEF ColsDone, Cut
  <2>. QED  BY <2>1, <2>2 DEF OpenRoles, Go, Err
<1>10. RolesDone'
  BY DEF IInv, OpenRoles, RolesDone, Cut, Judged, InLine, Active, Shown, Pooled, Pools, config, signal, pool,
     Items, Go, Err
<1>11. Saved'
  BY DEF IInv, OpenRoles, Saved, Judged, Shown, Pooled, Active, Pools, config, store, Items, Go, Err
<1>12. Ended'
  BY DEF IInv, OpenRoles, Ended, OkMeansDone, Pooled, Active, Pools, pool, store, Items, Go
<1>13. Fresh'
  BY DEF IInv, OpenRoles, Fresh, Untouched, Early, Late, Disjoint, Pooled, Active, Pools, config, pool, Items, Go
<1>14. Disjoint'
  BY DEF IInv, OpenRoles, Fresh, Disjoint, Untouched, Early, Late, Pooled, Active, Pools, Placed, Ready, pool,
     Items, Go
<1>. QED  BY <1>1, <1>2, <1>3, <1>4, <1>5, <1>6, <1>7, <1>8, <1>9, <1>10, <1>11, <1>12, <1>13, <1>14 DEF IInv

LEMMA FetchInv == ASSUME IInv, NEW c \in Cols, Fetch(c)  PROVE IInv'
<1>1. TypeRun' /\ TypePool' /\ TypeResult' /\ Pooled' /\ Locked' /\ Hands' /\ (OneRootEach => Owned
      /\ Filed)' /\ Shown' /\ ColsDone' /\ RolesDone' /\ Saved' /\ Ended' /\ Fresh' /\ Disjoint'
  BY DEF IInv, TypeRun, TypePool, TypeResult, Pooled, Active, Locked, Hands, Owned, Filed, Shown, ColsDone, Cut,
     InLine, Levelled, Placed, RolesDone, Saved, Ended, OkMeansDone, Fresh, Untouched, Disjoint, Fetch, config,
     owner, signal, pool, store, result
<1>2. TypeTemps'
  BY DEF IInv, Fetch, TypeTemps, Items, Temps
<1>3. Fetching'
  BY DEF IInv, TypeTemps, Fetch, Fetching, Unreclaimed, Pooled, Active, Pools, config, Items
<1>. QED  BY <1>1, <1>2, <1>3 DEF IInv

LEMMA FetchedInv == ASSUME IInv, NEW c \in Cols, Fetched(c)  PROVE IInv'
<1>1. TypeRun' /\ TypePool' /\ TypeResult' /\ Pooled' /\ Locked' /\ Hands' /\ Shown' /\ ColsDone'
      /\ RolesDone' /\ Saved' /\ Ended' /\ Fresh' /\ Disjoint'
  BY DEF IInv, TypeRun, TypePool, TypeResult, Pooled, Active, Locked, Hands, Shown, ColsDone, Cut, InLine,
     Levelled, Placed, RolesDone, Saved, Ended, OkMeansDone, Fresh, Untouched, Disjoint, Fetched, config, owner,
     signal, pool, store, result
<1>2. TypeTemps'
  BY DEF IInv, Fetched, TypeTemps, Items, Temps
<1>3. Fetching'
  BY DEF IInv, TypeTemps, Fetched, Fetching, Unreclaimed, Pooled, Active, Pools, config, Items
<1>4. (OneRootEach => Owned /\ Filed)'
  BY DEF IInv, TypeTemps, Fetched, Owned, Filed, Hands, OneRootEach, Locked, Inside, Pools, Pooled, Active,
     Fetching, Unreclaimed, owner, Items
<1>. QED  BY <1>1, <1>2, <1>3, <1>4 DEF IInv

LEMMA FinishInv == ASSUME IInv, NEW c \in Cols, Finish(c)  PROVE IInv'
<1>1. TypeRun' /\ TypePool' /\ TypeResult' /\ Pooled' /\ Locked' /\ Hands' /\ (OneRootEach => Owned
      /\ Filed)' /\ Shown' /\ ColsDone' /\ RolesDone' /\ Saved' /\ Ended' /\ Fresh' /\ Disjoint'
  BY DEF IInv, TypeRun, TypePool, TypeResult, Pooled, Active, Locked, Hands, Owned, Filed, Shown, ColsDone, Cut,
     InLine, Levelled, Placed, RolesDone, Saved, Ended, OkMeansDone, Fresh, Untouched, Disjoint, Finish, config,
     owner, signal, pool, store, result
<1>2. TypeTemps'
  BY DEF IInv, Finish, TypeTemps, Items, Temps
<1>3. Fetching'
  BY DEF IInv, TypeTemps, Finish, Fetching, Unreclaimed, Pooled, Active, Pools, config, Items
<1>. QED  BY <1>1, <1>2, <1>3 DEF IInv

LEMMA WaitInv == ASSUME IInv, NEW x \in Items, Wait(x)  PROVE IInv'
<1>1. TypeRun' /\ TypeResult' /\ Locked' /\ Saved'
  BY DEF IInv, TypeRun, TypeResult, Locked, Saved, Wait, config, owner, signal, store, result
<1>2. TypePool'
  BY DEF IInv, Wait, TypePool, Ready, Items
<1>3. TypeTemps'
  BY DEF IInv, Wait, TypeTemps, Items, Temps
<1>4. Pooled'
  BY DEF IInv, TypePool, Wait, Pooled, Active, Pools, Items
<1>5. Fetching'
  BY DEF IInv, TypeTemps, Wait, Fetching, Unreclaimed, Pooled, Active, Pools, config, Items
<1>6. Hands'
  BY DEF IInv, TypePool, TypeTemps, Wait, Hands, Active, Pooled, Pools, Items
<1>7. (OneRootEach => Owned /\ Filed)'
  BY DEF IInv, TypeTemps, Wait, Owned, Filed, Hands, OneRootEach, Locked, Inside, Pools, Pooled, Active, Fetching,
     Unreclaimed, owner, Items
<1>8. Shown'
  BY DEF IInv, TypePool, Wait, Shown, signal, result, Items
<1>9. ColsDone'
  BY DEF IInv, TypePool, Wait, ColsDone, Cut, Judged, InLine, Active, Levelled, Placed, Shown, Pooled, Pools,
     signal, result, Items
<1>10. RolesDone'
  BY DEF IInv, TypePool, Wait, RolesDone, Cut, Judged, InLine, Active, Shown, Pooled, Pools, config, signal,
     result, Items
<1>11. Ended'
  BY DEF IInv, TypePool, Wait, Ended, OkMeansDone, Pooled, Active, Pools, store, result, Items
<1>12. Fresh'
  BY DEF IInv, TypePool, Wait, Fresh, Untouched, Early, Late, Disjoint, Pooled, Active, Pools, config, Items
<1>13. Disjoint'
  BY DEF IInv, TypePool, Wait, Fresh, Disjoint, Untouched, Early, Late, Pooled, Active, Pools, Placed, Ready, Items
<1>. QED  BY <1>1, <1>2, <1>3, <1>4, <1>5, <1>6, <1>7, <1>8, <1>9, <1>10, <1>11, <1>12, <1>13 DEF IInv

LEMMA ReclaimInv == ASSUME IInv, Reclaim  PROVE IInv'
<1>1. TypeResult' /\ Hands'
  BY DEF IInv, TypeResult, Hands, Reclaim, store, result
<1>2. TypeRun'
  BY DEF IInv, Reclaim, TypeRun, Phases, Pools, config, owner, signal, Go
<1>3. TypePool'
  BY DEF IInv, Reclaim, TypePool, Ready, Items
<1>4. TypeTemps'
  BY DEF IInv, Reclaim, TypeTemps, Items, Temps
<1>5. Pooled'
  BY DEF IInv, TypePool, Reclaim, Pooled, Active, Pools, Items, Go
<1>6. Fetching'
  BY DEF IInv, TypeTemps, Reclaim, Fetching, Unreclaimed, Pooled, Active, Pools, config, Items, Go
<1>7. Locked'
  BY DEF IInv, Reclaim, Locked, Inside, Pools, owner, Go
<1>8. (OneRootEach => Owned /\ Filed)'
  BY DEF IInv, TypeTemps, Reclaim, Owned, Filed, Hands, OneRootEach, Locked, Inside, Pools, Pooled, Active,
     Fetching, Unreclaimed, owner, Items, Go
<1>9. Shown'
  BY DEF IInv, Reclaim, Shown, signal, result, Items, Go
<1>10. ColsDone'
  BY DEF IInv, TypePool, Reclaim, ColsDone, Cut, Judged, InLine, Active, Levelled, Placed, Shown, Pooled, Pools,
     signal, result, Items, Go
<1>11. RolesDone'
  BY DEF IInv, TypePool, Reclaim, RolesDone, Cut, Judged, InLine, Active, Shown, Pooled, Pools, config, signal,
     result, Items, Go
<1>12. Saved'
  BY DEF IInv, Reclaim, Saved, Judged, Shown, Pooled, Active, Pools, config, store, result, Items, Go
<1>13. Ended'
  BY DEF IInv, Reclaim, Ended, OkMeansDone, Pooled, Active, Pools, store, result, Items, Go
<1>14. Fresh'
  BY PlanAssumption DEF IInv, TypeRun, TypePool, TypeTemps, TypeResult, Reclaim, Fresh, Untouched, Early, Late,
     Disjoint, Pooled, Active, Pools, config, owner, signal, pool, temps, store, result, Items, Temps, Go, Err,
     Errors, CtxDone, Joined, Busy
<1>15. Disjoint'
  BY DEF IInv, TypePool, Reclaim, Fresh, Disjoint, Untouched, Early, Late, Pooled, Active, Pools, Placed, Ready,
     Items, Go
<1>. QED  BY <1>1, <1>2, <1>3, <1>4, <1>5, <1>6, <1>7, <1>8, <1>9, <1>10, <1>11, <1>12, <1>13, <1>14, <1>15 DEF IInv

LEMMA TakeBuildInv == ASSUME IInv, NEW x \in Items, TakeBuild(x)  PROVE IInv'
<1>1. TypeRun' /\ TypePool' /\ TypeResult' /\ Pooled' /\ Fetching' /\ Locked' /\ Shown' /\ ColsDone'
      /\ RolesDone' /\ Saved' /\ Ended' /\ Fresh' /\ Disjoint'
  BY DEF IInv, TypeRun, TypePool, TypeResult, Pooled, Active, Fetching, Unreclaimed, Locked, Shown, ColsDone, Cut,
     InLine, Levelled, Placed, RolesDone, Saved, Ended, OkMeansDone, Fresh, Untouched, Disjoint, TakeBuild, config,
     owner, signal, pool, store, result
<1>2. TypeTemps'
  BY DEF IInv, TakeBuild, TypeTemps, Items, Temps
<1>3. Hands'
  BY DEF IInv, TypeTemps, TakeBuild, Hands, Active, Pooled, Pools, pool, Items
<1>4. (OneRootEach => Owned /\ Filed)'
  BY DEF IInv, TypeTemps, TakeBuild, Owned, Filed, Hands, OneRootEach, Locked, Inside, Pools, Pooled, Active,
     Fetching, Unreclaimed, owner, Items
<1>. QED  BY <1>1, <1>2, <1>3, <1>4 DEF IInv

LEMMA WorkInv == ASSUME IInv, NEW x \in Items, Work(x)  PROVE IInv'
<1>1. TypeRun' /\ Fetching' /\ Locked'
  BY DEF IInv, TypeRun, Fetching, Unreclaimed, Locked, Work, config, owner, signal
<1>2. TypePool'
  BY DEF IInv, Work, TypePool, Ready, Items
<1>3. TypeTemps'
  BY DEF IInv, Work, TypeTemps, Items, Temps
<1>4. TypeResult'
  <2>1. errs' \in SUBSET {"failed", "canceled", "busy"}
    BY DEF IInv, TypeResult, Work, Err, Errors, CtxDone
  <2>. QED  BY <2>1 DEF IInv, TypeResult, Work, config, owner, signal, pool, temps, store, result
<1>5. Pooled'
  BY DEF IInv, TypePool, Work, Pooled, Active, Pools, Items
<1>6. Hands'
  BY DEF IInv, TypePool, TypeTemps, Work, Hands, Active, Pooled, Pools, Items
<1>7. (OneRootEach => Owned /\ Filed)'
  BY DEF IInv, TypeTemps, Work, Owned, Filed, Hands, OneRootEach, Locked, Inside, Pools, Pooled, Active, Fetching,
     Unreclaimed, owner, Items
<1>8. Shown'
  BY DEF IInv, TypePool, Work, Shown, signal, Items, Err, Errors, CtxDone
<1>9. ColsDone'
  <2>1. UNCHANGED <<phase, levels, todo, pick, caught, lost>>
    BY DEF Work, config, owner, signal, pool, temps, store, result
  <2>2. CASE \E e \in Errors : Err(e)
    BY <2>2 DEF ColsDone, Cut, Err
  <2>3. CASE st' = [st EXCEPT ![x] = "ok"] /\ UNCHANGED errs
    <3>1. \A c \in Cols : st[c] = "ok" \/ Active(c) => st'[c] = "ok" \/ Active(c)'
      BY <2>3 DEF IInv, TypePool, Active, Items
    <3>. QED  BY <2>1, <2>3, <3>1 DEF IInv, ColsDone, Cut, InLine, Levelled, Placed
  <2>. QED  BY <2>2, <2>3 DEF Work
<1>10. RolesDone'
  BY DEF IInv, TypePool, Work, RolesDone, Cut, Judged, InLine, Active, Shown, Pooled, Pools, config, signal, Items,
     Err, Errors, CtxDone
<1>11. Saved'
  BY DEF IInv, Work, Saved, Judged, Shown, Pooled, Active, Pools, config, Items, Err, Errors, CtxDone
<1>12. Ended'
  BY DEF IInv, TypePool, Work, Ended, OkMeansDone, Pooled, Active, Pools, Items
<1>13. Fresh'
  BY DEF IInv, TypePool, Work, Fresh, Untouched, Early, Late, Disjoint, Pooled, Active, Pools, config, Items
<1>14. Disjoint'
  BY DEF IInv, TypePool, Work, Fresh, Disjoint, Untouched, Early, Late, Pooled, Active, Pools, Placed, Ready, Items
<1>. QED  BY <1>1, <1>2, <1>3, <1>4, <1>5, <1>6, <1>7, <1>8, <1>9, <1>10, <1>11, <1>12, <1>13, <1>14 DEF IInv

LEMMA NextLevelInv == ASSUME IInv, NextLevel  PROVE IInv'
<1>1. TypeTemps' /\ TypeResult' /\ Hands'
  BY DEF IInv, TypeTemps, TypeResult, Hands, NextLevel, temps, store, result
<1>2. TypeRun'
  BY DEF IInv, NextLevel, TypeRun, Phases, Pools, config, owner, signal, Go
<1>3. TypePool'
  <2>1. todo' \in SUBSET Items /\ UNCHANGED <<pick, st>>
    BY DEF IInv, TypePool, NextLevel, Items
  <2>2. levels' \in Seq(SUBSET Cols)
    BY DEF IInv, TypePool, NextLevel
  <2>. QED  BY <2>1, <2>2 DEF IInv, TypePool
<1>4. Pooled'
  BY DEF IInv, TypePool, NextLevel, Pooled, Active, Pools, Items, Go
<1>5. Fetching'
  BY PlanAssumption DEF IInv, TypeRun, TypePool, TypeTemps, TypeResult, NextLevel, Fetching, Unreclaimed, Pooled,
     Active, Pools, config, owner, signal, pool, temps, store, result, Items, Temps, Go, Err, Errors, CtxDone,
     Joined, Busy
<1>6. Locked'
  BY DEF IInv, NextLevel, Locked, Inside, Pools, owner, Go
<1>7. (OneRootEach => Owned /\ Filed)'
  BY DEF IInv, NextLevel, Owned, Filed, Hands, OneRootEach, Locked, Inside, Pools, Pooled, Active, Fetching,
     Unreclaimed, owner, temps, Items, Go
<1>8. Shown'
  BY DEF IInv, NextLevel, Shown, signal, result, Items, Go
<1>9. ColsDone'
  <2>1. UNCHANGED <<errs, caught, lost, st, pick>> /\ phase = "between" /\ todo = {} /\ pick = None
    BY DEF NextLevel, IInv, Pooled, Pools, config, owner, signal, pool, temps, store, result
  <2>2. Cut \/ \A c \in Cols : st[c] = "ok" \/ c \in Placed
    BY <2>1, PlanAssumption DEF IInv, ColsDone, InLine, Active, Pooled, Pools, Levelled, Items
  <2>3. CASE errs = {} /\ levels # <<>>
    <3>1. phase' = "level" /\ todo' = Head(levels) /\ levels' = Tail(levels)
      BY <2>3 DEF NextLevel, Go
    <3>2. \A c \in Placed : c \in todo' \/ c \in Placed'
      BY <2>3, <3>1, Behead DEF IInv, TypePool, Placed
    <3>. QED  BY <2>1, <2>2, <3>1, <3>2 DEF ColsDone, Cut, Judged, InLine, Levelled
  <2>4. CASE errs # {}
    BY <2>1, <2>4 DEF ColsDone, Cut
  <2>5. CASE errs = {} /\ levels = <<>>
    <3>1. Placed = {}
      BY <2>5 DEF Placed
    <3>2. phase' \in {"reclaim", "roles", "save"}
      BY <2>5 DEF NextLevel, Go
    <3>. QED  BY <2>1, <2>2, <3>1, <3>2 DEF ColsDone, Cut, Judged, InLine
  <2>. QED  BY <2>3, <2>4, <2>5
<1>10. RolesDone'
  BY DEF IInv, TypePool, NextLevel, RolesDone, Cut, Judged, InLine, Active, Shown, Pooled, Pools, config, signal,
     result, Items, Go
<1>11. Saved'
  BY DEF IInv, NextLevel, Saved, Judged, Shown, Pooled, Active, Pools, config, store, result, Items, Go
<1>12. Ended'
  BY DEF IInv, NextLevel, Ended, OkMeansDone, Pooled, Active, Pools, store, result, Items, Go
<1>13. Fresh'
  BY PlanAssumption DEF IInv, TypePool, NextLevel, Fresh, Untouched, Early, Late, Disjoint, Pooled, Active, Pools,
     config, Items, Go
<1>14. Disjoint'
  <2>1. UNCHANGED <<st, pick>> /\ phase = "between" /\ todo = {} /\ pick = None
    BY DEF NextLevel, IInv, Pooled, Pools, config, owner, signal, pool, temps, store, result
  <2>2. CASE errs = {} /\ levels # <<>>
    <3>1. phase' = "level" /\ todo' = Head(levels) /\ levels' = Tail(levels)
      BY <2>2 DEF NextLevel, Go
    <3>2. \A i \in DOMAIN levels' : i + 1 \in DOMAIN levels /\ i + 1 # 1 /\ levels'[i] = levels[i + 1]
      BY <2>2, <3>1, Behead DEF IInv, TypePool
    <3>3. \A i \in DOMAIN levels' : levels'[i] \cap todo' = {}
      BY <2>2, <3>1, <3>2, Behead DEF IInv, TypePool, Disjoint
    <3>4. \A i, j \in DOMAIN levels' : i # j => i + 1 # j + 1
      BY <2>2, <3>1, Behead DEF IInv, TypePool
    <3>5. \A i, j \in DOMAIN levels' : i # j => levels'[i] \cap levels'[j] = {}
      BY <3>2, <3>4 DEF IInv, Disjoint
    <3>6. \A i \in DOMAIN levels' : \A c \in levels'[i] : st[c] = "none" /\ c # pick
      BY <2>1, <3>2 DEF IInv, Disjoint, Late, Untouched
    <3>. QED  BY <2>1, <3>1, <3>3, <3>5, <3>6 DEF Disjoint, Untouched
  <2>3. CASE ~(errs = {} /\ levels # <<>>)
    <3>1. phase' \in {"reclaim", "roles", "save"} /\ UNCHANGED levels
      BY <2>3 DEF NextLevel, Go
    <3>. QED  BY <3>1 DEF IInv, Disjoint, Late
  <2>. QED  BY <2>2, <2>3
<1>. QED  BY <1>1, <1>2, <1>3, <1>4, <1>5, <1>6, <1>7, <1>8, <1>9, <1>10, <1>11, <1>12, <1>13, <1>14 DEF IInv

LEMMA LevelEndsInv == ASSUME IInv, LevelEnds  PROVE IInv'
<1>1. TypePool' /\ TypeTemps' /\ TypeResult' /\ Hands'
  BY DEF IInv, TypePool, TypeTemps, TypeResult, Hands, LevelEnds, pool, temps, store, result
<1>2. TypeRun'
  BY DEF IInv, LevelEnds, TypeRun, Phases, Pools, config, owner, signal, Items, Go
<1>3. Pooled'
  BY DEF IInv, LevelEnds, Pooled, Active, Pools, pool, Items, Go, Joined, Busy
<1>4. Fetching'
  BY DEF IInv, LevelEnds, Fetching, Unreclaimed, Pooled, Active, Pools, config, temps, Items, Go, Joined, Busy
<1>5. Locked'
  BY DEF IInv, LevelEnds, Locked, Inside, Pools, owner, Items, Go, Joined, Busy
<1>6. (OneRootEach => Owned /\ Filed)'
  BY DEF IInv, LevelEnds, Owned, Filed, Hands, OneRootEach, Locked, Inside, Pools, Pooled, Active, Fetching,
     Unreclaimed, owner, temps, Items, Go, Joined, Busy
<1>7. Shown'
  BY DEF IInv, LevelEnds, Shown, signal, pool, result, Items, Go, Joined, Busy
<1>8. ColsDone'
  BY DEF IInv, LevelEnds, ColsDone, Cut, Judged, InLine, Active, Levelled, Placed, Shown, Pooled, Pools, signal,
     pool, result, Items, Go, Joined, Busy
<1>9. RolesDone'
  BY DEF IInv, LevelEnds, RolesDone, Cut, Judged, InLine, Active, Shown, Pooled, Pools, config, signal, pool,
     result, Items, Go, Joined, Busy
<1>10. Saved'
  BY DEF IInv, LevelEnds, Saved, Judged, Shown, Pooled, Active, Pools, config, store, result, Items, Go, Joined, Busy
<1>11. Ended'
  BY DEF IInv, LevelEnds, Ended, OkMeansDone, Pooled, Active, Pools, pool, store, result, Items, Go, Joined, Busy
<1>12. Fresh'
  BY DEF IInv, LevelEnds, Fresh, Untouched, Early, Late, Disjoint, Pooled, Active, Pools, config, pool, Items, Go,
     Joined, Busy
<1>13. Disjoint'
  BY DEF IInv, LevelEnds, Fresh, Disjoint, Untouched, Early, Late, Pooled, Active, Pools, Placed, Ready, pool,
     Items, Go, Joined, Busy
<1>. QED  BY <1>1, <1>2, <1>3, <1>4, <1>5, <1>6, <1>7, <1>8, <1>9, <1>10, <1>11, <1>12, <1>13 DEF IInv

LEMMA RolesEndInv == ASSUME IInv, RolesEnd  PROVE IInv'
<1>1. TypePool' /\ TypeTemps' /\ TypeResult' /\ Hands'
  BY DEF IInv, TypePool, TypeTemps, TypeResult, Hands, RolesEnd, pool, temps, store, result
<1>2. TypeRun'
  BY DEF IInv, RolesEnd, TypeRun, Phases, Pools, config, owner, signal, Items, Go
<1>3. Pooled'
  BY DEF IInv, RolesEnd, Pooled, Active, Pools, pool, Items, Go, Joined, Busy
<1>4. Fetching'
  BY DEF IInv, RolesEnd, Fetching, Unreclaimed, Pooled, Active, Pools, config, temps, Items, Go, Joined, Busy
<1>5. Locked'
  BY DEF IInv, RolesEnd, Locked, Inside, Pools, owner, Items, Go, Joined, Busy
<1>6. (OneRootEach => Owned /\ Filed)'
  BY DEF IInv, RolesEnd, Owned, Filed, Hands, OneRootEach, Locked, Inside, Pools, Pooled, Active, Fetching,
     Unreclaimed, owner, temps, Items, Go, Joined, Busy
<1>7. Shown'
  BY DEF IInv, RolesEnd, Shown, signal, pool, result, Items, Go, Joined, Busy
<1>8. ColsDone'
  BY DEF IInv, RolesEnd, ColsDone, Cut, Judged, InLine, Active, Levelled, Placed, Shown, Pooled, Pools, signal,
     pool, result, Items, Go, Joined, Busy
<1>9. RolesDone'
  BY DEF IInv, RolesEnd, RolesDone, Cut, Judged, InLine, Active, Shown, Pooled, Pools, config, signal, pool,
     result, Items, Go, Joined, Busy
<1>10. Saved'
  BY DEF IInv, RolesEnd, Saved, Judged, Shown, Pooled, Active, Pools, config, store, result, Items, Go, Joined, Busy
<1>11. Ended'
  BY DEF IInv, RolesEnd, Ended, OkMeansDone, Pooled, Active, Pools, pool, store, result, Items, Go, Joined, Busy
<1>12. Fresh'
  BY DEF IInv, RolesEnd, Fresh, Untouched, Early, Late, Disjoint, Pooled, Active, Pools, config, pool, Items, Go,
     Joined, Busy
<1>13. Disjoint'
  BY DEF IInv, RolesEnd, Fresh, Disjoint, Untouched, Early, Late, Pooled, Active, Pools, Placed, Ready, pool,
     Items, Go, Joined, Busy
<1>. QED  BY <1>1, <1>2, <1>3, <1>4, <1>5, <1>6, <1>7, <1>8, <1>9, <1>10, <1>11, <1>12, <1>13 DEF IInv

LEMMA SaveInv == ASSUME IInv, Save  PROVE IInv'
<1>1. TypePool' /\ TypeTemps' /\ Hands'
  BY DEF IInv, TypePool, TypeTemps, Hands, Save, pool, temps
<1>2. TypeRun'
  BY DEF IInv, Save, TypeRun, Phases, Pools, config, owner, signal, Go
<1>3. TypeResult'
  BY DEF IInv, Save, TypeResult, Items, Err, Errors, CtxDone
<1>4. Pooled'
  BY DEF IInv, Save, Pooled, Active, Pools, pool, Items, Go
<1>5. Fetching'
  BY DEF IInv, Save, Fetching, Unreclaimed, Pooled, Active, Pools, config, temps, Items, Go
<1>6. Locked'
  BY DEF IInv, Save, Locked, Inside, Pools, owner, Go
<1>7. (OneRootEach => Owned /\ Filed)'
  BY DEF IInv, Save, Owned, Filed, Hands, OneRootEach, Locked, Inside, Pools, Pooled, Active, Fetching,
     Unreclaimed, owner, temps, Items, Go
<1>8. Shown'
  BY DEF IInv, Save, Shown, signal, pool, Items, Go, Err, Errors, CtxDone
<1>9. ColsDone'
  BY DEF IInv, Save, ColsDone, Cut, Judged, InLine, Active, Levelled, Placed, Shown, Pooled, Pools, signal, pool,
     Items, Go, Err, Errors, CtxDone
<1>10. RolesDone'
  BY DEF IInv, Save, RolesDone, Cut, Judged, InLine, Active, Shown, Pooled, Pools, config, signal, pool, Items, Go,
     Err, Errors, CtxDone
<1>11. Saved'
  BY DEF IInv, Save, Saved, Judged, Shown, Pooled, Active, Pools, config, Items, Go, Err, Errors, CtxDone
<1>12. Ended'
  BY DEF IInv, Save, Ended, OkMeansDone, Pooled, Active, Pools, pool, Items, Go
<1>13. Fresh'
  BY DEF IInv, Save, Fresh, Untouched, Early, Late, Disjoint, Pooled, Active, Pools, config, pool, Items, Go
<1>14. Disjoint'
  BY DEF IInv, Save, Fresh, Disjoint, Untouched, Early, Late, Pooled, Active, Pools, Placed, Ready, pool, Items, Go
<1>. QED  BY <1>1, <1>2, <1>3, <1>4, <1>5, <1>6, <1>7, <1>8, <1>9, <1>10, <1>11, <1>12, <1>13, <1>14 DEF IInv

LEMMA JudgeInv == ASSUME IInv, Judge  PROVE IInv'
<1>1. TypePool' /\ TypeTemps' /\ Hands'
  BY DEF IInv, TypePool, TypeTemps, Hands, Judge, pool, temps
<1>2. TypeRun'
  BY DEF IInv, Judge, TypeRun, Phases, Pools, config, owner, signal, Go
<1>3. TypeResult'
  BY DEF IInv, Judge, TypeResult, Items, store
<1>4. Pooled'
  BY DEF IInv, Judge, Pooled, Active, Pools, pool, Items, Go
<1>5. Fetching'
  BY DEF IInv, Judge, Fetching, Unreclaimed, Pooled, Active, Pools, config, temps, Items, Go
<1>6. Locked'
  BY DEF IInv, Judge, Locked, Inside, Pools, owner, Go
<1>7. (OneRootEach => Owned /\ Filed)'
  BY DEF IInv, Judge, Owned, Filed, Hands, OneRootEach, Locked, Inside, Pools, Pooled, Active, Fetching,
     Unreclaimed, owner, temps, Items, Go
<1>8. Shown'
  BY DEF IInv, Judge, Shown, signal, pool, Items, Go
<1>9. ColsDone'
  BY DEF IInv, Judge, ColsDone, Cut, Judged, InLine, Active, Levelled, Placed, Shown, Pooled, Pools, signal, pool,
     Items, Go
<1>10. RolesDone'
  BY DEF IInv, Judge, RolesDone, Cut, Judged, InLine, Active, Shown, Pooled, Pools, config, signal, pool, Items, Go
<1>11. Saved'
  BY DEF IInv, Judge, Saved, Judged, Shown, Pooled, Active, Pools, config, store, Items, Go
<1>12. Ended'
  BY DEF IInv, Judge, Ended, OkMeansDone, Pooled, Active, Pools, pool, store, Items, Go
<1>13. Fresh'
  BY DEF IInv, Judge, Fresh, Untouched, Early, Late, Disjoint, Pooled, Active, Pools, config, pool, Items, Go
<1>14. Disjoint'
  BY DEF IInv, Judge, Fresh, Disjoint, Untouched, Early, Late, Pooled, Active, Pools, Placed, Ready, pool, Items, Go
<1>. QED  BY <1>1, <1>2, <1>3, <1>4, <1>5, <1>6, <1>7, <1>8, <1>9, <1>10, <1>11, <1>12, <1>13, <1>14 DEF IInv

LEMMA CleanMemoInv == ASSUME IInv, CleanMemo  PROVE IInv'
<1>1. TypePool' /\ TypeResult'
  BY DEF IInv, TypePool, TypeResult, CleanMemo, pool, store, result
<1>2. TypeRun'
  BY DEF IInv, CleanMemo, TypeRun, Phases, Pools, config, owner, signal, Go
<1>3. TypeTemps'
  BY DEF IInv, CleanMemo, TypeTemps, Items, Temps
<1>4. Pooled'
  BY DEF IInv, CleanMemo, Pooled, Active, Pools, pool, Items, Go
<1>5. Fetching'
  BY DEF IInv, CleanMemo, Fetching, Unreclaimed, Pooled, Active, Pools, config, Items, Go
<1>6. Locked'
  BY DEF IInv, CleanMemo, Locked, Inside, Pools, owner, Go
<1>7. Hands'
  BY DEF IInv, TypeTemps, CleanMemo, Hands, Active, Pooled, Pools, pool, Items
<1>8. (OneRootEach => Owned /\ Filed)'
  BY DEF IInv, TypeTemps, CleanMemo, Owned, Filed, Hands, OneRootEach, Locked, Inside, Pools, Pooled, Active,
     Fetching, Unreclaimed, owner, Items, Go
<1>9. Shown'
  BY DEF IInv, CleanMemo, Shown, signal, pool, result, Items, Go
<1>10. ColsDone'
  BY DEF IInv, CleanMemo, ColsDone, Cut, Judged, InLine, Active, Levelled, Placed, Shown, Pooled, Pools, signal,
     pool, result, Items, Go
<1>11. RolesDone'
  BY DEF IInv, CleanMemo, RolesDone, Cut, Judged, InLine, Active, Shown, Pooled, Pools, config, signal, pool,
     result, Items, Go
<1>12. Saved'
  BY DEF IInv, CleanMemo, Saved, Judged, Shown, Pooled, Active, Pools, config, store, result, Items, Go
<1>13. Ended'
  BY DEF IInv, CleanMemo, Ended, OkMeansDone, Pooled, Active, Pools, pool, store, result, Items, Go
<1>14. Fresh'
  BY DEF IInv, CleanMemo, Fresh, Untouched, Early, Late, Disjoint, Pooled, Active, Pools, config, pool, Items, Go
<1>15. Disjoint'
  BY DEF IInv, CleanMemo, Fresh, Disjoint, Untouched, Early, Late, Pooled, Active, Pools, Placed, Ready, pool,
     Items, Go
<1>. QED  BY <1>1, <1>2, <1>3, <1>4, <1>5, <1>6, <1>7, <1>8, <1>9, <1>10, <1>11, <1>12, <1>13, <1>14, <1>15 DEF IInv

LEMMA CloseInv == ASSUME IInv, Close  PROVE IInv'
<1>1. TypePool' /\ TypeTemps' /\ TypeResult' /\ Hands'
  BY DEF IInv, TypePool, TypeTemps, TypeResult, Hands, Close, pool, temps, store, result
<1>2. TypeRun'
  BY DEF IInv, Close, TypeRun, Phases, Pools, config, signal, Go
<1>3. Pooled'
  BY DEF IInv, Close, Pooled, Active, Pools, pool, Items, Go
<1>4. Fetching'
  BY DEF IInv, Close, Fetching, Unreclaimed, Pooled, Active, Pools, config, temps, Items, Go
<1>5. Locked'
  BY DEF IInv, Close, Locked, Inside, Pools, Go
<1>6. (OneRootEach => Owned /\ Filed)'
  BY DEF IInv, Close, Owned, Filed, Hands, OneRootEach, Locked, Inside, Pools, Pooled, Active, Fetching,
     Unreclaimed, temps, Items, Go
<1>7. Shown'
  BY DEF IInv, Close, Shown, signal, pool, result, Items, Go
<1>8. ColsDone'
  BY DEF IInv, Close, ColsDone, Cut, Judged, InLine, Active, Levelled, Placed, Shown, Pooled, Pools, signal, pool,
     result, Items, Go
<1>9. RolesDone'
  BY DEF IInv, Close, RolesDone, Cut, Judged, InLine, Active, Shown, Pooled, Pools, config, signal, pool, result,
     Items, Go
<1>10. Saved'
  BY DEF IInv, Close, Saved, Judged, Shown, Pooled, Active, Pools, config, store, result, Items, Go
<1>11. Ended'
  BY DEF IInv, Close, Ended, OkMeansDone, Pooled, Active, Pools, pool, store, result, Items, Go
<1>12. Fresh'
  BY DEF IInv, Close, Fresh, Untouched, Early, Late, Disjoint, Pooled, Active, Pools, config, pool, Items, Go
<1>13. Disjoint'
  BY DEF IInv, Close, Fresh, Disjoint, Untouched, Early, Late, Pooled, Active, Pools, Placed, Ready, pool, Items, Go
<1>. QED  BY <1>1, <1>2, <1>3, <1>4, <1>5, <1>6, <1>7, <1>8, <1>9, <1>10, <1>11, <1>12, <1>13 DEF IInv

LEMMA ReleaseInv == ASSUME IInv, Release  PROVE IInv'
<1>1. TypePool' /\ TypeTemps' /\ TypeResult' /\ Hands'
  BY DEF IInv, TypePool, TypeTemps, TypeResult, Hands, Release, pool, temps, store, result
<1>2. TypeRun'
  BY DEF IInv, Release, TypeRun, Phases, Pools, config, signal, Go
<1>3. Pooled'
  BY DEF IInv, Release, Pooled, Active, Pools, pool, Items, Go
<1>4. Fetching'
  BY DEF IInv, Release, Fetching, Unreclaimed, Pooled, Active, Pools, config, temps, Items, Go
<1>5. Locked'
  BY DEF IInv, Release, Locked, Inside, Pools, Go
<1>6. (OneRootEach => Owned /\ Filed)'
  BY DEF IInv, Release, Owned, Filed, Hands, OneRootEach, Locked, Inside, Pools, Pooled, Active, Fetching,
     Unreclaimed, temps, Items, Go
<1>7. Shown'
  BY DEF IInv, Release, Shown, signal, pool, result, Items, Go
<1>8. ColsDone'
  BY DEF IInv, Release, ColsDone, Cut, Judged, InLine, Active, Levelled, Placed, Shown, Pooled, Pools, signal,
     pool, result, Items, Go
<1>9. RolesDone'
  BY DEF IInv, Release, RolesDone, Cut, Judged, InLine, Active, Shown, Pooled, Pools, config, signal, pool, result,
     Items, Go
<1>10. Saved'
  BY DEF IInv, Release, Saved, Judged, Shown, Pooled, Active, Pools, config, store, result, Items, Go
<1>11. Ended'
  BY DEF IInv, Release, Ended, OkMeansDone, Pooled, Active, Pools, pool, store, result, Items, Go
<1>12. Fresh'
  BY DEF IInv, Release, Fresh, Untouched, Early, Late, Disjoint, Pooled, Active, Pools, config, pool, Items, Go
<1>13. Disjoint'
  BY DEF IInv, Release, Fresh, Disjoint, Untouched, Early, Late, Pooled, Active, Pools, Placed, Ready, pool, Items, Go
<1>. QED  BY <1>1, <1>2, <1>3, <1>4, <1>5, <1>6, <1>7, <1>8, <1>9, <1>10, <1>11, <1>12, <1>13 DEF IInv

LEMMA ExitInv == ASSUME IInv, Exit  PROVE IInv'
<1>1. TypePool' /\ TypeTemps' /\ Hands'
  BY DEF IInv, TypePool, TypeTemps, Hands, Exit, pool, temps
<1>2. TypeRun'
  BY DEF IInv, Exit, TypeRun, Phases, Pools, config, owner, signal, Go
<1>3. TypeResult'
  BY DEF IInv, Exit, TypeResult, Items, store
<1>4. Pooled'
  BY DEF IInv, Exit, Pooled, Active, Pools, pool, Items, Go
<1>5. Fetching'
  BY DEF IInv, Exit, Fetching, Unreclaimed, Pooled, Active, Pools, config, temps, Items, Go
<1>6. Locked'
  BY DEF IInv, Exit, Locked, Inside, Pools, owner, Go
<1>7. (OneRootEach => Owned /\ Filed)'
  BY DEF IInv, Exit, Owned, Filed, Hands, OneRootEach, Locked, Inside, Pools, Pooled, Active, Fetching,
     Unreclaimed, owner, temps, Items, Go
<1>8. Shown'
  BY DEF IInv, Exit, Shown, signal, pool, Items, Go
<1>9. ColsDone'
  BY DEF IInv, Exit, ColsDone, Cut, Judged, InLine, Active, Levelled, Placed, Shown, Pooled, Pools, signal, pool,
     Items, Go
<1>10. RolesDone'
  BY DEF IInv, Exit, RolesDone, Cut, Judged, InLine, Active, Shown, Pooled, Pools, config, signal, pool, Items, Go
<1>11. Saved'
  BY DEF IInv, Exit, Saved, Judged, Shown, Pooled, Active, Pools, config, store, Items, Go
<1>12. Ended'
  <2>1. phase = "exit" /\ phase' = "ended" /\ UNCHANGED <<st, saved, snapshot, records, pick, todo>>
    BY DEF Exit, Go, config, owner, signal, pool, temps, store, result
  <2>2. SUFFICES ASSUME exit' = "ok"
                 PROVE  (\A x \in Cols \cup Roles : st[x] = "ok") /\ saved /\ snapshot = records
    BY <2>1 DEF Ended, OkMeansDone
  <2>3. ~caught /\ errs = {}
    <3>1. CASE caught
      BY <2>2, <3>1 DEF Exit
    <3>2. CASE ~caught /\ errs # {}
      BY <2>2, <3>2 DEF Exit
    <3>. QED  BY <3>1, <3>2
  <2>4. pick = None /\ todo = {} /\ \A x \in Items : ~Active(x)
    BY <2>1 DEF IInv, Pooled, Pools
  <2>5. \A x \in Cols \cup Roles : InLine(x)
    BY <2>1, <2>3 DEF IInv, ColsDone, RolesDone, Cut, Judged, Levelled
  <2>6. \A x \in Cols \cup Roles : st[x] = "ok"
    BY <2>4, <2>5, PlanAssumption DEF InLine, Items
  <2>. QED  BY <2>1, <2>3, <2>6 DEF IInv, Saved, Judged
<1>13. Fresh'
  BY DEF IInv, Exit, Fresh, Untouched, Early, Late, Disjoint, Pooled, Active, Pools, config, pool, Items, Go
<1>14. Disjoint'
  BY DEF IInv, Exit, Fresh, Disjoint, Untouched, Early, Late, Pooled, Active, Pools, Placed, Ready, pool, Items, Go
<1>. QED  BY <1>1, <1>2, <1>3, <1>4, <1>5, <1>6, <1>7, <1>8, <1>9, <1>10, <1>11, <1>12, <1>13, <1>14 DEF IInv

-----------------------------------------------------------------------------
LEMMA NextInv == ASSUME IInv, [Next]_vars  PROVE IInv'
<1>1. CASE UNCHANGED vars
  <2>1. UNCHANGED <<config, phase, owner, signal, pool, temps, store, result>>
    BY <1>1 DEF vars
  <2>2. TypeRun' /\ TypePool' /\ TypeTemps' /\ TypeResult' /\ Pooled' /\ Fetching' /\ Locked'
    BY <2>1 DEF IInv, TypeRun, TypePool, TypeTemps, TypeResult, Pooled, Active, Fetching, Unreclaimed, Locked,
                config, owner, signal, pool, temps, store, result
  <2>3. Fresh' /\ Disjoint' /\ Hands' /\ (OneRootEach => Owned /\ Filed)'
    BY <2>1 DEF IInv, Fresh, Disjoint, Untouched, Hands, Owned, Filed, config, owner, signal, pool, temps, store,
       result
  <2>4. Shown' /\ ColsDone' /\ RolesDone' /\ Saved' /\ Ended'
    BY <2>1 DEF IInv, Shown, ColsDone, RolesDone, Cut, InLine, Active, Levelled, Placed, Saved, Ended, OkMeansDone,
                config, owner, signal, pool, temps, store, result
  <2>. QED  BY <2>2, <2>3, <2>4 DEF IInv
<1>2. CASE Main
  BY <1>2, LockInv, LoadInv, UnwindInv, BeginInv, DiscoveredInv, ResolveInv, PlaceLevelInv, PlannedInv, OpenRolesInv,
     ScheduleInv, PickInv, StopDispatchInv, StartInv, NextLevelInv, LevelEndsInv, RolesEndInv, ReclaimInv, SaveInv,
     JudgeInv, CleanMemoInv, CloseInv, ReleaseInv, ExitInv DEF Main
<1>3. ASSUME NEW x \in Items, Worker(x)  PROVE IInv'
  BY <1>3, DiscoverInv, WaitInv, TakeBuildInv, WorkInv DEF Worker
<1>4. ASSUME NEW c \in Cols, Download(c)  PROVE IInv'
  BY <1>4, FetchInv, FetchedInv, FinishInv DEF Download
<1>. QED  BY <1>1, <1>2, <1>3, <1>4, CatchInv, CancelInv, LoseInv DEF Next

LEMMA Invariant == Spec => []IInv
BY InitInv, NextInv, PTL DEF Spec

(* Every step of a run keeps its state in its types.                       *)
THEOREM TypeCorrect == Spec => []TypeOK
<1>1. IInv => TypeOK
  BY TypeParts DEF IInv
<1>. QED  BY <1>1, Invariant, PTL

(* No worker of discovery, of the prefetcher or of an install runs without *)
(* the cache lock and an open backend: every pool is joined, and the       *)
(* prefetcher closed, before withBackend closes and releases.              *)
THEOREM WorkersJoined == Spec => []JoinedBeforeRelease
<1>1. IInv => JoinedBeforeRelease
  BY DEF IInv, JoinedBeforeRelease, Pooled, Active, Busy, Fetching, Unreclaimed, Locked, Inside, Pools
<1>. QED  BY <1>1, Invariant, PTL

(* Exit 0 means that every item of the plan was dealt with and its records *)
(* are on disk.                                                            *)
THEOREM OkIsDone == Spec => []OkMeansDone
<1>1. IInv => OkMeansDone
  BY DEF IInv, Ended
<1>. QED  BY <1>1, Invariant, PTL

(* A run that ends leaves no temp file, provided that no two unpinned      *)
(* roots expand to one collection (the memo would overwrite the first      *)
(* one's build).                                                           *)
THEOREM TempsAreReclaimed == OneRootEach /\ Spec => []TempsReclaimed
<1> DEFINE TInv == OneRootEach /\ IInv
<1>1. OneRootEach /\ Init => TInv
  BY InitInv
<1>2. TInv /\ [Next]_vars => TInv'
  BY NextInv DEF OneRootEach
<1>3. TInv => TempsReclaimed
  BY DEF IInv, Filed, TempsReclaimed
<1>. QED  BY <1>1, <1>2, <1>3, PTL DEF Spec
=============================================================================
