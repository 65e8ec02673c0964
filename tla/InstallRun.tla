----------------------------- MODULE InstallRun -----------------------------
(***************************************************************************)
(* One install or warm run under the cache lock (internal/galaxy/          *)
(* collections: run.go, install_command.go, warm_command.go, prefetch.go,  *)
(* the memo of git_discovery.go; cmd/go-galaxy/main.go).  The main         *)
(* goroutine discovers, plans, schedules downloads and dispatches levels   *)
(* and then roles to pools of workers, saves the snapshot and unwinds;     *)
(* download workers fetch ahead of it; a signal or the loss of the lock    *)
(* cancels it anywhere.                                                    *)
(*                                                                         *)
(* What one worker does to its collection is one step; what it does to the *)
(* extracted store is in module ExtractedStore.  Roots are the unpinned    *)
(* git roots of the requirements; url roots have a pool and a memo of the  *)
(* same shape.                                                             *)
(***************************************************************************)
EXTENDS Naturals, Sequences, FiniteSets

CONSTANTS
  Cols,             \* the collections of the plan
  Roles,            \* its roles
  Roots,            \* unpinned git roots, and the --no-cache builds they leave
  Yields,           \* the collection each root expands to
  Graphs,           \* dependency graphs resolution may come up with
  None,             \* nothing
  Workers,          \* cfg.Workers
  DownloadWorkers   \* cfg.DownloadWorkers

ASSUME PlanAssumption ==
  /\ IsFiniteSet(Cols) /\ IsFiniteSet(Roles) /\ IsFiniteSet(Roots)
  /\ Cols \cap Roles = {} /\ Cols \cap Roots = {} /\ Roles \cap Roots = {}
  /\ None \notin Cols \cup Roles \cup Roots \cup {"ok", "failed", "interrupt", "busy", "signal"}
  /\ Yields \in [Roots -> Cols]
  /\ Graphs \subseteq [Cols -> SUBSET Cols]
ASSUME WorkersAssumption == Workers \in Nat /\ DownloadWorkers \in Nat

VARIABLES
  cmd,       \* install or warm
  noCache,   \* cfg.NoCache
  graph,     \* the dependency graph
  phase,     \* where the main goroutine is
  open,      \* whether the cache backend is open
  held,      \* whether this run holds the cache lock
  caught,    \* the signal main recorded
  canceled,  \* whether the command's context was canceled
  lost,      \* whether the holder context was, by the loss of the lock
  levels,    \* install levels not begun
  todo,      \* items of the current pool not dispatched
  pick,      \* the item whose dispatch waits for a slot of the pool
  st,        \* what became of each item
  pf,        \* the prefetch task of each collection
  shelf,     \* prefetched: downloads nobody took yet
  memo,      \* gitDiscoveryMemo: the build kept for each collection
  hand,      \* temp files each worker owns
  files,     \* temp files on disk
  records,   \* records the run has put in its store
  snapshot,  \* the store as last saved
  saved,     \* whether it was
  errs,      \* kinds of the errors the run's result joins
  exit       \* the exit class

config == <<cmd, noCache, graph>>
signal == <<caught, canceled, lost>>
owner  == <<open, held>>
pool   == <<levels, todo, pick, st>>
temps  == <<pf, shelf, memo, hand, files>>
store  == <<records, snapshot, saved>>
result == <<errs, exit>>
vars   == <<config, phase, owner, signal, pool, temps, store, result>>

Items == Roots \cup Cols \cup Roles
Temps == Roots \cup Cols
Pools == {"discover", "level", "roles"}

\* max(cfg.Workers, 1), max(cfg.DownloadWorkers, 1)
AtLeastOne(n) == IF n = 0 THEN 1 ELSE n
Slots  == IF phase = "discover" THEN AtLeastOne(DownloadWorkers) ELSE AtLeastOne(Workers)
Busy   == {x \in Items : st[x] \in {"wait", "run"}}
Loads  == {c \in Cols : pf[c] \in {"fetch", "stored"}}
CtxDone == canceled \/ lost

TypeOK ==
  /\ cmd \in {"install", "warm"} /\ noCache \in BOOLEAN /\ graph \in Graphs
  /\ phase \in Pools \cup {"start", "load", "unlock", "begin", "resolve", "plan", "schedule", "between",
                           "openroles", "reclaim", "save", "judge", "memo", "close", "release",
                           "exit", "ended"}
  /\ open \in BOOLEAN /\ held \in BOOLEAN
  /\ caught \in BOOLEAN /\ canceled \in BOOLEAN /\ lost \in BOOLEAN
  /\ levels \in Seq(SUBSET Cols)
  /\ todo \in SUBSET Items /\ pick \in Items \cup {None}
  /\ st \in [Items -> {"none", "wait", "run", "ok", "failed"}]
  /\ pf \in [Cols -> {"off", "queued", "fetch", "stored", "done"}]
  /\ shelf \in SUBSET Cols
  /\ memo \in [Cols -> Roots \cup {None}]
  /\ hand \in [Cols -> SUBSET Temps]
  /\ files \in SUBSET Temps
  /\ records \in SUBSET (Cols \cup Roles) /\ snapshot \in SUBSET (Cols \cup Roles)
  /\ saved \in BOOLEAN
  /\ errs \in SUBSET {"failed", "canceled", "busy"}
  /\ exit \in {None, "ok", "failed", "interrupt", "busy", "signal"}

Init ==
  /\ cmd \in {"install", "warm"} /\ noCache \in BOOLEAN /\ graph \in Graphs
  /\ phase = "start" /\ open = TRUE /\ held = FALSE
  /\ caught = FALSE /\ canceled = FALSE /\ lost = FALSE
  /\ levels = <<>> /\ todo = {} /\ pick = None
  /\ st = [x \in Items |-> "none"]
  /\ pf = [c \in Cols |-> "off"] /\ shelf = {}
  /\ memo = [c \in Cols |-> None]
  /\ hand = [c \in Cols |-> {}] /\ files = {}
  /\ records = {} /\ snapshot = {} /\ saved = FALSE
  /\ errs = {} /\ exit = None

Go(to) == phase' = to

\* An error a call may end with; a canceled context shows in it.
Errors == {"failed"} \cup (IF CtxDone THEN {"canceled"} ELSE {})
Err(e) == errs' = errs \cup {e}

-----------------------------------------------------------------------------
(***************************************************************************)
(* Signals and the lock.                                                   *)
(***************************************************************************)
\* Mutant: the context is canceled before the signal is recorded.
CatchCanceling ==
  /\ ~canceled /\ phase # "ended"
  /\ canceled' = TRUE
  /\ UNCHANGED <<config, phase, owner, caught, lost, pool, temps, store, result>>

\* main's signal goroutine records the signal, then cancels.
Catch ==
  /\ ~caught /\ phase # "ended"
  /\ caught' = TRUE
  /\ UNCHANGED <<config, phase, owner, canceled, lost, pool, temps, store, result>>

Cancel ==
  /\ caught /\ ~canceled /\ phase # "ended"
  /\ canceled' = TRUE
  /\ UNCHANGED <<config, phase, owner, caught, lost, pool, temps, store, result>>

\* The heartbeat finds the lock taken over (module S3Lock).
Lose ==
  /\ held /\ ~lost
  /\ lost' = TRUE
  /\ UNCHANGED <<config, phase, owner, caught, canceled, pool, temps, store, result>>

\* Another run may hold it, or the backend may fail.
Lock ==
  /\ phase = "start"
  /\ \/ held' = TRUE /\ Go("load") /\ UNCHANGED <<open, errs>>
     \/ open' = FALSE /\ Go("exit") /\ UNCHANGED held /\ \E e \in Errors \cup {"busy"} : Err(e)
  /\ UNCHANGED <<config, signal, pool, temps, store, exit>>

\* initInstall after the lock: LoadStore, ClearFiles; a failure unwinds.
Load ==
  /\ phase = "load"
  /\ \/ Go("begin") /\ UNCHANGED errs
     \/ Go("unlock") /\ \E e \in Errors : Err(e)
  /\ UNCHANGED <<config, owner, signal, pool, temps, store, exit>>

\* unwindBackend releases first and closes then.
Unwind ==
  /\ phase = "unlock"
  /\ IF held THEN held' = FALSE /\ UNCHANGED <<phase, open>>
             ELSE open' = FALSE /\ Go("judge") /\ UNCHANGED held
  /\ UNCHANGED <<config, signal, pool, temps, store, result>>

\* The collections root, the requirements and the keyring open, or one does not.
Begin ==
  /\ phase = "begin"
  /\ \/ Go("discover") /\ todo' = Roots /\ UNCHANGED errs
     \/ Go("judge") /\ Err("failed") /\ UNCHANGED todo
  /\ UNCHANGED <<config, owner, signal, levels, pick, st, temps, store, exit>>

-----------------------------------------------------------------------------
(***************************************************************************)
(* The pools.                                                              *)
(***************************************************************************)
\* The dispatch loop: installs and roles look at the context first.
Pick(x) ==
  /\ phase \in Pools /\ pick = None /\ x \in todo
  /\ phase = "discover" \/ ~CtxDone
  /\ pick' = x
  /\ todo' = todo \ {x}
  /\ UNCHANGED <<config, phase, owner, signal, levels, st, temps, store, result>>

StopDispatch ==
  /\ phase \in Pools \ {"discover"} /\ pick = None /\ todo # {} /\ CtxDone
  /\ todo' = {}
  /\ UNCHANGED <<config, phase, owner, signal, levels, pick, st, temps, store, result>>

\* The slot is free; a collection's worker first waits for its prefetch.
Start ==
  /\ pick # None /\ Cardinality(Busy) < Slots
  /\ st' = [st EXCEPT ![pick] = IF pick \in Cols THEN "wait" ELSE "run"]
  /\ pick' = None
  /\ UNCHANGED <<config, phase, owner, signal, levels, todo, temps, store, result>>

Joined      == todo = {} /\ pick = None /\ Busy = {}

\* expandGitRoot: under --no-cache the build is kept in the memo.
Discover(r) ==
  /\ r \in Roots /\ st[r] = "run"
  /\ \/ /\ st' = [st EXCEPT ![r] = "ok"]
        /\ IF noCache THEN /\ files' = files \cup {r}
                           /\ memo' = [memo EXCEPT ![Yields[r]] = r]
                      ELSE UNCHANGED <<files, memo>>
        /\ UNCHANGED errs
     \/ /\ st' = [st EXCEPT ![r] = "failed"]
        /\ \E e \in Errors : Err(e)
        /\ UNCHANGED <<files, memo>>
  /\ UNCHANGED <<config, phase, owner, signal, levels, todo, pick, pf, shelf, hand, store, exit>>

Discovered ==
  /\ phase = "discover" /\ Joined
  /\ Go(IF errs = {} THEN "resolve" ELSE "judge")
  /\ UNCHANGED <<config, owner, signal, pool, temps, store, result>>

-----------------------------------------------------------------------------
(***************************************************************************)
(* The plan.                                                               *)
(***************************************************************************)
\* checkExpandedDuplicates, then the solver and the roles.
Resolve ==
  /\ phase = "resolve"
  /\ \E ok \in BOOLEAN :
       /\ ok => \A q, r \in Roots : Yields[q] = Yields[r] => q = r
       /\ IF ok THEN Go("plan") /\ UNCHANGED errs
                ELSE Go("judge") /\ \E e \in Errors : Err(e)
  /\ UNCHANGED <<config, owner, signal, pool, temps, store, exit>>

Placed == UNION {levels[i] : i \in DOMAIN levels}

\* topologicalLevels: the nodes whose indegree has dropped to zero.
Ready == {c \in Cols \ Placed : graph[c] \subseteq Placed}

PlaceLevel ==
  /\ phase = "plan" /\ Ready # {}
  /\ levels' = Append(levels, Ready)
  /\ UNCHANGED <<config, phase, owner, signal, todo, pick, st, temps, store, result>>

\* Every node is placed, or the graph has a cycle.  A warm run discards the
\* levels and takes the collections in one pool.
Planned ==
  /\ phase = "plan" /\ Ready = {}
  /\ IF Placed = Cols
       THEN /\ levels' = IF cmd = "warm" THEN <<Cols>> ELSE levels
            /\ Go("schedule")
            /\ UNCHANGED errs
       ELSE Go("judge") /\ Err("failed") /\ UNCHANGED levels
  /\ UNCHANGED <<config, owner, signal, todo, pick, st, temps, store, exit>>

\* startPrefetcher: the tasks are the keys neither installed nor cached.
Schedule(tasks) ==
  /\ phase = "schedule"
  /\ noCache => tasks = {}
  /\ pf' = [c \in Cols |-> IF c \in tasks THEN "queued" ELSE "off"]
  /\ Go(IF cmd = "install" THEN "openroles" ELSE "between")
  /\ UNCHANGED <<config, owner, signal, pool, shelf, memo, hand, files, store, result>>

\* openRolesRootIfNeeded may fail with the prefetcher already running.
OpenRoles ==
  /\ phase = "openroles"
  /\ \/ Go("between") /\ UNCHANGED errs
     \/ Roles # {} /\ Go("reclaim") /\ Err("failed")
  /\ UNCHANGED <<config, owner, signal, pool, temps, store, exit>>

-----------------------------------------------------------------------------
(***************************************************************************)
(* The prefetcher.                                                         *)
(***************************************************************************)
Fetch(c) ==
  /\ pf[c] = "queued" /\ Cardinality(Loads) < AtLeastOne(DownloadWorkers)
  /\ pf' = [pf EXCEPT ![c] = "fetch"]
  /\ UNCHANGED <<config, phase, owner, signal, pool, shelf, memo, hand, files, store, result>>

\* finish stores what a download came to - a temp file, a cache slot that
\* needs none, or an error - and then closes the task's channel.
Fetched(c) ==
  /\ pf[c] = "fetch"
  /\ pf' = [pf EXCEPT ![c] = "stored"]
  /\ \/ files' = files \cup {c} /\ shelf' = shelf \cup {c}
     \/ UNCHANGED <<files, shelf>>
  /\ UNCHANGED <<config, phase, owner, signal, pool, memo, hand, store, result>>

\* Mutant: a download without a result does not close its channel.
FinishOfResult(c) ==
  /\ pf[c] = "stored" /\ c \in shelf
  /\ pf' = [pf EXCEPT ![c] = "done"]
  /\ UNCHANGED <<config, phase, owner, signal, pool, shelf, memo, hand, files, store, result>>

Finish(c) ==
  /\ pf[c] = "stored"
  /\ pf' = [pf EXCEPT ![c] = "done"]
  /\ UNCHANGED <<config, phase, owner, signal, pool, shelf, memo, hand, files, store, result>>

\* prefetcher.Wait: the temp file changes its owner.
Wait(c) ==
  /\ c \in Cols /\ st[c] = "wait" /\ pf[c] \in {"off", "done"}
  /\ st' = [st EXCEPT ![c] = "run"]
  /\ shelf' = shelf \ {c}
  /\ hand' = [hand EXCEPT ![c] = shelf \cap {c}]
  /\ UNCHANGED <<config, phase, owner, signal, levels, todo, pick, pf, memo, files, store, result>>

\* Mutant: Close reclaims without waiting for the download workers.
ReclaimUnjoined ==
  /\ phase = "reclaim"
  /\ files' = files \ shelf
  /\ shelf' = {}
  /\ IF cmd = "install" THEN Go("judge") /\ UNCHANGED todo
     ELSE Go(IF errs = {} THEN "roles" ELSE "save") /\ todo' = IF errs = {} THEN Roles ELSE {}
  /\ UNCHANGED <<config, owner, signal, levels, pick, st, pf, memo, hand, store, result>>

\* prefetcher.Close joins the download workers and removes what nobody took.
Reclaim ==
  /\ phase = "reclaim" /\ \A c \in Cols : pf[c] \in {"off", "done"}
  /\ files' = files \ shelf
  /\ shelf' = {}
  /\ IF cmd = "install" THEN Go("judge") /\ UNCHANGED todo
     ELSE Go(IF errs = {} THEN "roles" ELSE "save") /\ todo' = IF errs = {} THEN Roles ELSE {}
  /\ UNCHANGED <<config, owner, signal, levels, pick, st, pf, memo, hand, store, result>>

-----------------------------------------------------------------------------
(***************************************************************************)
(* Installing and warming.                                                 *)
(***************************************************************************)
\* takePrebuilt: a build discovery left in the memo goes to its worker.
TakeBuild(c) ==
  /\ c \in Cols /\ st[c] = "run" /\ memo[c] # None
  /\ hand' = [hand EXCEPT ![c] = @ \cup {memo[c]}]
  /\ memo' = [memo EXCEPT ![c] = None]
  /\ UNCHANGED <<config, phase, owner, signal, pool, pf, shelf, files, store, result>>

\* installCollection, warmOne, installRole, warmRole: the worker skips, installs
\* and records, or fails, and removes its temp files whichever it was.
Work(x) ==
  /\ x \in Cols \cup Roles /\ st[x] = "run"
  /\ \/ /\ st' = [st EXCEPT ![x] = "ok"]
        /\ records' \in {records, records \cup {x}}
        /\ UNCHANGED errs
     \/ /\ st' = [st EXCEPT ![x] = "failed"]
        /\ \E e \in Errors : Err(e)
        /\ UNCHANGED records
  /\ IF x \in Cols THEN /\ files' = files \ hand[x]
                        /\ hand' = [hand EXCEPT ![x] = {}]
                   ELSE UNCHANGED <<files, hand>>
  /\ UNCHANGED <<config, phase, owner, signal, levels, todo, pick, pf, shelf, memo,
                 snapshot, saved, exit>>

\* installLevels stops after a level that failed; roles follow only when none did.
NextLevel ==
  /\ phase = "between"
  /\ IF errs = {} /\ levels # <<>>
       THEN Go("level") /\ todo' = Head(levels) /\ levels' = Tail(levels)
       ELSE /\ UNCHANGED levels
            /\ IF cmd = "warm" THEN Go("reclaim") /\ UNCHANGED todo
               ELSE Go(IF errs = {} THEN "roles" ELSE "save") /\ todo' = IF errs = {} THEN Roles ELSE {}
  /\ UNCHANGED <<config, owner, signal, pick, st, temps, store, result>>

LevelEnds ==
  /\ phase = "level" /\ Joined
  /\ Go("between")
  /\ UNCHANGED <<config, owner, signal, pool, temps, store, result>>

RolesEnd ==
  /\ phase = "roles" /\ Joined
  /\ Go("save")
  /\ UNCHANGED <<config, owner, signal, pool, temps, store, result>>

-----------------------------------------------------------------------------
(***************************************************************************)
(* The end.                                                                *)
(***************************************************************************)
\* finalizeInstall, and the tail of warmWithState.  A backend whose lock was
\* lost has a canceled context and writes nothing; a store nobody wrote to is
\* not written at all.
Save ==
  /\ phase = "save"
  /\ \/ /\ lost => records = {}
        /\ snapshot' = records /\ saved' = TRUE
        /\ UNCHANGED errs
     \/ /\ \E e \in Errors : Err(e)
        /\ UNCHANGED <<snapshot, saved>>
  /\ Go(IF cmd = "install" THEN "reclaim" ELSE "judge")
  /\ UNCHANGED <<config, owner, signal, pool, temps, records, exit>>

\* Mutant: the loss wraps the run's own error, which then decides the class.
JudgeWrapping ==
  /\ phase = "judge"
  /\ errs' = IF lost /\ ~canceled THEN errs \cup {"busy"} ELSE errs
  /\ Go(IF held THEN "memo" ELSE "exit")
  /\ UNCHANGED <<config, owner, signal, pool, temps, store, exit>>

\* LockLostError
Judge ==
  /\ phase = "judge"
  /\ errs' = IF lost /\ ~canceled THEN {"busy"} ELSE errs
  /\ Go(IF held THEN "memo" ELSE "exit")
  /\ UNCHANGED <<config, owner, signal, pool, temps, store, exit>>

\* gitDiscoveryMemo.cleanup
CleanMemo ==
  /\ phase = "memo"
  /\ files' = files \ {memo[c] : c \in Cols}
  /\ memo' = [c \in Cols |-> None]
  /\ Go("close")
  /\ UNCHANGED <<config, owner, signal, pool, pf, shelf, hand, store, result>>

Close ==
  /\ phase = "close"
  /\ open' = FALSE
  /\ Go("release")
  /\ UNCHANGED <<config, held, signal, pool, temps, store, result>>

Release ==
  /\ phase = "release"
  /\ held' = FALSE
  /\ Go("exit")
  /\ UNCHANGED <<config, open, signal, pool, temps, store, result>>

\* handleResult and FromError: a signal wins, then a cancellation, then the
\* failures of the work.
Exit ==
  /\ phase = "exit"
  /\ exit' = IF caught THEN "signal"
             ELSE IF errs = {} THEN "ok"
             ELSE IF "canceled" \in errs THEN "interrupt"
             ELSE IF "failed" \in errs THEN "failed"
             ELSE "busy"
  /\ Go("ended")
  /\ UNCHANGED <<config, owner, signal, pool, temps, store, errs>>

Main ==
  \/ Lock \/ Load \/ Unwind \/ Begin \/ Discovered \/ Resolve \/ PlaceLevel \/ Planned \/ OpenRoles
  \/ \E tasks \in SUBSET Cols : Schedule(tasks)
  \/ \E x \in Items : Pick(x)
  \/ StopDispatch \/ Start \/ NextLevel \/ LevelEnds \/ RolesEnd \/ Reclaim
  \/ Save \/ Judge \/ CleanMemo \/ Close \/ Release \/ Exit

Worker(x)   == Discover(x) \/ Wait(x) \/ TakeBuild(x) \/ Work(x)
Download(c) == Fetch(c) \/ Fetched(c) \/ Finish(c)

Next ==
  \/ Main \/ Catch \/ Cancel \/ Lose
  \/ \E x \in Items : Worker(x)
  \/ \E c \in Cols : Download(c)

Spec == Init /\ [][Next]_vars
\* Goroutines are scheduled, and what they do ends: every request and download
\* has a deadline.
FairSpec ==
  /\ Spec
  /\ WF_vars(Main)
  /\ \A x \in Items : WF_vars(Worker(x))
  /\ \A c \in Cols : WF_vars(Download(c))

-----------------------------------------------------------------------------
(***************************************************************************)
(* Properties.                                                             *)
(***************************************************************************)
\* No worker of discovery, of the prefetcher or of an install runs without the
\* cache lock and an open backend: the prefetcher's Close and every pool's Wait
\* come before the deferred Close and release of withBackend.
JoinedBeforeRelease ==
  (Busy # {} \/ \E c \in Cols : pf[c] \notin {"off", "done"}) => held /\ open

\* Exit 0 means that everything planned was installed or warmed and the records
\* of it are on disk: a dispatch cut short without an error always shows in the
\* exit code, by the signal or the lost lock that cut it.
OkMeansDone ==
  exit = "ok" => /\ \A x \in Cols \cup Roles : st[x] = "ok"
                 /\ saved /\ snapshot = records

\* A run that ends leaves no temp file, however it ended ("cleanup removes every
\* --no-cache build nobody took", git_discovery.go:82).
TempsReclaimed == phase = "ended" => files = {}

\* When the lock is lost before the run is judged, whatever the run came to is
\* reported as contention, never as the cancellation the loss causes or as the
\* failures that follow from it; a signal alone outranks it.
LossReported == (phase = "judge" /\ lost) ~> (exit \in {"busy", "signal"})

\* The run ends: workers that hold slots of one pool while they wait for the
\* results of another never wait in vain.
RunEnds == <>(phase = "ended")
=============================================================================
