---------------------------- MODULE ExclusiveLock ----------------------------
(***************************************************************************)
(* What Backend.Lock (internal/galaxy/cache/backend.go) promises a run:    *)
(* the lock is exclusive from the moment it is granted until its work has  *)
(* returned and its heartbeat has stopped, or it dies.                     *)
(***************************************************************************)
EXTENDS FiniteSets

CONSTANT Runs
VARIABLE holders

Init == holders = {}

Acquire(r) == holders = {} /\ holders' = {r}
Leave(r)   == r \in holders /\ holders' = holders \ {r}

Next == \E r \in Runs : Acquire(r) \/ Leave(r)
Spec == Init /\ [][Next]_holders
=============================================================================
