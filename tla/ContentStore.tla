---------------------------- MODULE ContentStore ----------------------------
(***************************************************************************)
(* What the store of unpacked trees promises its users (package comment    *)
(* and Ensure of internal/galaxy/extracted/store.go): a set of contents, each *)
(* the tree of the artifact it is named by.  A worker may hold a content it    *)
(* reads from; no content leaves the set while it is held.                 *)
(***************************************************************************)
CONSTANTS Shas, None, Workers

VARIABLES have, held

TypeOK == have \in SUBSET Shas /\ held \in [Workers -> Shas \cup {None}]

Init == have = {} /\ held = [w \in Workers |-> None]

\* A content arrives; a worker that brought it may take it at once.
Put(s) == have' = have \cup {s} /\ UNCHANGED held

PutAndTake(w, s) ==
  /\ held[w] = None
  /\ have' = have \cup {s}
  /\ held' = [held EXCEPT ![w] = s]

Take(w, s) == s \in have /\ PutAndTake(w, s)

Release(w) == held' = [held EXCEPT ![w] = None] /\ UNCHANGED have

\* The run is killed.
ReleaseAll == held' = [w \in Workers |-> None] /\ UNCHANGED have

Drop(s) ==
  /\ \A w \in Workers : held[w] # s
  /\ have' = have \ {s}
  /\ UNCHANGED held

Next ==
  \/ ReleaseAll
  \/ \E s \in Shas : Put(s) \/ Drop(s)
  \/ \E w \in Workers : Release(w) \/ \E s \in Shas : Take(w, s) \/ PutAndTake(w, s)

Spec == Init /\ [][Next]_<<have, held>>
=============================================================================
