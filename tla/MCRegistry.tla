----------------------------- MODULE MCRegistry -----------------------------
(***************************************************************************)
(* Two projects, a collection of Galaxy's (b), a repository whose commits  *)
(* hold two versions of a collection (g), the older of which needs b, and  *)
(* a role of two versions (x), the newer of which needs another role (y).  *)
(***************************************************************************)
EXTENDS Registry, TLC

CONSTANTS b, g1, g2, x1, x2, y, p, q, w, v

MCSlot == [i \in Items |-> CASE i \in {g1, g2} -> g1 [] i \in {x1, x2} -> x1 [] OTHER -> i]
MCSource == [i \in Items |-> IF i \in {g1, g2} THEN "git" ELSE Galaxy]
MCEdges == [i \in Items |-> CASE i = g1 -> {b} [] i = x2 -> {y} [] OTHER -> {}]
\* Each project has a path of its own, or both share one.
MCHomes == {h \in [Projects -> Workspaces] : h[p] # h[q] \/ h[p] = w}
View == <<home, file, recorded, present, tree, extracted, disk, pc, mem, job, saved>>
Symmetry == Permutations(Projects)

Repo == [source |-> "git", admits |-> {g1, g2}]
B == [source |-> Galaxy, admits |-> {b}]
X1 == [source |-> Galaxy, admits |-> {x1}]
X2 == [source |-> Galaxy, admits |-> {x2}]
MCFiles == {[state |-> "ok", roots |-> {Repo}], [state |-> "ok", roots |-> {X1}],
            [state |-> "ok", roots |-> {X2}],
            [state |-> "missing", roots |-> {}], [state |-> "unreadable", roots |-> {}],
            [state |-> "roles", roots |-> {B, X2}]}
=============================================================================
