---------------------------- MODULE MCInstallRun ----------------------------
(* Instances of InstallRun for TLC. *)
EXTENDS InstallRun, TLC

CONSTANTS a, b, c1, g1, g2

MCCols   == {a, b, c1}
MCRoots  == {g1, g2}
\* c1 needs a, and a graph with a cycle.
MCGraphs == {[x \in MCCols |-> IF x = c1 THEN {a} ELSE {}],
             [x \in MCCols |-> IF x = c1 THEN {a} ELSE IF x = a THEN {c1} ELSE {}]}
\* Two roots for two collections.
MCYields == (g1 :> a) @@ (g2 :> b)
=============================================================================
