------------------------------ MODULE MCSolver ------------------------------
(* An instance of Solver for TLC: three packages with at most two published
   versions each, and registries that force backjumps, partial satisfiers,
   cycles, unknown packages and constraints nothing published meets. *)
EXTENDS Solver

A == 1  B == 2  C == 3
MCPackages == {A, B, C}
MCVersions == 0..3              \* 3 is never published
MCPoint    == [v \in MCVersions |-> v]

Any   == [set |-> MCVersions, single |-> None]
In(S) == [set |-> S, single |-> None]
Eq(v) == [set |-> {v}, single |-> v]      \* "=v", which carries v

Nothing     == [q \in {} |-> Any]
On1(q, c)   == [p \in {q} |-> c]
On2(c, d)   == [p \in {B, C} |-> IF p = B THEN c ELSE d]

NeedsOfRoot == <<On1(A, Any), [p \in {A, B} |-> Any], [p \in {A, C} |-> IF p = A THEN Any ELSE In({1})]>>
NeedsOfA  == <<Nothing, On1(B, Eq(1)), On1(C, In({3})), On2(In({2}), Eq(1)), On2(Any, In({1, 2}))>>
NeedsOfB  == <<Nothing, On1(C, In({2})), On1(C, Eq(2)), On1(A, In({1})), On1(C, In({}))>>
NeedsOfC  == <<Nothing, On1(A, Eq(1)), On1(B, In({1}))>>

\* A registry chooses what each version needs.
MCRegistries ==
  [root : 1..3, a : (1..5) \X {2, 4, 5}, b : {1} \X (1..5),
   c : {<<1, 1>>, <<2, 1>>, <<1, 3>>, <<2, 3>>}, last : {2}, told : {TRUE}]
  \cup
  [root : {2, 3}, a : {1, 2, 4} \X {4, 5}, b : {3, 4} \X {1, 3, 5},
   c : {<<1, 1>>, <<2, 3>>}, last : 0..2, told : {FALSE}]

MCPublished(r, p) == IF p = Root THEN {0} ELSE IF p = C THEN 1..r.last ELSE {1, 2}
MCReported(r, p)  == IF p # Root /\ r.told /\ MCPublished(r, p) # {} THEN CHOOSE v \in Highest(MCPublished(r, p)) : TRUE ELSE None
MCRequires(r, p, v) ==
  CASE p = Root /\ v = 0 -> NeedsOfRoot[r.root]
    [] p = A /\ v \in {1, 2} -> NeedsOfA[r.a[v]]
    [] p = B /\ v \in {1, 2} -> NeedsOfB[r.b[v]]
    [] p = C /\ v \in {1, 2} -> NeedsOfC[r.c[v]]
    [] OTHER -> Nothing
=============================================================================
