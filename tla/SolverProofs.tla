---------------------------- MODULE SolverProofs ----------------------------
(***************************************************************************)
(* Theorems about Solver: the state keeps its types, a conflict error is a *)
(* proof, and a result is a selection.  For the first two, every           *)
(* incompatibility, published or learned, is implied by the registry: no   *)
(* selection makes all of its terms true.                                  *)
(***************************************************************************)
EXTENDS Solver, FiniteSetTheorems, TLAPS

\* A selection c makes the term t of p true.
Within(c, p, S) == c[p] # None /\ Point[c[p]] \in S
Truth(c, p, t)  == IF t.pos THEN Within(c, p, t.set) ELSE ~Within(c, p, t.set)

\* A version with two spellings may be told apart by its dependencies, which
\* terms cannot do: nothing is claimed of registries that have one.
Selected == {c \in Selections : OneSpelling}

\* No selection makes every term true.
Implied(f) == \A c \in Selected : \E p \in DOMAIN f : ~Truth(c, p, f[p])

\* An assignment's term is the negation of its cause's.
Opposite(t, u) == t.pos = ~u.pos /\ t.set = u.set

ThePoint == {Point[0]}

\* Terms on the root are on its version; a negative one stands alone.
RootTerm(f) == Root \in DOMAIN f => f[Root].set = ThePoint /\ (f[Root].pos \/ DOMAIN f = {Root})
RootTrue(f) == Root \in DOMAIN f => f[Root].set = ThePoint /\ f[Root].pos

Causes ==
  \A i \in 1..Len(asg) : LET k == asg[i].cause IN k # 0 =>
    /\ k \in 1..Len(incs) /\ asg[i].pkg \in DOMAIN incs[k].terms
    /\ Opposite(asg[i].term, incs[k].terms[asg[i].pkg])

\* What conflict resolution holds is stored, once it is done.
Resolving ==
  /\ pc \in {"resolve", "derive"} => Implied(conflict.terms)
  /\ RootTrue(conflict.terms)
  /\ conflict.index # 0 => SameTerms(incs[conflict.index].terms, conflict.terms)
  /\ pc = "derive" => conflict.index # 0

Stores ==
  /\ \A i \in 1..Len(incs) : Implied(incs[i].terms)
  /\ \A i \in 1..Len(incs) : RootTerm(incs[i].terms)

\* The root comes first, at level 0, and no assignment excludes its version.
RootFirst ==
  /\ \A i \in 1..Len(asg) : asg[i].pkg = Root => asg[i].term.pos /\ asg[i].term.set = ThePoint
  /\ asg # <<>> => asg[1].pkg = Root /\ asg[1].level = 0
  /\ asg = <<>> => /\ level = 0
                   /\ \A i \in 1..Len(incs) : DOMAIN incs[i].terms = {Root} /\ ~incs[i].terms[Root].pos
                   /\ pc \notin {"resolve", "derive", "depend"}
  /\ Root \in fetched

Attempts ==
  pc = "depend" =>
    /\ attempt.ver # None
    /\ pkg = Root => attempt.ver = 0
    /\ attempt.todo # {} => attempt.ver \in Pub(pkg) /\ attempt.todo \subseteq DOMAIN Needs(pkg, attempt.ver)

IInv == TypeOK /\ Stores /\ Causes /\ Resolving /\ RootFirst /\ Attempts

-----------------------------------------------------------------------------
(***************************************************************************)
(* Terms.                                                                  *)
(***************************************************************************)
\* termIntersect is conjunction, and gives a term.
LEMMA MeetIsAnd ==
  ASSUME NEW c, NEW p, NEW t \in Term, NEW u \in Term
  PROVE  Meet(t, u) \in Term /\ (Truth(c, p, Meet(t, u)) <=> Truth(c, p, t) /\ Truth(c, p, u))
<1>1. t = [pos |-> t.pos, set |-> t.set, single |-> t.single] /\ t.pos \in BOOLEAN /\ t.set \subseteq Points
  BY DEF Term
<1>2. u = [pos |-> u.pos, set |-> u.set, single |-> u.single] /\ u.pos \in BOOLEAN /\ u.set \subseteq Points
  BY DEF Term
<1>3. CASE Tautology(t)
  <2>1. Meet(t, u) = u  BY <1>3 DEF Meet
  <2>2. Truth(c, p, t)  BY <1>3 DEF Tautology, Truth, Within
  <2> QED  BY <2>1, <2>2
<1>4. CASE ~Tautology(t) /\ Tautology(u)
  <2>1. Meet(t, u) = t  BY <1>4 DEF Meet
  <2>2. Truth(c, p, u)  BY <1>4 DEF Tautology, Truth, Within
  <2> QED  BY <2>1, <2>2
<1>5. CASE ~Tautology(t) /\ ~Tautology(u)
  <2>1. CASE t.pos /\ u.pos
    <3>1. Meet(t, u) = Pos(t.set \cap u.set, None)  BY <1>5, <2>1 DEF Meet
    <3> QED  BY <1>1, <1>2, <2>1, <3>1 DEF Pos, Term, Truth, Within
  <2>2. CASE t.pos /\ ~u.pos
    <3>1. Meet(t, u) = Pos(t.set \ u.set, None)  BY <1>5, <2>2 DEF Meet
    <3> QED  BY <1>1, <1>2, <2>2, <3>1 DEF Pos, Term, Truth, Within
  <2>3. CASE ~t.pos /\ u.pos
    <3>1. Meet(t, u) = Pos(u.set \ t.set, None)  BY <1>5, <2>3 DEF Meet
    <3> QED  BY <1>1, <1>2, <2>3, <3>1 DEF Pos, Term, Truth, Within
  <2>4. CASE ~t.pos /\ ~u.pos
    <3>1. Meet(t, u) = Not(t.set \cup u.set, None)  BY <1>5, <2>4 DEF Meet
    <3> QED  BY <1>1, <1>2, <2>4, <3>1 DEF Not, Term, Truth, Within
  <2> QED  BY <2>1, <2>2, <2>3, <2>4
<1> QED  BY <1>3, <1>4, <1>5

\* Negate is negation.
LEMMA NegateIsNot ==
  ASSUME NEW c, NEW p, NEW t \in Term
  PROVE  /\ Negate(t) \in Term /\ Opposite(Negate(t), t)
         /\ (Truth(c, p, Negate(t)) <=> ~Truth(c, p, t))
<1>1. Negate(t).pos = ~t.pos /\ Negate(t).set = t.set /\ Negate(t) \in Term
  BY DEF Term, Negate
<1> QED  BY <1>1 DEF Opposite, Truth, Term

\* termSubset is implication.
LEMMA EntailsIsImplies ==
  ASSUME NEW c, NEW p, NEW t \in Term, NEW u \in Term, Entails(t, u), Truth(c, p, t)
  PROVE  Truth(c, p, u)
BY DEF Entails, Truth, Within, Term

\* So is what is opposite to it.
LEMMA OppositeIsNot ==
  ASSUME NEW c, NEW p, NEW t \in Term, NEW u \in Term, Opposite(t, u)
  PROVE  Truth(c, p, t) <=> ~Truth(c, p, u)
BY DEF Opposite, Truth, Term

\* The accumulation is a term.
LEMMA AccumIsTerm ==
  ASSUME NEW s \in Seq(Assignment), NEW n \in 0..Len(s), NEW p
  PROVE  Accum(s, n, p) \in Term
<1> DEFINE held == {i \in Of(s, n, p) : s[i].term.pos}
           out  == UNION {s[i].term.set : i \in Of(s, n, p) \ held}
<1>1. out \subseteq Points
  <2>1. \A i \in Of(s, n, p) : s[i] \in Assignment  BY DEF Of
  <2>2. \A i \in Of(s, n, p) : s[i].term.set \subseteq Points  BY <2>1 DEF Assignment, Term
  <2> QED  BY <2>2
<1>2. Not(out, None) \in Term  BY <1>1 DEF Not, Term
<1>3. Pos({x \in Points \ out : \A i \in held : x \in s[i].term.set}, None) \in Term
  BY DEF Pos, Term
<1> QED  BY <1>2, <1>3 DEF Accum

-----------------------------------------------------------------------------
(***************************************************************************)
(* Incompatibilities.                                                      *)
(***************************************************************************)
\* Every selection has the root's version.
LEMMA RootSelected ==
  ASSUME NEW c \in Selected, NEW t, t.set = ThePoint, t.pos
  PROVE  Truth(c, Root, t)
<1>1. c[Root] = 0  BY DEF Selected, Selections, IsSelection
<1>2. c[Root] # None  BY <1>1, NamesAssumption
<1> QED  BY <1>1, <1>2 DEF Truth, Within, ThePoint

\* A terminal incompatibility leaves no selection.
LEMMA TerminalRefutes ==
  ASSUME NEW f, Terminal(f), Implied(f), RootTrue(f)
  PROVE  Selected = {}
<1> SUFFICES ASSUME NEW c \in Selected PROVE FALSE
  OBVIOUS
<1>1. PICK p \in DOMAIN f : ~Truth(c, p, f[p])  BY DEF Implied
<1>2. p = Root  BY <1>1 DEF Terminal
<1>3. f[Root].set = ThePoint /\ f[Root].pos  BY <1>1, <1>2 DEF RootTrue
<1> QED  BY <1>1, <1>2, <1>3, RootSelected

\* What normalizeTerms drops is true in every selection.
LEMMA NormalizedImplied ==
  ASSUME NEW f, IsTerms(f), RootTrue(f), Implied(f)
  PROVE  IsTerms(Normalized(f)) /\ RootTrue(Normalized(f)) /\ Implied(Normalized(f))
<1> DEFINE g == WithoutRoot(f)
<1>1. IsTerms(g) /\ RootTrue(g) /\ Implied(g)
  <2>1. CASE g = f  BY <2>1
  <2>2. CASE g # f
    <3>1. g = Only(f, Packages) /\ Root \in DOMAIN f  BY <2>2 DEF WithoutRoot
    <3>2. DOMAIN g = DOMAIN f \cap Packages /\ \A p \in DOMAIN g : g[p] = f[p]  BY <3>1 DEF Only
    <3>3. Root \notin Packages  BY NamesAssumption DEF Root
    <3>4. DOMAIN f \subseteq Names  BY DEF IsTerms
    <3>5. ASSUME NEW c \in Selected PROVE \E p \in DOMAIN g : ~Truth(c, p, g[p])
      <4>1. PICK p \in DOMAIN f : ~Truth(c, p, f[p])  BY DEF Implied
      <4>2. f[Root].set = ThePoint /\ f[Root].pos  BY <3>1 DEF RootTrue
      <4>3. p # Root  BY <4>1, <4>2, RootSelected
      <4>4. p \in DOMAIN g  BY <3>2, <3>4, <4>1, <4>3 DEF Names
      <4> QED  BY <3>2, <4>1, <4>4
    <3>6. Implied(g)  BY <3>5 DEF Implied
    <3> QED  BY <3>2, <3>3, <3>6 DEF IsTerms, RootTrue
  <2> QED  BY <2>1, <2>2
<1> DEFINE h == WithoutTautologies(g)
<1>2. IsTerms(h) /\ RootTrue(h) /\ Implied(h)
  <2> HIDE DEF g
  <2>1. CASE h = g  BY <1>1, <2>1
  <2>2. CASE h # g
    <3> DEFINE telling == {p \in DOMAIN g : ~Tautology(g[p])}
    <3>1. h = Only(g, telling)  BY <2>2 DEF WithoutTautologies
    <3>2. DOMAIN h = telling /\ \A p \in DOMAIN h : h[p] = g[p]  BY <3>1 DEF Only
    <3>3. ASSUME NEW c \in Selected PROVE \E p \in DOMAIN h : ~Truth(c, p, h[p])
      <4>1. PICK p \in DOMAIN g : ~Truth(c, p, g[p])  BY <1>1 DEF Implied
      <4>2. ~Tautology(g[p])  BY <4>1 DEF Tautology, Truth, Within
      <4> QED  BY <3>2, <4>1, <4>2
    <3>4. Implied(h)  BY <3>3 DEF Implied
    <3> QED  BY <1>1, <3>2, <3>4 DEF IsTerms, RootTrue
  <2> QED  BY <2>1, <2>2
<1> QED  BY <1>2 DEF Normalized

\* Generalized resolution: what f and the cause g of an assignment of t imply.
LEMMA ResolventImplied ==
  ASSUME NEW f, IsTerms(f), RootTrue(f), Implied(f),
         NEW g, IsTerms(g), RootTerm(g), Implied(g),
         NEW p \in DOMAIN f \cap DOMAIN g, NEW t \in Term, Opposite(t, g[p]),
         p = Root => t.pos /\ t.set = ThePoint
  PROVE  LET r == Resolvent(f, g, p, t) IN IsTerms(r) /\ RootTrue(r) /\ Implied(r)
<1> DEFINE rest == (DOMAIN f \cup DOMAIN g) \ {p}
           left == IF Entails(t, f[p]) THEN {} ELSE {p}
           r == [q \in rest \cup left |->
                   IF q = p THEN Negate(Meet(t, Negate(f[p])))
                   ELSE IF q \in DOMAIN f \cap DOMAIN g THEN Meet(f[q], g[q])
                   ELSE IF q \in DOMAIN f THEN f[q] ELSE g[q]]
<1>1. DOMAIN r = rest \cup left  OBVIOUS
<1>2. \A q \in rest : r[q] = IF q \in DOMAIN f \cap DOMAIN g THEN Meet(f[q], g[q])
                             ELSE IF q \in DOMAIN f THEN f[q] ELSE g[q]
  OBVIOUS
<1>3. p \in left => r[p] = Negate(Meet(t, Negate(f[p])))  OBVIOUS
<1>4. f[p] \in Term /\ g[p] \in Term  BY DEF IsTerms
<1> HIDE DEF r
<1>5. IsTerms(r)
  <2>1. DOMAIN r \subseteq Names  BY <1>1 DEF IsTerms
  <2>2. \A q \in rest : r[q] \in Term  BY <1>2, MeetIsAnd DEF IsTerms
  <2>3. p \in left => r[p] \in Term  BY <1>3, <1>4, NegateIsNot, MeetIsAnd
  <2> QED  BY <1>1, <2>1, <2>2, <2>3 DEF IsTerms
<1>6. RootTrue(r)
  <2> SUFFICES ASSUME Root \in DOMAIN r PROVE r[Root].set = ThePoint /\ r[Root].pos
    BY DEF RootTrue
  <2>1. CASE p = Root
    <3>1. f[Root].set = ThePoint /\ f[Root].pos  BY <2>1 DEF RootTrue
    <3>2. Entails(t, f[p])  BY <2>1, <3>1 DEF Entails
    <3> QED  BY <1>1, <2>1, <3>2
  <2>2. CASE p # Root
    <3>1. Root \in rest  BY <1>1, <2>2
    <3>2. Root \in DOMAIN f => f[Root].set = ThePoint /\ f[Root].pos  BY DEF RootTrue
    <3>3. Root \in DOMAIN g => g[Root].set = ThePoint /\ g[Root].pos  BY <2>2 DEF RootTerm
    <3>4. CASE Root \in DOMAIN f \cap DOMAIN g
      <4>1. r[Root] = Meet(f[Root], g[Root])  BY <1>2, <3>1, <3>4
      <4> QED  BY <3>2, <3>3, <3>4, <4>1 DEF Meet, Tautology, Pos
    <3>5. CASE Root \notin DOMAIN f \cap DOMAIN g
      BY <1>2, <3>1, <3>2, <3>3, <3>5
    <3> QED  BY <3>4, <3>5
  <2> QED  BY <2>1, <2>2
<1>7. ASSUME NEW c \in Selected, \A q \in DOMAIN r : Truth(c, q, r[q]) PROVE FALSE
  <2>1. \A q \in rest : (q \in DOMAIN f => Truth(c, q, f[q])) /\ (q \in DOMAIN g => Truth(c, q, g[q]))
    <3> TAKE q \in rest
    <3>1. Truth(c, q, r[q])  BY <1>1, <1>7
    <3>2. CASE q \in DOMAIN f \cap DOMAIN g
      <4>1. r[q] = Meet(f[q], g[q])  BY <1>2, <3>2
      <4>2. f[q] \in Term /\ g[q] \in Term  BY <3>2 DEF IsTerms
      <4>3. Truth(c, q, Meet(f[q], g[q])) <=> Truth(c, q, f[q]) /\ Truth(c, q, g[q])
        BY <4>2, MeetIsAnd
      <4>4. Truth(c, q, Meet(f[q], g[q]))  BY <3>1, <4>1
      <4> QED  BY <4>3, <4>4
    <3>3. CASE q \notin DOMAIN f \cap DOMAIN g
      BY <1>2, <3>1, <3>3
    <3> QED  BY <3>2, <3>3
  <2>2. ~Truth(c, p, f[p])  BY <2>1 DEF Implied
  <2>3. ~Truth(c, p, g[p])  BY <2>1 DEF Implied
  <2>4. Truth(c, p, t)  BY <1>4, <2>3, OppositeIsNot
  <2>5. ~Entails(t, f[p])  BY <1>4, <2>2, <2>4, EntailsIsImplies
  <2>6. Truth(c, p, Negate(Meet(t, Negate(f[p]))))  BY <1>1, <1>3, <1>7, <2>5
  <2>7. Negate(f[p]) \in Term /\ Truth(c, p, Negate(f[p]))  BY <1>4, <2>2, NegateIsNot
  <2>8. Meet(t, Negate(f[p])) \in Term /\ Truth(c, p, Meet(t, Negate(f[p])))
    BY <2>4, <2>7, MeetIsAnd
  <2> QED  BY <2>6, <2>8, NegateIsNot
<1>8. Implied(r)  BY <1>7 DEF Implied
<1>9. Resolvent(f, g, p, t) = Normalized(r)  BY DEF Resolvent, r
<1> QED  BY <1>5, <1>6, <1>8, <1>9, NormalizedImplied

-----------------------------------------------------------------------------
(***************************************************************************)
(* The store and the partial solution.                                     *)
(***************************************************************************)
\* The registry is what it was, and so are its selections.
LEMMA SelectionsStay ==
  ASSUME registry' = registry
  PROVE  Selected' = Selected /\ \A f : Implied(f)' <=> Implied(f)
<1>1. Selected' = Selected  BY DEF Selected, Selections, IsSelection, Pub, Needs, OneSpelling
<1> QED  BY <1>1 DEF Implied, Truth, Within

\* add appends, at most, and says where the terms are.
LEMMA AddedIsStored ==
  ASSUME TypeOK, NEW f, IsTerms(f), NEW e \in Edges \cup {None}, incs' = Added(f, e)
  PROVE  /\ incs' \in Seq({incs'[i] : i \in 1..Len(incs')})
         /\ Len(incs) \in Nat /\ Len(incs') \in Nat /\ Len(incs) <= Len(incs')
         /\ \A i \in 1..Len(incs) : incs'[i] = incs[i]
         /\ \A i \in 1..Len(incs') : i \notin 1..Len(incs) => incs'[i].terms = f /\ incs'[i].edge = e
         /\ Index(f) \in 1..Len(incs') /\ SameTerms(incs'[Index(f)].terms, f)
<1> DEFINE Here == {incs[i] : i \in 1..Len(incs)}
<1>1. incs \in Seq(Here) /\ Len(incs) \in Nat  BY DEF TypeOK
<1>2. CASE Stored(f) # {}
  <2>1. incs' = incs  BY <1>2 DEF Added
  <2>2. Index(f) \in Stored(f)  BY <1>2 DEF Index
  <2> QED  BY <1>1, <2>1, <2>2 DEF Stored
<1>3. CASE Stored(f) = {}
  <2> DEFINE new == [terms |-> f, edge |-> e]
  <2>1. incs' = Append(incs, new) /\ Index(f) = Len(incs) + 1  BY <1>3 DEF Added, Index
  <2>2. incs \in Seq(Here \cup {new})  BY <1>1
  <2>3. /\ incs' \in Seq(Here \cup {new}) /\ Len(incs') = Len(incs) + 1
        /\ \A i \in 1..Len(incs) : incs'[i] = incs[i]
        /\ incs'[Len(incs) + 1] = new
    BY <2>1, <2>2
  <2>4. incs' \in Seq({incs'[i] : i \in 1..Len(incs')})  BY <2>3
  <2>5. SameTerms(f, f)
    <3> \A p \in DOMAIN f : SameTerm(f[p], f[p])  BY DEF SameTerm
    <3> QED  BY DEF SameTerms
  <2> HIDE DEF Here, new
  <2>6. Len(incs) \in Nat /\ Len(incs') \in Nat /\ Len(incs) <= Len(incs')  BY <1>1, <2>3
  <2>7. \A i \in 1..Len(incs') : i \notin 1..Len(incs) => incs'[i].terms = f /\ incs'[i].edge = e
    <3>1. \A i \in 1..Len(incs') : i \notin 1..Len(incs) => i = Len(incs) + 1  BY <1>1, <2>3
    <3>2. incs'[Len(incs) + 1].terms = f /\ incs'[Len(incs) + 1].edge = e  BY <2>3 DEF new
    <3> QED  BY <3>1, <3>2
  <2>8. Index(f) \in 1..Len(incs')  BY <1>1, <2>1, <2>3
  <2>9. incs'[Index(f)].terms = f  BY <2>1, <2>3 DEF new
  <2> QED  BY <2>3, <2>4, <2>5, <2>6, <2>7, <2>8, <2>9
<1> QED  BY <1>2, <1>3

\* backtrackTo keeps a prefix, and in it the root.
LEMMA UpToIsPrefix ==
  ASSUME TypeOK, RootFirst, asg # <<>>, NEW l \in Nat, asg' = UpTo(l)
  PROVE  /\ asg' \in Seq(Assignment) /\ asg' # <<>> /\ Len(asg') \in 1..Len(asg)
         /\ \A i \in 1..Len(asg') : asg'[i] = asg[i]
<1> DEFINE S == {i \in 1..Len(asg) : \E j \in i..Len(asg) : asg[j].level <= l}
           k == Cardinality(S)
<1>1. asg \in Seq(Assignment) /\ Len(asg) \in Nat /\ Len(asg) # 0  BY DEF TypeOK
<1>2. IsFiniteSet(1..Len(asg)) /\ Cardinality(1..Len(asg)) = Len(asg)
  BY <1>1, FS_Interval
<1>3. IsFiniteSet(S) /\ k <= Len(asg) /\ k \in Nat
  <2>1. S \subseteq 1..Len(asg)  OBVIOUS
  <2> HIDE DEF S
  <2> QED  BY <1>2, <2>1, FS_Subset, FS_CardinalityType
<1>4. 1 \in S
  <2>1. asg[1].level = 0  BY DEF RootFirst
  <2> QED  BY <1>1, <2>1
<1>5. k # 0
  <2> HIDE DEF S
  <2> QED  BY <1>3, <1>4, FS_EmptySet
<1> HIDE DEF k
<1>6. asg' = SubSeq(asg, 1, k)  BY DEF UpTo, k
<1> QED  BY <1>1, <1>3, <1>5, <1>6

\* A satisfier assigns to a package of the incompatibility.
LEMMA SatisfierAssigns ==
  ASSUME NEW f, NEW i \in Satisfiers(f)
  PROVE  i \in 1..Len(asg) /\ asg[i].pkg \in DOMAIN f
BY DEF Satisfiers, Latest, Firsts

\* Once there is any assignment, the root is known to be its version.
LEMMA RootIsKnown ==
  ASSUME TypeOK, RootFirst, asg # <<>>
  PROVE  /\ On(asg, Root) # {}
         /\ Accum(asg, Len(asg), Root).pos /\ Accum(asg, Len(asg), Root).set = ThePoint
<1> DEFINE n == Len(asg)
           held == {i \in Of(asg, n, Root) : asg[i].term.pos}
           out == UNION {asg[i].term.set : i \in Of(asg, n, Root) \ held}
           both == {x \in Points \ out : \A i \in held : x \in asg[i].term.set}
<1>1. asg \in Seq(Assignment) /\ n \in Nat /\ n # 0  BY DEF TypeOK
<1>2. 1 \in Of(asg, n, Root)  BY <1>1 DEF RootFirst, Of
<1>3. \A i \in Of(asg, n, Root) : asg[i].term.pos /\ asg[i].term.set = ThePoint
  BY DEF RootFirst, Of
<1>4. held = Of(asg, n, Root) /\ out = {}  BY <1>3
<1>5. ThePoint \subseteq Points  BY NamesAssumption DEF ThePoint, Points
<1>6. both = ThePoint  BY <1>2, <1>3, <1>4, <1>5
<1>7. Accum(asg, n, Root) = Pos(both, None)  BY <1>2, <1>4 DEF Accum
<1> QED  BY <1>2, <1>6, <1>7 DEF Pos, On

\* So a term that has it is satisfied, and the others are contradicted.
LEMMA RootRelation ==
  ASSUME TypeOK, RootFirst, asg # <<>>, NEW t, t.set = ThePoint
  PROVE  (t.pos => Relation(asg, Root, t) = "satisfied") /\ (~t.pos => Relation(asg, Root, t) # "satisfied")
<1>1. /\ On(asg, Root) # {}
      /\ Accum(asg, Len(asg), Root).pos /\ Accum(asg, Len(asg), Root).set = ThePoint
  BY RootIsKnown
<1>2. CASE t.pos
  <2>1. Entails(Accum(asg, Len(asg), Root), t)  BY <1>1, <1>2 DEF Entails
  <2> QED  BY <1>1, <1>2, <2>1 DEF Relation
<1>3. CASE ~t.pos
  <2>1. ~Entails(Accum(asg, Len(asg), Root), t)  BY <1>1, <1>3 DEF Entails, ThePoint
  <2> QED  BY <1>1, <1>3, <2>1 DEF Relation
<1> QED  BY <1>2, <1>3

-----------------------------------------------------------------------------
(***************************************************************************)
(* What the registry says.                                                 *)
(***************************************************************************)
LEMMA ExactlyIsTerm ==
  ASSUME NEW v \in Versions
  PROVE  Exactly(v) \in Term
BY DEF Exactly, Pos, Term, Points

\* The terms of a dependency of a published version are never all true.
LEMMA DependencyImplied ==
  ASSUME TypeOK, NEW p \in Names, NEW v \in Pub(p), NEW d \in DOMAIN Needs(p, v)
  PROVE  LET f == DependencyTerms(p, v, d) IN IsTerms(f) /\ RootTrue(f) /\ Implied(f)
<1> DEFINE f == DependencyTerms(p, v, d)
           c == Needs(p, v)[d]
<1>1. registry \in Registries  BY DEF TypeOK
<1>2. Pub(p) \subseteq Versions /\ v \in Versions  BY <1>1, RegistriesAssumption DEF Pub
<1>3. d \in Packages /\ d # p /\ c \in VersionSet
  BY <1>1, <1>2, RegistriesAssumption DEF Needs
<1>4. p = Root => v = 0  BY <1>1, RegistriesAssumption DEF Pub
<1>5. Exactly(v) \in Term /\ Exactly(v).pos /\ Exactly(v).set = {Point[v]}
  BY <1>2, ExactlyIsTerm DEF Exactly, Pos
<1>6. Root \notin Packages /\ Packages \subseteq Names  BY NamesAssumption DEF Root, Names
<1>7. ASSUME NEW s \in Selected, Truth(s, p, Exactly(v))
      PROVE  d \in DOMAIN Needs(p, v) /\ Within(s, d, c.set)
  <2>1. s[p] # None /\ Point[s[p]] = Point[v]  BY <1>5, <1>7 DEF Truth, Within
  <2>2. s[p] \in Pub(p)  BY <2>1 DEF Selected, Selections, IsSelection
  <2>3. s[p] = v  BY <1>1, <2>1, <2>2 DEF Selected, OneSpelling, Pub
  <2> QED  BY <2>1, <2>3 DEF Selected, Selections, IsSelection, Within
<1>8. CASE c.set = {}
  <2>1. f = [q \in {p} |-> Exactly(v)]  BY <1>8 DEF DependencyTerms
  <2>2. DOMAIN f = {p} /\ f[p] = Exactly(v)  BY <2>1
  <2> HIDE DEF f
  <2>3. \A s \in Selected : ~Truth(s, p, Exactly(v))  BY <1>7, <1>8 DEF Within
  <2>4. IsTerms(f)  BY <1>5, <2>2 DEF IsTerms
  <2>5. RootTrue(f)  BY <1>4, <1>5, <2>2 DEF RootTrue, ThePoint
  <2>6. Implied(f)  BY <2>2, <2>3 DEF Implied
  <2> QED  BY <2>4, <2>5, <2>6 DEF f
<1>9. CASE c.set # {}
  <2>1. f = [q \in {p, d} |-> IF q = d THEN Not(c.set, c.single) ELSE Exactly(v)]
    BY <1>9 DEF DependencyTerms
  <2>2. DOMAIN f = {p, d} /\ f[p] = Exactly(v) /\ f[d] = Not(c.set, c.single)  BY <1>3, <2>1
  <2> HIDE DEF f
  <2>3. f[d] \in Term  BY <1>3, <2>2 DEF Not, Term, VersionSet
  <2>4. \A s \in Selected : Truth(s, p, Exactly(v)) => ~Truth(s, d, f[d])
    BY <1>7, <2>2 DEF Truth, Not
  <2>5. Implied(f)  BY <2>2, <2>4 DEF Implied
  <2>6. IsTerms(f)  BY <1>3, <1>5, <1>6, <2>2, <2>3 DEF IsTerms
  <2>7. RootTrue(f)  BY <1>3, <1>4, <1>5, <1>6, <2>2 DEF RootTrue, ThePoint
  <2> QED  BY <2>5, <2>6, <2>7 DEF f
<1> QED  BY <1>8, <1>9

\* What is known of a package is a term.
LEMMA KnownIsTerm ==
  ASSUME TypeOK, NEW p
  PROVE  Known(p) \in Term
<1>1. asg \in Seq(Assignment) /\ Len(asg) \in 0..Len(asg)  BY DEF TypeOK
<1> QED  BY <1>1, AccumIsTerm DEF Known

\* The root's version is always allowed.
LEMMA RootIsAllowed ==
  ASSUME TypeOK, RootFirst, asg # <<>>
  PROVE  Allowed(Root) = {0}
<1>1. Pub(Root) = {0}  BY RegistriesAssumption DEF TypeOK, Pub, Names, Root
<1>2. Known(Root).pos /\ Known(Root).set = ThePoint  BY RootIsKnown DEF Known
<1>3. Known(Root).pos \in BOOLEAN  BY KnownIsTerm DEF Term
<1>4. Permits(Known(Root), 0)  BY <1>2, <1>3 DEF Permits, ThePoint
<1> QED  BY <1>1, <1>4 DEF Allowed

\* The leaf of a package without allowed versions is never true.
LEMMA NoVersionsImplied ==
  ASSUME TypeOK, RootFirst, asg # <<>>, NEW p \in Pool, Allowed(p) = {}, NEW t,
         t = IF Pub(p) = {} THEN Pos(Points, None) ELSE Known(p)
  PROVE  LET f == [q \in {p} |-> t] IN IsTerms(f) /\ RootTrue(f) /\ Implied(f)
<1> DEFINE f == [q \in {p} |-> t]
<1>1. DOMAIN f = {p} /\ f[p] = t  OBVIOUS
<1>2. p # Root  BY RootIsAllowed
<1>3. p \in Names /\ Known(p).pos  BY DEF Pool
<1>4. t \in Term /\ t.pos
  <2>1. Known(p) \in Term  BY KnownIsTerm
  <2>2. Pos(Points, None) \in Term /\ Pos(Points, None).pos  BY DEF Pos, Term
  <2> QED  BY <1>3, <2>1, <2>2
<1>5. ASSUME NEW s \in Selected PROVE ~Truth(s, p, t)
  <2>1. CASE s[p] = None  BY <1>4, <2>1 DEF Truth, Within
  <2>2. CASE s[p] # None
    <3>1. s[p] \in Pub(p)  BY <1>3, <2>2 DEF Selected, Selections, IsSelection
    <3>2. t = Known(p)  BY <3>1
    <3>3. ~Permits(Known(p), s[p])  BY <3>1 DEF Allowed
    <3>4. t.pos \in BOOLEAN  BY <1>4 DEF Term
    <3>5. Point[s[p]] \notin t.set  BY <1>4, <3>2, <3>3, <3>4 DEF Permits
    <3> QED  BY <1>4, <3>5 DEF Truth, Within
  <2> QED  BY <2>1, <2>2
<1> HIDE DEF f
<1>6. IsTerms(f) /\ RootTrue(f) /\ Implied(f)
  BY <1>1, <1>2, <1>3, <1>4, <1>5 DEF IsTerms, RootTrue, Implied
<1> QED  BY <1>6 DEF f

-----------------------------------------------------------------------------
(***************************************************************************)
(* What a step leaves alone.                                               *)
(***************************************************************************)
LEMMA EmptyTerms ==
  /\ IsTerms(NoConflict.terms) /\ RootTrue(NoConflict.terms) /\ NoConflict.index = 0
  /\ NoAttempt.ver = None /\ NoAttempt.todo = {} /\ NoAttempt.added = {}
BY DEF IsTerms, RootTrue, NoConflict, NoAttempt

LEMMA StoresStay ==
  ASSUME Stores, incs' = incs, registry' = registry
  PROVE  Stores'
BY SelectionsStay DEF Stores, RootTerm, ThePoint

LEMMA CausesStay ==
  ASSUME Causes, incs' = incs, asg' = asg
  PROVE  Causes'
BY DEF Causes, Opposite

\* A store that grows by something implied.
LEMMA StoreGrows ==
  ASSUME TypeOK, Stores, NEW f, IsTerms(f), RootTrue(f), Implied(f), NEW e \in Edges \cup {None},
         incs' = Added(f, e), registry' = registry
  PROVE  /\ Stores'
         /\ \A i \in 1..Len(incs') : IsTerms(incs'[i].terms) /\ incs'[i].edge \in Edges \cup {None}
<1>1. /\ \A i \in 1..Len(incs) : incs'[i] = incs[i]
      /\ \A i \in 1..Len(incs') : i \notin 1..Len(incs) => incs'[i].terms = f /\ incs'[i].edge = e
  BY AddedIsStored
<1>2. ASSUME NEW i \in 1..Len(incs')
      PROVE  /\ Implied(incs'[i].terms) /\ RootTerm(incs'[i].terms)
             /\ IsTerms(incs'[i].terms) /\ incs'[i].edge \in Edges \cup {None}
  <2>1. CASE i \in 1..Len(incs)  BY <1>1, <2>1 DEF Stores, TypeOK
  <2>2. CASE i \notin 1..Len(incs)  BY <1>1, <2>2 DEF RootTerm, RootTrue
  <2> QED  BY <2>1, <2>2
<1>3. Selected' = Selected  BY SelectionsStay
<1>4. (\A i \in 1..Len(incs) : Implied(incs[i].terms))'
  BY <1>2, <1>3 DEF Implied, Truth, Within
<1>5. (\A i \in 1..Len(incs) : RootTerm(incs[i].terms))'  BY <1>2 DEF RootTerm, ThePoint
<1> QED  BY <1>2, <1>4, <1>5 DEF Stores

\* A store that grows under a partial solution that is cut.
LEMMA CausesKept ==
  ASSUME Causes, Len(incs) \in Nat, Len(incs') \in Nat, Len(incs) <= Len(incs'),
         \A i \in 1..Len(incs) : incs'[i] = incs[i],
         Len(asg) \in Nat, Len(asg') \in Nat, Len(asg') <= Len(asg),
         \A i \in 1..Len(asg') : asg'[i] = asg[i]
  PROVE  Causes'
<1> SUFFICES ASSUME NEW i \in 1..Len(asg'), asg'[i].cause # 0
             PROVE  LET k == asg'[i].cause IN
                      /\ k \in 1..Len(incs') /\ asg'[i].pkg \in DOMAIN incs'[k].terms
                      /\ Opposite(asg'[i].term, incs'[k].terms[asg'[i].pkg])
  BY DEF Causes, Opposite
<1>1. i \in 1..Len(asg) /\ asg'[i] = asg[i]  OBVIOUS
<1> QED  BY <1>1 DEF Causes

\* A partial solution that grows by the negation of a term of its cause.
LEMMA Assigned ==
  ASSUME TypeOK, Causes, RootFirst, NEW p \in Names, NEW t \in Term, NEW l \in Nat, NEW k \in 0..Len(incs),
         asg' = Assign(asg, p, t, l, k), incs' = incs, fetched' = fetched,
         k # 0 => p \in DOMAIN incs[k].terms /\ Opposite(t, incs[k].terms[p]),
         p = Root => t.pos /\ t.set = ThePoint,
         asg = <<>> => p = Root /\ l = 0
  PROVE  /\ asg' \in Seq(Assignment) /\ \A i \in 1..Len(asg') : asg'[i].cause \in 0..Len(incs')
         /\ Causes' /\ RootFirst' /\ asg' # <<>>
<1> DEFINE new == [pkg |-> p, term |-> t, level |-> l, cause |-> k]
<1>1. asg \in Seq(Assignment) /\ Len(asg) \in Nat /\ Len(incs) \in Nat  BY DEF TypeOK
<1>2. new \in Assignment  BY <1>1 DEF Assignment
<1>3. asg' = Append(asg, new)  BY DEF Assign
<1>4. /\ asg' \in Seq(Assignment) /\ Len(asg') = Len(asg) + 1 /\ asg' # <<>>
      /\ \A i \in 1..Len(asg) : asg'[i] = asg[i]
      /\ asg'[Len(asg) + 1] = new
  BY <1>1, <1>2, <1>3
<1>5. \A i \in 1..Len(asg') : i \in 1..Len(asg) \/ i = Len(asg) + 1  BY <1>1, <1>4
<1>6. \A i \in 1..Len(asg') : asg'[i].cause \in 0..Len(incs')
  <2>1. \A i \in 1..Len(asg) : asg[i].cause \in 0..Len(incs)  BY DEF TypeOK
  <2>2. asg'[Len(asg) + 1].cause = k  BY <1>4
  <2> QED  BY <1>4, <1>5, <2>1, <2>2
<1>7. Causes'
  <2> SUFFICES ASSUME NEW i \in 1..Len(asg'), asg'[i].cause # 0
               PROVE  LET j == asg'[i].cause IN
                        /\ j \in 1..Len(incs) /\ asg'[i].pkg \in DOMAIN incs[j].terms
                        /\ Opposite(asg'[i].term, incs[j].terms[asg'[i].pkg])
    BY DEF Causes, Opposite
  <2>1. CASE i \in 1..Len(asg)  BY <1>4, <2>1 DEF Causes
  <2>2. CASE i = Len(asg) + 1  BY <1>1, <1>4, <2>2
  <2> QED  BY <1>5, <2>1, <2>2
<1>8. \A i \in 1..Len(asg') : asg'[i].pkg = Root => asg'[i].term.pos /\ asg'[i].term.set = ThePoint
  BY <1>4, <1>5 DEF RootFirst
<1>9. asg'[1].pkg = Root /\ asg'[1].level = 0
  <2>1. CASE asg = <<>>  BY <1>4, <2>1
  <2>2. CASE asg # <<>>  BY <1>1, <1>4, <2>2 DEF RootFirst
  <2> QED  BY <2>1, <2>2
<1> QED  BY <1>4, <1>6, <1>7, <1>8, <1>9 DEF RootFirst, ThePoint

-----------------------------------------------------------------------------
(***************************************************************************)
(* The initial states, and the steps of propagation.                       *)
(***************************************************************************)
LEMMA InitEstablishes ==
  ASSUME Init
  PROVE  IInv
<1> DEFINE f == [p \in {Root} |-> Negate(Exactly(0))]
           x == [terms |-> f, edge |-> None]
<1>1. 0 \in Versions /\ Exactly(0) \in Term /\ Exactly(0).pos /\ Exactly(0).set = ThePoint
  BY NamesAssumption, ExactlyIsTerm DEF Exactly, Pos, ThePoint
<1>2. Negate(Exactly(0)) \in Term /\ Negate(Exactly(0)).set = ThePoint /\ ~Negate(Exactly(0)).pos
  BY <1>1, NegateIsNot DEF Negate
<1>3. DOMAIN f = {Root} /\ f[Root] = Negate(Exactly(0))  OBVIOUS
<1>4. x.terms = f /\ x.edge = None  OBVIOUS
<1> HIDE DEF f, x
<1>5. incs = <<x>>  BY DEF Init, x, f
<1>6. Len(incs) = 1 /\ incs[1] = x /\ incs \in Seq({incs[i] : i \in 1..Len(incs)})
  <2>1. Len(incs) = 1 /\ incs[1] = x  BY <1>5
  <2>2. {incs[i] : i \in 1..Len(incs)} = {x}  BY <2>1
  <2> QED  BY <1>5, <2>1, <2>2
<1>7. Root \in Names  BY DEF Names, Root
<1>8. IsTerms(f) /\ RootTerm(f)  BY <1>2, <1>3, <1>7 DEF IsTerms, RootTerm
<1>9. Implied(f)
  <2> SUFFICES ASSUME NEW c \in Selected PROVE ~Truth(c, Root, f[Root])
    BY <1>3 DEF Implied
  <2>1. Truth(c, Root, Exactly(0))  BY <1>1, RootSelected
  <2> QED  BY <1>1, <1>3, <2>1, NegateIsNot
<1>10. TypeOK
  <2>1. \A i \in 1..Len(incs) : IsTerms(incs[i].terms) /\ incs[i].edge \in Edges \cup {None}
    BY <1>4, <1>6, <1>8
  <2>2. asg = <<>> /\ asg \in Seq(Assignment) /\ Len(asg) = 0  BY DEF Init
  <2>3. attempt.ver = None /\ attempt.todo = {} /\ attempt.added = {}
        /\ attempt = [ver |-> attempt.ver, todo |-> attempt.todo, added |-> attempt.added]
    BY DEF Init, NoAttempt
  <2>4. attempt \in [ver : Versions \cup {None}, todo : SUBSET Packages, added : SUBSET (1..Len(incs))]
    BY <2>3
  <2>5. IsTerms(conflict.terms) /\ conflict.index = 0  BY EmptyTerms DEF Init
  <2> QED  BY <1>6, <1>7, <2>1, <2>2, <2>4, <2>5 DEF Init, TypeOK
<1>11. Stores  BY <1>4, <1>6, <1>8, <1>9 DEF Stores
<1>12. asg = <<>> /\ Len(asg) = 0  BY DEF Init
<1>13. Causes  BY <1>12 DEF Causes
<1>14. Resolving  BY EmptyTerms DEF Init, Resolving
<1>15. RootFirst
  BY <1>2, <1>3, <1>4, <1>6, <1>12 DEF Init, RootFirst
<1>16. Attempts  BY DEF Init, Attempts
<1> QED  BY <1>10, <1>11, <1>13, <1>14, <1>15, <1>16 DEF IInv

\* A step of the search alone.
LEMMA SearchKeeps ==
  ASSUME IInv, UNCHANGED <<registry, incs, asg, level, picked, conflict>>,
         pkg' \in Names, at' \in 0..Len(incs), changed' \subseteq Names,
         pc \in {"propagate", "scan"}, pc' \in {"propagate", "scan", "decide"}
  PROVE  IInv'
<1>1. TypeOK'  BY DEF IInv, TypeOK, picked, Pub
<1>2. Stores'  BY StoresStay DEF IInv
<1>3. Causes'  BY CausesStay DEF IInv
<1>4. Resolving'  BY DEF IInv, Resolving, RootTrue, SameTerms, SameTerm, ThePoint
<1>5. RootFirst'  BY DEF IInv, RootFirst, picked, ThePoint
<1>6. Attempts'  BY DEF Attempts
<1> QED  BY <1>1, <1>2, <1>3, <1>4, <1>5, <1>6 DEF IInv

LEMMA PopKeeps ==
  ASSUME IInv, Pop
  PROVE  IInv'
<1>1. Len(incs) \in 0..Len(incs)  BY DEF IInv, TypeOK
<1>2. pkg' \in Names /\ changed' \subseteq Names  BY DEF IInv, TypeOK, Pop
<1> QED  BY <1>1, <1>2, SearchKeeps DEF Pop

LEMMA ScanEndsKeeps ==
  ASSUME IInv, ScanEnds
  PROVE  IInv'
BY SearchKeeps DEF IInv, TypeOK, ScanEnds, search

LEMMA PropagationEndsKeeps ==
  ASSUME IInv, PropagationEnds
  PROVE  IInv'
BY SearchKeeps DEF IInv, TypeOK, PropagationEnds, search

\* What unit propagation derives of the root is its version.
LEMMA RootDerived ==
  ASSUME IInv, NEW f, RootTerm(f), Root \in DOMAIN f, AlmostSatisfied(asg, f, Root), asg # <<>>
  PROVE  ~f[Root].pos
<1>1. f[Root].set = ThePoint  BY DEF RootTerm
<1>2. Relation(asg, Root, f[Root]) = "open"  BY DEF AlmostSatisfied
<1> QED  BY <1>1, <1>2, RootRelation DEF IInv

LEMMA PropagateKeeps ==
  ASSUME IInv, Propagate
  PROVE  IInv'
<1>1. PICK i \in 1..at : LET f == incs[i].terms IN
        /\ \E p \in DOMAIN f :
             /\ Unit(f, p)
             /\ asg' = Assign(asg, p, Negate(f[p]), level, i)
             /\ changed' = changed \cup {p}
        /\ at' = i - 1
  BY DEF Propagate
<1> DEFINE f == incs[i].terms
<1>2. PICK p \in DOMAIN f : /\ Unit(f, p)
                            /\ asg' = Assign(asg, p, Negate(f[p]), level, i)
                            /\ changed' = changed \cup {p}
  BY <1>1
<1>3. i \in 1..Len(incs) /\ i \in 0..Len(incs) /\ i # 0 /\ at' \in 0..Len(incs) /\ Len(incs) \in Nat
  BY <1>1 DEF IInv, TypeOK
<1>4. IsTerms(f) /\ RootTerm(f)  BY <1>3 DEF IInv, TypeOK, Stores
<1>5. p \in Names /\ f[p] \in Term  BY <1>4 DEF IsTerms
<1>6. Negate(f[p]) \in Term /\ Opposite(Negate(f[p]), f[p])  BY <1>5, NegateIsNot
<1>7. AlmostSatisfied(asg, f, p)  BY <1>2 DEF Unit
<1>8. p = Root => ~f[p].pos
  <2>1. CASE asg # <<>>  BY <1>4, <1>7, <2>1, RootDerived
  <2>2. CASE asg = <<>>  BY <1>3, <2>2 DEF IInv, RootFirst
  <2> QED  BY <2>1, <2>2
<1>9. p = Root => Negate(f[p]).pos /\ Negate(f[p]).set = ThePoint
  BY <1>4, <1>8 DEF RootTerm, Negate
<1>10. asg = <<>> => p = Root /\ level = 0
  <2>1. asg = <<>> => DOMAIN f = {Root}  BY <1>3 DEF IInv, RootFirst
  <2>2. asg = <<>> => level = 0  BY DEF IInv, RootFirst
  <2> QED  BY <2>1, <2>2
<1>11. UNCHANGED <<registry, incs, level, picked, pkg, conflict, pc>>  BY DEF Propagate
<1>12. level \in Nat /\ fetched' = fetched  BY <1>11 DEF IInv, TypeOK, picked
<1>13. /\ asg' \in Seq(Assignment) /\ \A j \in 1..Len(asg') : asg'[j].cause \in 0..Len(incs')
       /\ Causes' /\ RootFirst' /\ asg' # <<>>
  BY <1>2, <1>3, <1>5, <1>6, <1>9, <1>10, <1>11, <1>12, Assigned DEF IInv
<1>14. TypeOK'
  <2>1. changed' \subseteq Names  BY <1>2, <1>5 DEF IInv, TypeOK
  <2> QED  BY <1>3, <1>11, <1>13, <2>1 DEF IInv, TypeOK, picked
<1>15. Stores'  BY <1>11, StoresStay DEF IInv
<1>16. pc = "scan"  BY DEF Propagate
<1>17. Resolving'  BY <1>11, <1>16 DEF IInv, Resolving, RootTrue, SameTerms, SameTerm, ThePoint
<1>18. Attempts'  BY <1>11, <1>16 DEF Attempts
<1> QED  BY <1>13, <1>14, <1>15, <1>17, <1>18 DEF IInv

-----------------------------------------------------------------------------
(***************************************************************************)
(* Conflict resolution.                                                    *)
(***************************************************************************)
LEMMA SameAsItself ==
  ASSUME NEW f
  PROVE  SameTerms(f, f)
BY DEF SameTerms, SameTerm

\* Without assignments nothing is satisfied.
LEMMA NothingSatisfied ==
  ASSUME NEW f, NEW p \in DOMAIN f, asg = <<>>
  PROVE  ~Satisfied(asg, f)
<1>1. On(asg, p) = {}  BY DEF On, Of
<1>2. Relation(asg, p, f[p]) = "open"  BY <1>1 DEF Relation
<1> QED  BY <1>2 DEF Satisfied

LEMMA ConflictKeeps ==
  ASSUME IInv, Conflict
  PROVE  IInv'
<1>1. PICK i \in 1..at : LET f == incs[i].terms IN
        /\ Newest(i) /\ Satisfied(asg, f)
        /\ conflict' = [terms |-> f, index |-> i]
        /\ counts' = [p \in Names |-> IF p \in DOMAIN f THEN counts[p] + 1 ELSE counts[p]]
  BY DEF Conflict
<1> DEFINE f == incs[i].terms
<1>2. i \in 1..Len(incs) /\ i \in 0..Len(incs) /\ i # 0 /\ Len(incs) \in Nat
  BY <1>1 DEF IInv, TypeOK
<1>3. IsTerms(f) /\ RootTerm(f) /\ Implied(f)  BY <1>2 DEF IInv, TypeOK, Stores
<1>4. asg # <<>>
  <2>1. pkg \in DOMAIN f  BY <1>1 DEF Newest, Telling
  <2> QED  BY <1>1, <2>1, NothingSatisfied
<1>5. RootTrue(f)
  <2> SUFFICES ASSUME Root \in DOMAIN f PROVE f[Root].set = ThePoint /\ f[Root].pos
    BY DEF RootTrue
  <2>1. f[Root].set = ThePoint  BY <1>3 DEF RootTerm
  <2>2. Relation(asg, Root, f[Root]) = "satisfied"  BY <1>1 DEF Satisfied
  <2> QED  BY <1>4, <2>1, <2>2, RootRelation DEF IInv
<1>6. UNCHANGED <<registry, incs, asg, level, asked, fetched, attempt, result, changed, pkg, at>> /\ pc' = "resolve"
  BY DEF Conflict, search
<1>7. conflict'.terms = f /\ conflict'.index = i  BY <1>1
<1>8. TypeOK'
  <2>1. counts' \in [Names -> Nat]
    <3>1. counts \in [Names -> Nat]  BY DEF IInv, TypeOK
    <3>2. counts' = [p \in Names |-> IF p \in DOMAIN f THEN counts[p] + 1 ELSE counts[p]]  BY <1>1
    <3> HIDE DEF f
    <3> QED  BY <3>1, <3>2
  <2>2. IsTerms(conflict.terms)'  BY <1>3, <1>7 DEF IsTerms, Term, Points, Names
  <2> QED  BY <1>2, <1>6, <1>7, <2>1, <2>2 DEF IInv, TypeOK
<1>9. Stores'  BY <1>6, StoresStay DEF IInv
<1>10. Causes'  BY <1>6, CausesStay DEF IInv
<1>11. Resolving'
  <2>1. Selected' = Selected  BY <1>6, SelectionsStay
  <2>2. Implied(conflict.terms)'  BY <1>3, <1>7, <2>1 DEF Implied, Truth, Within
  <2>3. RootTrue(conflict.terms)'  BY <1>5, <1>7 DEF RootTrue, ThePoint
  <2>4. SameTerms(incs[conflict.index].terms, conflict.terms)'
    BY <1>6, <1>7, SameAsItself DEF SameTerms, SameTerm
  <2> QED  BY <1>6, <2>2, <2>3, <2>4 DEF Resolving
<1>12. RootFirst'  BY <1>4, <1>6 DEF IInv, RootFirst, ThePoint
<1>13. Attempts'  BY <1>6 DEF Attempts
<1> QED  BY <1>8, <1>9, <1>10, <1>11, <1>12, <1>13 DEF IInv

\* Solve ends.
LEMMA StopKeeps ==
  ASSUME IInv, NEW why \in Final, Stop(why)
  PROVE  IInv'
<1>1. /\ UNCHANGED <<registry, incs, asg, level, counts, asked, fetched, attempt, result, changed, pkg, at>>
      /\ pc' = why /\ conflict' = NoConflict
  BY DEF Stop, picked, search
<1>2. why \notin {"resolve", "derive", "depend"}  BY DEF Final
<1>3. TypeOK'
  <2>1. IsTerms(conflict.terms)' /\ conflict'.index = 0
    BY <1>1, EmptyTerms DEF IsTerms, Term, Points, Names
  <2>2. pc' \in Final  BY <1>1
  <2> QED  BY <1>1, <2>1, <2>2 DEF IInv, TypeOK
<1>4. Stores'  BY <1>1, StoresStay DEF IInv
<1>5. Causes'  BY <1>1, CausesStay DEF IInv
<1>6. Resolving'
  <2>1. RootTrue(conflict.terms)' /\ conflict'.index = 0
    BY <1>1, EmptyTerms DEF RootTrue, ThePoint
  <2> QED  BY <1>1, <1>2, <2>1 DEF Resolving
<1>7. RootFirst'  BY <1>1, <1>2 DEF IInv, RootFirst, ThePoint
<1>8. Attempts'  BY <1>1, <1>2 DEF Attempts
<1> QED  BY <1>3, <1>4, <1>5, <1>6, <1>7, <1>8 DEF IInv

LEMMA ResolutionStopsKeeps ==
  ASSUME IInv, ResolutionStops
  PROVE  IInv'
BY StopKeeps DEF ResolutionStops, Final

LEMMA MergeKeeps ==
  ASSUME IInv, Merge
  PROVE  IInv'
<1>1. PICK i \in Satisfiers(conflict.terms) :
        /\ ~ShouldBackjump(i, PrevLevel(conflict.terms, i))
        /\ conflict' = [terms |-> Resolvent(conflict.terms, incs[asg[i].cause].terms, asg[i].pkg, asg[i].term),
                        index |-> 0]
  BY DEF Merge
<1> DEFINE f == conflict.terms
           p == asg[i].pkg
           t == asg[i].term
           g == incs[asg[i].cause].terms
<1>2. i \in 1..Len(asg) /\ p \in DOMAIN f  BY SatisfierAssigns
<1>3. t \in Term
  <2>1. asg \in Seq(Assignment)  BY DEF IInv, TypeOK
  <2>2. asg[i] \in Assignment  BY <1>2, <2>1
  <2> QED  BY <2>2 DEF Assignment
<1>4. asg[i].cause # 0  BY <1>1 DEF ShouldBackjump
<1>5. asg[i].cause \in 1..Len(incs) /\ p \in DOMAIN g /\ Opposite(t, g[p])
  BY <1>2, <1>4 DEF IInv, Causes
<1>6. IsTerms(g) /\ RootTerm(g) /\ Implied(g)  BY <1>5 DEF IInv, TypeOK, Stores
<1>7. pc = "resolve"  BY DEF Merge
<1>8. IsTerms(f) /\ RootTrue(f) /\ Implied(f)  BY <1>7 DEF IInv, TypeOK, Resolving
<1>9. p = Root => t.pos /\ t.set = ThePoint  BY <1>2 DEF IInv, RootFirst
<1> DEFINE r == Resolvent(f, g, p, t)
<1>10. IsTerms(r) /\ RootTrue(r) /\ Implied(r)
  <2> HIDE DEF f, g, p, t
  <2> QED  BY <1>2, <1>3, <1>5, <1>6, <1>8, <1>9, ResolventImplied
<1>11. conflict'.terms = r /\ conflict'.index = 0  BY <1>1
<1> HIDE DEF r
<1>12. UNCHANGED <<registry, incs, asg, level, counts, asked, fetched, attempt, result, changed, pkg, at, pc>>
  BY DEF Merge, picked, search
<1>13. TypeOK'
  <2>1. IsTerms(conflict.terms)'  BY <1>10, <1>11 DEF IsTerms, Term, Points, Names
  <2> QED  BY <1>11, <1>12, <2>1 DEF IInv, TypeOK
<1>14. Stores'  BY <1>12, StoresStay DEF IInv
<1>15. Causes'  BY <1>12, CausesStay DEF IInv
<1>16. Resolving'
  <2>1. Selected' = Selected  BY <1>12, SelectionsStay
  <2>2. Implied(conflict.terms)'  BY <1>10, <1>11, <2>1 DEF Implied, Truth, Within
  <2>3. RootTrue(conflict.terms)'  BY <1>10, <1>11 DEF RootTrue, ThePoint
  <2> QED  BY <1>7, <1>11, <1>12, <2>2, <2>3 DEF Resolving
<1>17. RootFirst'  BY <1>12 DEF IInv, RootFirst, ThePoint
<1>18. Attempts'  BY <1>7, <1>12 DEF Attempts
<1> QED  BY <1>13, <1>14, <1>15, <1>16, <1>17, <1>18 DEF IInv

\* The store after a step that adds to it at most.
LEMMA AddedKeepsTypes ==
  ASSUME TypeOK, Stores, NEW f, IsTerms(f), RootTrue(f), Implied(f), NEW e \in Edges \cup {None},
         incs' = Added(f, e), registry' = registry
  PROVE  /\ incs' \in Seq({incs'[i] : i \in 1..Len(incs')})
         /\ Len(incs) \in Nat /\ Len(incs') \in Nat /\ Len(incs) <= Len(incs')
         /\ \A i \in 1..Len(incs) : incs'[i] = incs[i]
         /\ \A i \in 1..Len(incs') : IsTerms(incs'[i].terms) /\ incs'[i].edge \in Edges \cup {None}
         /\ Index(f) \in 1..Len(incs') /\ SameTerms(incs'[Index(f)].terms, f)
         /\ Stores'
BY AddedIsStored, StoreGrows

LEMMA BackjumpKeeps ==
  ASSUME IInv, Backjump
  PROVE  IInv'
<1> DEFINE f == conflict.terms
<1>1. PICK i \in Satisfiers(f), prev \in 0..level :
        prev = PrevLevel(f, i) /\ asg' = UpTo(prev) /\ level' = prev
  BY DEF Backjump
<1>2. pc = "resolve" /\ pc' = "derive"  BY DEF Backjump
<1>3. UNCHANGED <<registry, counts, asked, fetched, attempt, result, changed, pkg, at>>
  BY DEF Backjump, picked, search
<1>4. level \in Nat /\ prev \in Nat  BY <1>1 DEF IInv, TypeOK
<1>5. asg # <<>> /\ Len(asg) \in Nat
  <2>1. asg \in Seq(Assignment)  BY DEF IInv, TypeOK
  <2> QED  BY <1>1, <2>1, SatisfierAssigns
<1>6. /\ asg' \in Seq(Assignment) /\ asg' # <<>> /\ Len(asg') \in 1..Len(asg)
      /\ \A j \in 1..Len(asg') : asg'[j] = asg[j]
  BY <1>1, <1>4, <1>5, UpToIsPrefix DEF IInv
<1>7. IsTerms(f) /\ RootTrue(f) /\ Implied(f)  BY <1>2 DEF IInv, TypeOK, Resolving
<1>8. /\ incs' \in Seq({incs'[j] : j \in 1..Len(incs')})
      /\ Len(incs) \in Nat /\ Len(incs') \in Nat /\ Len(incs) <= Len(incs')
      /\ \A j \in 1..Len(incs) : incs'[j] = incs[j]
      /\ \A j \in 1..Len(incs') : IsTerms(incs'[j].terms) /\ incs'[j].edge \in Edges \cup {None}
      /\ conflict'.terms = f /\ conflict'.index \in 1..Len(incs')
      /\ SameTerms(incs'[conflict'.index].terms, f)
      /\ Stores'
  <2>1. CASE conflict.index # 0
    <3>1. incs' = incs /\ conflict' = conflict  BY <2>1 DEF Backjump
    <3>2. Stores'  BY <1>3, <3>1, StoresStay DEF IInv
    <3>3. conflict.index \in 1..Len(incs)  BY <2>1 DEF IInv, TypeOK
    <3>4. SameTerms(incs[conflict.index].terms, f)  BY <2>1 DEF IInv, Resolving
    <3> QED  BY <3>1, <3>2, <3>3, <3>4 DEF IInv, TypeOK
  <2>2. CASE conflict.index = 0
    <3>1. incs' = Added(f, None) /\ conflict' = [terms |-> f, index |-> Index(f)]
      BY <2>2 DEF Backjump
    <3>2. conflict'.terms = f /\ conflict'.index = Index(f)  BY <3>1
    <3> QED  BY <1>3, <1>7, <3>1, <3>2, AddedKeepsTypes DEF IInv
  <2> QED  BY <2>1, <2>2
<1> HIDE DEF f
<1>9. TypeOK'
  <2>1. \A j \in 1..Len(asg') : asg'[j].cause \in 0..Len(incs')
    <3>1. \A j \in 1..Len(asg) : asg[j].cause \in 0..Len(incs)  BY DEF IInv, TypeOK
    <3> QED  BY <1>5, <1>6, <1>8, <3>1
  <2>2. attempt' \in [ver : Versions \cup {None}, todo : SUBSET Packages, added : SUBSET (1..Len(incs'))]
    <3>1. attempt \in [ver : Versions \cup {None}, todo : SUBSET Packages, added : SUBSET (1..Len(incs))]
      BY DEF IInv, TypeOK
    <3>2. 1..Len(incs) \subseteq 1..Len(incs')  BY <1>8
    <3> QED  BY <1>3, <3>1, <3>2
  <2>3. at' \in 0..Len(incs')  BY <1>3, <1>8 DEF IInv, TypeOK
  <2>4. IsTerms(conflict.terms)'  BY <1>7, <1>8 DEF IsTerms, Term, Points, Names
  <2>5. (\A j \in 1..Len(incs) : IsTerms(incs[j].terms) /\ incs[j].edge \in Edges \cup {None})'
    BY <1>8 DEF IsTerms, Term, Points, Names, Edges
  <2>6. conflict'.index \in 0..Len(incs')  BY <1>8
  <2>7. level' \in Nat  BY <1>1, <1>4
  <2> QED
    BY <1>2, <1>3, <1>6, <1>8, <2>1, <2>2, <2>3, <2>4, <2>5, <2>6, <2>7 DEF IInv, TypeOK
<1>10. Causes'  BY <1>5, <1>6, <1>8, CausesKept DEF IInv
<1>11. Resolving'
  <2>1. Selected' = Selected  BY <1>3, SelectionsStay
  <2>2. Implied(conflict.terms)'  BY <1>7, <1>8, <2>1 DEF Implied, Truth, Within
  <2>3. RootTrue(conflict.terms)'  BY <1>7, <1>8 DEF RootTrue, ThePoint
  <2>4. SameTerms(incs[conflict.index].terms, conflict.terms)'  BY <1>8 DEF SameTerms, SameTerm
  <2> QED  BY <1>2, <1>8, <2>2, <2>3, <2>4 DEF Resolving
<1>12. RootFirst'
  <2>1. \A j \in 1..Len(asg') : asg'[j].pkg = Root => asg'[j].term.pos /\ asg'[j].term.set = ThePoint
    BY <1>5, <1>6 DEF IInv, RootFirst
  <2>2. asg'[1].pkg = Root /\ asg'[1].level = 0  BY <1>5, <1>6 DEF IInv, RootFirst
  <2> QED  BY <1>3, <1>6, <2>1, <2>2 DEF IInv, RootFirst, ThePoint
<1>13. Attempts'  BY <1>2 DEF Attempts
<1> QED  BY <1>8, <1>9, <1>10, <1>11, <1>12, <1>13 DEF IInv

\* In a root cause, what the root's version falsifies is another package's.
LEMMA DeriveRootCauseKeeps ==
  ASSUME IInv, DeriveRootCause
  PROVE  IInv'
<1> DEFINE f == conflict.terms
           k == conflict.index
<1>1. pc = "derive" /\ pc' \in {"gaveup", "propagate"} /\ conflict' = NoConflict
  BY DEF DeriveRootCause
<1>2. UNCHANGED <<registry, incs, level, counts, asked, fetched, attempt, result, pkg, at>>
  BY DEF DeriveRootCause, picked
<1>3. IsTerms(f) /\ RootTrue(f)  BY DEF IInv, TypeOK, Resolving
<1>4. k \in 1..Len(incs) /\ SameTerms(incs[k].terms, f)
  BY <1>1 DEF IInv, TypeOK, Resolving
<1>5. asg # <<>>  BY <1>1 DEF IInv, RootFirst
<1>6. /\ changed' \subseteq Names
      /\ asg' \in Seq(Assignment) /\ \A j \in 1..Len(asg') : asg'[j].cause \in 0..Len(incs')
      /\ Causes' /\ RootFirst'
  <2>1. CASE asg' = asg /\ changed' \in {changed, {}}
    <3>1. RootFirst'  BY <1>2, <1>5, <2>1 DEF IInv, RootFirst, ThePoint
    <3>2. Causes'  BY <1>2, <2>1, CausesStay DEF IInv
    <3> QED  BY <1>2, <2>1, <3>1, <3>2 DEF IInv, TypeOK
  <2>2. ASSUME NEW p \in DOMAIN f, AlmostSatisfied(asg, f, p), changed' = {p},
               asg' = Assign(asg, p, Negate(f[p]), level, k)
        PROVE  /\ changed' \subseteq Names
               /\ asg' \in Seq(Assignment) /\ \A j \in 1..Len(asg') : asg'[j].cause \in 0..Len(incs')
               /\ Causes' /\ RootFirst'
    <3>1. p \in Names /\ f[p] \in Term  BY <1>3 DEF IsTerms
    <3>2. p # Root
      <4> SUFFICES ASSUME p = Root PROVE FALSE
        OBVIOUS
      <4>1. f[Root].set = ThePoint /\ f[Root].pos  BY <1>3, <2>2 DEF RootTrue
      <4>2. Relation(asg, Root, f[Root]) = "satisfied"  BY <1>5, <4>1, RootRelation DEF IInv
      <4> QED  BY <2>2, <4>2 DEF AlmostSatisfied
    <3>3. Negate(f[p]) \in Term /\ Opposite(Negate(f[p]), f[p])  BY <3>1, NegateIsNot
    <3>4. p \in DOMAIN incs[k].terms /\ SameTerm(incs[k].terms[p], f[p])
      BY <1>4, <2>2 DEF SameTerms
    <3>5. Opposite(Negate(f[p]), incs[k].terms[p])  BY <3>3, <3>4 DEF Opposite, SameTerm
    <3>6. k \in 0..Len(incs) /\ level \in Nat  BY DEF IInv, TypeOK
    <3> HIDE DEF f, k
    <3>7. /\ asg' \in Seq(Assignment) /\ \A j \in 1..Len(asg') : asg'[j].cause \in 0..Len(incs')
          /\ Causes' /\ RootFirst'
      BY <1>2, <1>5, <2>2, <3>1, <3>2, <3>3, <3>4, <3>5, <3>6, Assigned DEF IInv
    <3> QED  BY <2>2, <3>1, <3>7
  <2> QED  BY <2>1, <2>2 DEF DeriveRootCause
<1>7. TypeOK'
  <2>1. IsTerms(conflict.terms)' /\ conflict'.index = 0
    BY <1>1, EmptyTerms DEF IsTerms, Term, Points, Names
  <2> QED  BY <1>1, <1>2, <1>6, <2>1 DEF IInv, TypeOK, Final
<1>8. Stores'  BY <1>2, StoresStay DEF IInv
<1>9. Resolving'
  <2>1. RootTrue(conflict.terms)' /\ conflict'.index = 0
    BY <1>1, EmptyTerms DEF RootTrue, ThePoint
  <2> QED  BY <1>1, <2>1 DEF Resolving
<1>10. Attempts'  BY <1>1 DEF Attempts
<1> QED  BY <1>6, <1>7, <1>8, <1>9, <1>10 DEF IInv

-----------------------------------------------------------------------------
(***************************************************************************)
(* A step that makes the store grow under the same partial solution.       *)
(***************************************************************************)
LEMMA GrowsKeeps ==
  ASSUME IInv, asg # <<>>, pc \in {"decide", "depend"}, pc' \in {"propagate", "depend"},
         incs' \in Seq({incs'[i] : i \in 1..Len(incs')}),
         Len(incs) \in Nat, Len(incs') \in Nat, Len(incs) <= Len(incs'),
         \A i \in 1..Len(incs) : incs'[i] = incs[i],
         \A i \in 1..Len(incs') : IsTerms(incs'[i].terms) /\ incs'[i].edge \in Edges \cup {None},
         Stores', Attempts',
         attempt' \in [ver : Versions \cup {None}, todo : SUBSET Packages, added : SUBSET (1..Len(incs'))],
         pkg' \in Names, changed' \subseteq Names, fetched \subseteq fetched', fetched' \subseteq Names,
         UNCHANGED <<registry, asg, level, counts, asked, at, conflict, result>>
  PROVE  IInv'
<1>1. Len(asg) \in Nat
  <2>1. asg \in Seq(Assignment)  BY DEF IInv, TypeOK
  <2> QED  BY <2>1
<1>2. Causes'  BY <1>1, CausesKept DEF IInv
<1>3. TypeOK'
  <2>1. \A j \in 1..Len(asg') : asg'[j].cause \in 0..Len(incs')
    <3>1. \A j \in 1..Len(asg) : asg[j].cause \in 0..Len(incs)  BY DEF IInv, TypeOK
    <3> QED  BY <3>1
  <2>2. at' \in 0..Len(incs') /\ conflict'.index \in 0..Len(incs')  BY DEF IInv, TypeOK
  <2>3. IsTerms(conflict.terms)'  BY DEF IInv, TypeOK, IsTerms, Term, Points, Names
  <2>4. (\A j \in 1..Len(incs) : IsTerms(incs[j].terms) /\ incs[j].edge \in Edges \cup {None})'
    BY DEF IsTerms, Term, Points, Names, Edges
  <2> QED  BY <2>1, <2>2, <2>3, <2>4 DEF IInv, TypeOK
<1>4. Resolving'
  <2>1. RootTrue(conflict.terms)'  BY DEF IInv, Resolving, RootTrue, ThePoint
  <2>2. conflict.index # 0 => conflict.index \in 1..Len(incs)  BY DEF IInv, TypeOK
  <2>3. conflict'.index # 0 => SameTerms(incs[conflict.index].terms, conflict.terms)'
    BY <2>2 DEF IInv, Resolving, SameTerms, SameTerm
  <2> QED  BY <2>1, <2>3 DEF Resolving
<1>5. RootFirst'  BY DEF IInv, RootFirst, ThePoint
<1> QED  BY <1>2, <1>3, <1>4, <1>5 DEF IInv

-----------------------------------------------------------------------------
(***************************************************************************)
(* Decisions.                                                              *)
(***************************************************************************)
LEMMA AllowedIsPublished ==
  ASSUME IInv, asg # <<>>, NEW p \in Names, NEW v \in Allowed(p)
  PROVE  v \in Versions /\ (p = Root => v = 0)
<1>1. Allowed(p) \subseteq Versions
  BY RegistriesAssumption DEF Allowed, Pub, IInv, TypeOK
<1>2. p = Root => Allowed(p) = {0}  BY RootIsAllowed DEF IInv
<1> QED  BY <1>1, <1>2

\* A version decided without the universe is a version, and the root's its own.
LEMMA FastIsVersion ==
  ASSUME IInv, asg # <<>>, NEW p \in Names, Fast(p) # None
  PROVE  Fast(p) \in Versions /\ (p = Root => Fast(p) = 0)
<1>1. p = Root => p \in fetched  BY DEF IInv, RootFirst
<1>2. CASE Pin(p) # None /\ p \in fetched
  <2>1. Cardinality(Allowed(p)) = 1 /\ Pin(p) = CHOOSE v \in Allowed(p) : TRUE
    BY <1>2 DEF Pin
  <2>2. Allowed(p) # {}  BY <2>1, FS_EmptySet
  <2>3. Pin(p) \in Allowed(p)  BY <2>1, <2>2
  <2>4. Fast(p) = Pin(p)  BY <1>2 DEF Fast
  <2> QED  BY <2>3, <2>4, AllowedIsPublished
<1>3. CASE Pin(p) # None /\ p \notin fetched
  <2> DEFINE told == {i \in On(asg, p) : ~Tautology(asg[i].term)}
             i == CHOOSE j \in told : TRUE
  <2>1. Cardinality(told) = 1 /\ Pin(p) = asg[i].term.single  BY <1>3 DEF Pin
  <2>2. told # {}  BY <2>1, FS_EmptySet
  <2>3. i \in told  BY <2>2
  <2>4. told \subseteq 1..Len(asg)  BY DEF On, Of
  <2> HIDE DEF i, told
  <2>5. asg \in Seq(Assignment)  BY DEF IInv, TypeOK
  <2>6. asg[i] \in Assignment  BY <2>3, <2>4, <2>5
  <2>7. asg[i].term.single \in Versions \cup {None}  BY <2>6 DEF Assignment, Term
  <2>8. Fast(p) = Pin(p)  BY <1>3 DEF Fast
  <2> QED  BY <1>1, <1>3, <2>1, <2>7, <2>8
<1>4. CASE Pin(p) = None
  <2>1. p \notin fetched /\ Fast(p) = Reported(registry, p)  BY <1>4 DEF Fast
  <2>2. Reported(registry, p) \in Versions \cup {None}
    BY RegistriesAssumption DEF IInv, TypeOK
  <2> QED  BY <1>1, <2>1, <2>2
<1> QED  BY <1>2, <1>3, <1>4

LEMMA TryKeeps ==
  ASSUME IInv, asg # <<>>, pc = "decide", NEW p \in Names, NEW v \in Versions, p = Root => v = 0, Try(p, v),
         fetched \subseteq fetched', fetched' \subseteq Names,
         UNCHANGED <<registry, asg, level, counts, at, conflict, result>>
  PROVE  IInv'
<1>1. pkg' = p /\ pc' = "depend" /\ UNCHANGED <<incs, changed>>  BY DEF Try
<1>2. v # None  BY NamesAssumption
<1>3. registry \in Registries  BY DEF IInv, TypeOK
<1>4. /\ attempt'.ver = v
      /\ attempt'.todo # {} => v \in Pub(p) /\ attempt'.todo \subseteq DOMAIN Needs(p, v)
      /\ attempt' \in [ver : Versions \cup {None}, todo : SUBSET Packages, added : SUBSET (1..Len(incs))]
  <2>1. CASE attempt' = [ver |-> v, todo |-> {}, added |-> {}]
    <3>1. attempt'.ver = v /\ attempt'.todo = {} /\ attempt'.added = {}  BY <2>1
    <3> QED  BY <2>1, <3>1
  <2>2. CASE v \in Pub(p) /\ attempt' = [ver |-> v, todo |-> DOMAIN Needs(p, v), added |-> {}]
    <3>1. attempt'.ver = v /\ attempt'.todo = DOMAIN Needs(p, v) /\ attempt'.added = {}  BY <2>2
    <3>2. DOMAIN Needs(p, v) \subseteq Packages
      BY <1>3, RegistriesAssumption DEF Needs
    <3> QED  BY <2>2, <3>1, <3>2
  <2> QED  BY <2>1, <2>2 DEF Try
<1>5. TypeOK'
  <2>1. asked' \subseteq Names \X Versions  BY DEF IInv, TypeOK, Try
  <2> QED  BY <1>1, <1>4, <2>1 DEF IInv, TypeOK
<1>6. Stores'  BY <1>1, StoresStay DEF IInv
<1>7. Causes'  BY <1>1, CausesStay DEF IInv
<1>8. Resolving'  BY <1>1 DEF IInv, Resolving, RootTrue, SameTerms, SameTerm, ThePoint
<1>9. RootFirst'  BY <1>1 DEF IInv, RootFirst, ThePoint
<1>10. Attempts'
  <2>1. attempt'.ver # None /\ (pkg' = Root => attempt'.ver = 0)  BY <1>1, <1>2, <1>4
  <2>2. attempt'.todo # {} => (attempt.ver \in Pub(pkg))' /\ (attempt.todo \subseteq DOMAIN Needs(pkg, attempt.ver))'
    BY <1>1, <1>4 DEF Pub, Needs
  <2> QED  BY <2>1, <2>2 DEF Attempts
<1> QED  BY <1>5, <1>6, <1>7, <1>8, <1>9, <1>10 DEF IInv

LEMMA NoVersionsKeeps ==
  ASSUME IInv, asg # <<>>, pc = "decide", NEW p \in Pool, Allowed(p) = {}, NoVersions(p),
         fetched \subseteq fetched', fetched' \subseteq Names,
         UNCHANGED <<registry, asg, level, counts, at, conflict, result>>
  PROVE  IInv'
<1> DEFINE t == IF Pub(p) = {} THEN Pos(Points, None) ELSE Known(p)
           f == [q \in {p} |-> t]
<1>1. incs' = Added(f, None) /\ pkg' = p /\ changed' = {p} /\ pc' = "propagate" /\ UNCHANGED <<asked, attempt>>
  BY DEF NoVersions
<1>2. p \in Names  BY DEF Pool
<1>3. IsTerms(f) /\ RootTrue(f) /\ Implied(f)  BY NoVersionsImplied DEF IInv
<1> HIDE DEF f
<1>4. /\ incs' \in Seq({incs'[i] : i \in 1..Len(incs')})
      /\ Len(incs) \in Nat /\ Len(incs') \in Nat /\ Len(incs) <= Len(incs')
      /\ \A i \in 1..Len(incs) : incs'[i] = incs[i]
      /\ \A i \in 1..Len(incs') : IsTerms(incs'[i].terms) /\ incs'[i].edge \in Edges \cup {None}
      /\ Stores'
  BY <1>1, <1>3, AddedKeepsTypes DEF IInv
<1>5. Attempts'  BY <1>1 DEF Attempts
<1>6. attempt' \in [ver : Versions \cup {None}, todo : SUBSET Packages, added : SUBSET (1..Len(incs'))]
  <2>1. attempt \in [ver : Versions \cup {None}, todo : SUBSET Packages, added : SUBSET (1..Len(incs))]
    BY DEF IInv, TypeOK
  <2>2. 1..Len(incs) \subseteq 1..Len(incs')  BY <1>4
  <2> QED  BY <1>1, <2>1, <2>2
<1> QED  BY <1>1, <1>2, <1>4, <1>5, <1>6, GrowsKeeps

LEMMA DecideKeeps ==
  ASSUME IInv, Decide
  PROVE  IInv'
<1>1. PICK p \in Pool :
        \/ Fast(p) # None /\ Try(p, Fast(p)) /\ UNCHANGED fetched
        \/ /\ Fast(p) = None /\ fetched' = fetched \cup {p}
           /\ \/ \E v \in Highest(Allowed(p)) : Try(p, v)
              \/ Allowed(p) = {} /\ NoVersions(p)
  BY DEF Decide
<1>2. pc = "decide" /\ UNCHANGED <<registry, asg, level, counts, at, conflict, result>>  BY DEF Decide
<1>3. p \in Names /\ On(asg, p) # {}  BY DEF Pool
<1>4. asg # <<>>  BY <1>3 DEF On, Of
<1>5. fetched \subseteq fetched' /\ fetched' \subseteq Names  BY <1>1, <1>3 DEF IInv, TypeOK
<1>6. CASE Fast(p) # None /\ Try(p, Fast(p))
  <2>1. Fast(p) \in Versions /\ (p = Root => Fast(p) = 0)  BY <1>3, <1>4, <1>6, FastIsVersion
  <2> QED  BY <1>2, <1>3, <1>4, <1>5, <1>6, <2>1, TryKeeps
<1>7. ASSUME NEW v \in Highest(Allowed(p)), Try(p, v) PROVE IInv'
  <2>1. v \in Allowed(p)  BY DEF Highest
  <2>2. v \in Versions /\ (p = Root => v = 0)  BY <1>3, <1>4, <2>1, AllowedIsPublished
  <2> QED  BY <1>2, <1>3, <1>4, <1>5, <1>7, <2>2, TryKeeps
<1>8. CASE Allowed(p) = {} /\ NoVersions(p)
  BY <1>2, <1>4, <1>5, <1>8, NoVersionsKeeps
<1> QED  BY <1>1, <1>6, <1>7, <1>8

LEMMA AbortKeeps ==
  ASSUME IInv, Abort
  PROVE  IInv'
BY StopKeeps DEF Abort, Final

LEMMA AddDependencyKeeps ==
  ASSUME IInv, AddDependency
  PROVE  IInv'
<1>1. PICK d \in attempt.todo : LET f == DependencyTerms(pkg, attempt.ver, d) IN
        /\ incs' = Added(f, <<pkg, attempt.ver, d>>)
        /\ attempt' = [ver |-> attempt.ver, todo |-> attempt.todo \ {d}, added |-> attempt.added \cup {Index(f)}]
  BY DEF AddDependency
<1> DEFINE v == attempt.ver
           f == DependencyTerms(pkg, v, d)
<1>2. pc = "depend" /\ UNCHANGED <<registry, asg, level, counts, asked, fetched, changed, pkg, at, conflict, result, pc>>
  BY DEF AddDependency, search
<1>3. v \in Pub(pkg) /\ attempt.todo \subseteq DOMAIN Needs(pkg, v) /\ v # None /\ (pkg = Root => v = 0)
  BY <1>2 DEF IInv, Attempts
<1>4. pkg \in Names  BY DEF IInv, TypeOK
<1>5. IsTerms(f) /\ RootTrue(f) /\ Implied(f)
  BY <1>3, <1>4, DependencyImplied DEF IInv
<1>6. attempt \in [ver : Versions \cup {None}, todo : SUBSET Packages, added : SUBSET (1..Len(incs))]
  BY DEF IInv, TypeOK
<1>7. <<pkg, v, d>> \in Edges
  <2>1. v \in Versions  BY <1>3, <1>6
  <2>2. d \in Names  BY <1>6 DEF Names
  <2> QED  BY <1>4, <2>1, <2>2 DEF Edges
<1>8. incs' = Added(f, <<pkg, v, d>>)  BY <1>1
<1>9. attempt'.ver = v /\ attempt'.todo = attempt.todo \ {d}  BY <1>1
<1>10. attempt' = [ver |-> v, todo |-> attempt.todo \ {d}, added |-> attempt.added \cup {Index(f)}]
  BY <1>1
<1> HIDE DEF f, v
<1>11. /\ incs' \in Seq({incs'[i] : i \in 1..Len(incs')})
       /\ Len(incs) \in Nat /\ Len(incs') \in Nat /\ Len(incs) <= Len(incs')
       /\ \A i \in 1..Len(incs) : incs'[i] = incs[i]
       /\ \A i \in 1..Len(incs') : IsTerms(incs'[i].terms) /\ incs'[i].edge \in Edges \cup {None}
       /\ Index(f) \in 1..Len(incs')
       /\ Stores'
  BY <1>2, <1>5, <1>7, <1>8, AddedKeepsTypes DEF IInv
<1>12. attempt' \in [ver : Versions \cup {None}, todo : SUBSET Packages, added : SUBSET (1..Len(incs'))]
  <2>1. 1..Len(incs) \subseteq 1..Len(incs')  BY <1>11
  <2>2. v \in Versions \cup {None}  BY <1>6 DEF v
  <2> QED  BY <1>6, <1>10, <1>11, <2>1, <2>2
<1>13. Attempts'
  <2>1. attempt'.ver # None /\ (pkg' = Root => attempt'.ver = 0)  BY <1>2, <1>3, <1>9
  <2>2. (attempt.ver \in Pub(pkg))' /\ (attempt.todo \subseteq DOMAIN Needs(pkg, attempt.ver))'
    BY <1>2, <1>3, <1>9 DEF Pub, Needs
  <2> QED  BY <2>1, <2>2 DEF Attempts
<1>14. asg # <<>>  BY <1>2 DEF IInv, RootFirst
<1>15. changed' \subseteq Names /\ fetched \subseteq fetched' /\ fetched' \subseteq Names
  BY <1>2 DEF IInv, TypeOK
<1> QED  BY <1>2, <1>4, <1>11, <1>12, <1>13, <1>14, <1>15, GrowsKeeps

LEMMA RecordDecisionKeeps ==
  ASSUME IInv, RecordDecision
  PROVE  IInv'
<1>1. pc = "depend" /\ pc' = "propagate" /\ changed' = {pkg} /\ attempt' = NoAttempt
  BY DEF RecordDecision
<1>2. UNCHANGED <<registry, incs, counts, asked, fetched, pkg, at, conflict, result>>  BY DEF RecordDecision
<1>3. asg # <<>> /\ attempt.ver # None /\ (pkg = Root => attempt.ver = 0)
  BY <1>1 DEF IInv, RootFirst, Attempts
<1>4. pkg \in Names /\ level \in Nat /\ attempt.ver \in Versions  BY <1>3 DEF IInv, TypeOK
<1>5. /\ asg' \in Seq(Assignment) /\ \A j \in 1..Len(asg') : asg'[j].cause \in 0..Len(incs')
      /\ Causes' /\ RootFirst' /\ level' \in Nat
  <2>1. CASE Declined
    <3>1. UNCHANGED <<asg, level>>  BY <2>1 DEF RecordDecision
    <3>2. Causes'  BY <1>2, <3>1, CausesStay DEF IInv
    <3>3. RootFirst'  BY <1>2, <1>3, <3>1 DEF IInv, RootFirst, ThePoint
    <3> QED  BY <1>2, <3>1, <3>2, <3>3 DEF IInv, TypeOK
  <2>2. CASE ~Declined
    <3> DEFINE t == Exactly(attempt.ver)
    <3>1. level' = (IF pkg = Root THEN level ELSE level + 1) /\ asg' = Assign(asg, pkg, t, level', 0)
      BY <2>2 DEF RecordDecision
    <3>2. level' \in Nat  BY <1>4, <3>1
    <3>3. t \in Term  BY <1>4, ExactlyIsTerm
    <3>4. pkg = Root => t.pos /\ t.set = ThePoint  BY <1>3 DEF Exactly, Pos, ThePoint
    <3>5. 0 \in 0..Len(incs)  BY DEF IInv, TypeOK
    <3> HIDE DEF t
    <3>6. /\ asg' \in Seq(Assignment) /\ \A j \in 1..Len(asg') : asg'[j].cause \in 0..Len(incs')
          /\ Causes' /\ RootFirst'
      BY <1>2, <1>3, <1>4, <3>1, <3>2, <3>3, <3>4, <3>5, Assigned DEF IInv
    <3> QED  BY <3>2, <3>6
  <2> QED  BY <2>1, <2>2
<1>6. TypeOK'
  <2>1. attempt' \in [ver : Versions \cup {None}, todo : SUBSET Packages, added : SUBSET (1..Len(incs'))]
    BY <1>1 DEF NoAttempt
  <2> QED  BY <1>1, <1>2, <1>4, <1>5, <2>1 DEF IInv, TypeOK
<1>7. Stores'  BY <1>2, StoresStay DEF IInv
<1>8. Resolving'  BY <1>1, <1>2 DEF IInv, Resolving, RootTrue, SameTerms, SameTerm, ThePoint
<1>9. Attempts'  BY <1>1 DEF Attempts
<1> QED  BY <1>5, <1>6, <1>7, <1>8, <1>9 DEF IInv

LEMMA ExtractKeeps ==
  ASSUME IInv, Extract
  PROVE  IInv'
<1>1. pc = "decide" /\ pc' \in {"done", "bug"}
      /\ UNCHANGED <<registry, incs, asg, level, counts, asked, fetched, attempt, changed, pkg, at, conflict>>
  BY DEF Extract, search
<1>2. result' \in [Names -> Versions \cup {None}]
  <2>1. CASE result' = result  BY <2>1 DEF IInv, TypeOK
  <2>2. CASE /\ \A p \in Reached : Decided(p)
             /\ result' = [p \in Names |-> IF p \in Reached THEN Chosen(p) ELSE None]
    <3>1. ASSUME NEW p \in Reached PROVE Chosen(p) \in Versions \cup {None}
      <4> DEFINE i == CHOOSE j \in Decisions(asg, p) : TRUE
      <4>1. Decisions(asg, p) # {}  BY <2>2 DEF Decided
      <4>2. i \in Decisions(asg, p)  BY <4>1
      <4>3. i \in 1..Len(asg)  BY <4>2 DEF Decisions, On, Of
      <4>4. asg \in Seq(Assignment)  BY DEF IInv, TypeOK
      <4> HIDE DEF i
      <4>5. asg[i] \in Assignment  BY <4>3, <4>4
      <4> QED  BY <4>5 DEF Chosen, i, Assignment, Term
    <3> QED  BY <2>2, <3>1
  <2> QED  BY <2>1, <2>2 DEF Extract
<1>3. TypeOK'  BY <1>1, <1>2 DEF IInv, TypeOK, Final
<1>4. Stores'  BY <1>1, StoresStay DEF IInv
<1>5. Causes'  BY <1>1, CausesStay DEF IInv
<1>6. Resolving'  BY <1>1 DEF IInv, Resolving, RootTrue, SameTerms, SameTerm, ThePoint
<1>7. RootFirst'  BY <1>1 DEF IInv, RootFirst, ThePoint
<1>8. Attempts'  BY <1>1 DEF Attempts
<1> QED  BY <1>3, <1>4, <1>5, <1>6, <1>7, <1>8 DEF IInv

-----------------------------------------------------------------------------
(***************************************************************************)
(* The theorems.                                                           *)
(***************************************************************************)
LEMMA StepKeeps ==
  ASSUME IInv, [Next]_vars
  PROVE  IInv'
<1>1. CASE Step
  BY <1>1, PopKeeps, PropagateKeeps, ConflictKeeps, ScanEndsKeeps, PropagationEndsKeeps, ResolutionStopsKeeps,
     MergeKeeps, BackjumpKeeps, DeriveRootCauseKeeps, DecideKeeps, AbortKeeps, AddDependencyKeeps,
     RecordDecisionKeeps, ExtractKeeps
  DEF Step
<1>2. CASE UNCHANGED vars
  <2>1. /\ UNCHANGED <<registry, incs, asg, level, counts, asked, fetched, changed, pkg, at, conflict, attempt, result, pc>>
    BY <1>2 DEF vars
  <2>2. TypeOK'  BY <2>1 DEF IInv, TypeOK
  <2>3. Stores'  BY <2>1, StoresStay DEF IInv
  <2>4. Causes'  BY <2>1, CausesStay DEF IInv
  <2>5. Resolving'
    <3>1. Selected' = Selected  BY <2>1, SelectionsStay
    <3>2. Implied(conflict.terms)' <=> Implied(conflict.terms)  BY <2>1, <3>1 DEF Implied, Truth, Within
    <3>3. RootTrue(conflict.terms)'  BY <2>1 DEF IInv, Resolving, RootTrue, ThePoint
    <3>4. (SameTerms(incs[conflict.index].terms, conflict.terms))' <=> SameTerms(incs[conflict.index].terms, conflict.terms)
      BY <2>1 DEF SameTerms, SameTerm
    <3> QED  BY <2>1, <3>2, <3>3, <3>4 DEF IInv, Resolving
  <2>6. RootFirst'  BY <2>1 DEF IInv, RootFirst, ThePoint
  <2>7. Attempts'  BY <2>1 DEF IInv, Attempts, Pub, Needs
  <2> QED  BY <2>2, <2>3, <2>4, <2>5, <2>6, <2>7 DEF IInv
<1> QED  BY <1>1, <1>2 DEF Next, Stopped

\* The inductive invariant: what is stored and what conflict resolution holds
\* is implied by the registry, every derived assignment is the negation of its
\* cause's term, and the root's version stands at level 0.
THEOREM Inductive == Spec => []IInv
<1>1. Init => IInv  BY InitEstablishes
<1>2. IInv /\ [Next]_vars => IInv'  BY StepKeeps
<1> QED  BY <1>1, <1>2, PTL DEF Spec

\* The state keeps its types: no index of a cause, of a conflict or of an
\* added dependency ever points past the store, whatever is cut and added.
THEOREM TypeCorrect == Spec => []TypeOK
<1>1. IInv => TypeOK  BY DEF IInv
<1> QED  BY <1>1, Inductive, PTL

\* Only a terminal conflict ends in "failed".
LEMMA FailureIsProof ==
  ASSUME IInv, OneSpelling => FailsOnlyIfNone, [Next]_vars
  PROVE  OneSpelling => FailsOnlyIfNone'
<1> SUFFICES ASSUME OneSpelling, pc' = "failed" PROVE Selections' = {}
  BY DEF FailsOnlyIfNone
<1>1. CASE pc = "failed"
  <2>1. registry' = registry  BY <1>1 DEF Next, Step, Stopped, vars, Final, Pop, Propagate, Conflict, ScanEnds, PropagationEnds, ResolutionStops, Merge, Backjump, DeriveRootCause, Decide, Abort, AddDependency, RecordDecision, Extract
  <2>2. Selections' = Selections  BY <2>1 DEF Selections, IsSelection, Pub, Needs
  <2> QED  BY <1>1, <2>2 DEF FailsOnlyIfNone
<1>2. CASE pc # "failed"
  <2>1. pc = "resolve" /\ Terminal(conflict.terms) /\ registry' = registry
    BY <1>2 DEF Next, Step, Stopped, vars, Final, Pop, Propagate, Conflict, ScanEnds, PropagationEnds, ResolutionStops, Stop, Merge, Backjump, DeriveRootCause, Decide, Try, NoVersions, Abort, AddDependency, RecordDecision, Extract
  <2>2. Implied(conflict.terms) /\ RootTrue(conflict.terms)  BY <2>1 DEF IInv, Resolving
  <2>3. Selected = {}  BY <2>1, <2>2, TerminalRefutes
  <2>4. Selections = {}  BY <2>3 DEF Selected
  <2>5. Selections' = Selections  BY <2>1 DEF Selections, IsSelection, Pub, Needs
  <2> QED  BY <2>4, <2>5
<1> QED  BY <1>1, <1>2

\* A conflict error of Solve is a proof: for every registry, set of
\* requirements and order of decisions, unless some package publishes two
\* spellings of one version.
THEOREM ConflictIsProof == Spec => [](OneSpelling => FailsOnlyIfNone)
<1>1. Init => (OneSpelling => FailsOnlyIfNone)  BY DEF Init, FailsOnlyIfNone
<1>2. IInv /\ (OneSpelling => FailsOnlyIfNone) /\ [Next]_vars => (OneSpelling => FailsOnlyIfNone)'
  <2>1. OneSpelling' <=> OneSpelling  BY DEF OneSpelling
  <2> QED  BY <2>1, FailureIsProof
<1> QED  BY <1>1, <1>2, Inductive, PTL DEF Spec

-----------------------------------------------------------------------------
\* What Solve returns is a selection

(***************************************************************************)
(* A decision stands on dependencies that were added before it; each of    *)
(* them is met by what is assigned at or below its level, or unit          *)
(* propagation is still to look at it.  When it has nothing left to look   *)
(* at, every dependency is met, and on record for the result to follow.    *)
(***************************************************************************)

\* What a term says of a point.
Admits(t, x) == IF t.pos THEN x \in t.set ELSE x \notin t.set

\* The terms of the dependency on d of version v of p.
Terms(r, p, v, d) ==
  LET c == Requires(r, p, v)[d]
  IN  IF c.set = {} THEN [q \in {p} |-> Exactly(v)]
      ELSE [q \in {p, d} |-> IF q = d THEN Not(c.set, c.single) ELSE Exactly(v)]

\* A term that carries a version is about its point alone.
AllCarry(f) == \A p \in DOMAIN f : Carries(f[p])
Carriers ==
  /\ \A i \in 1..Len(incs) : AllCarry(incs[i].terms)
  /\ \A i \in 1..Len(asg) : Carries(asg[i].term)
  /\ AllCarry(conflict.terms)

\* Nothing says of a published version that it is needed before its
\* dependencies were asked for; a names those that were.
OfAsked(r, a, f) ==
  \A p \in DOMAIN f, v \in Versions :
    f[p].pos /\ v \in Published(r, p) /\ Point[v] \in f[p].set => <<p, v>> \in a
Affirmed ==
  /\ \A p \in Names, v \in Versions : <<p, v>> \in asked => v \in Published(registry, p)
  /\ \A i \in 1..Len(incs) : OfAsked(registry, asked, incs[i].terms)
  /\ OfAsked(registry, asked, conflict.terms)

\* While dependencies are added, only those added before them speak for the
\* version.
Adding == pc = "depend" /\ attempt.todo # {}
Speaks(f, p, v) == p \in DOMAIN f /\ f[p].pos /\ Point[v] \in f[p].set
Fresh ==
  Adding => \A i \in 1..Len(incs) : Speaks(incs[i].terms, pkg, attempt.ver) =>
    \E d \in DOMAIN Requires(registry, pkg, attempt.ver) \ attempt.todo :
      SameTerms(incs[i].terms, Terms(registry, pkg, attempt.ver, d))

\* The dependencies of a version that was asked for are stored, and on record
\* unless nothing can meet them.
ToCome(p, v, d) == Adding /\ pkg = p /\ attempt.ver = v /\ d \in attempt.todo
Filed(r, s, p, v, d) ==
  \E i \in 1..Len(s) :
    /\ SameTerms(s[i].terms, Terms(r, p, v, d))
    /\ s[i].edge = <<p, v, d>> \/ Requires(r, p, v)[d].set = {}
Recorded ==
  \A p \in Names, v \in Versions, d \in Names :
    <<p, v>> \in asked /\ d \in DOMAIN Requires(registry, p, v) =>
      ToCome(p, v, d) \/ Filed(registry, incs, p, v, d)

\* A decision is a version that was asked for, and agrees with what else is
\* assigned to its package.
Agrees(s, p, v) == \A j \in 1..Len(s) : s[j].pkg = p => Admits(s[j].term, Point[v])
Decisive ==
  \A k \in 1..Len(asg) : asg[k].cause = 0 =>
    LET v == asg[k].term.single IN
      /\ v \in Versions /\ asg[k].term = Exactly(v) /\ <<asg[k].pkg, v>> \in asked
      /\ Agrees(asg, asg[k].pkg, v)
Deciding ==
  pc = "depend" =>
    /\ attempt.ver \in Versions /\ <<pkg, attempt.ver>> \in asked
    /\ Agrees(asg, pkg, attempt.ver)
    /\ \A j \in 1..Len(asg) : asg[j].pkg = pkg => asg[j].cause # 0

\* Levels grow, and a decision but the root's begins one.
Levels ==
  /\ \A j \in 1..Len(asg) : asg[j].level <= level
  /\ \A i, j \in 1..Len(asg) : i <= j => asg[i].level <= asg[j].level
  /\ \A i, k \in 1..Len(asg) : i < k /\ asg[k].cause = 0 /\ asg[k].pkg # Root => asg[i].level < asg[k].level
  /\ asg # <<>> => asg[1].cause # 0

\* The assignments up to level l leave of d only what c has.
Meets(s, l, c, d) ==
  /\ c.set # {}
  /\ \A x \in Points :
       (\A j \in 1..Len(s) : s[j].pkg = d /\ s[j].level <= l => Admits(s[j].term, x)) => x \in c.set
\* Propagation has still to look at a dependency, or the conflict it led to
\* is being resolved.
Pending(p, v, d) ==
  \/ pc \in {"propagate", "scan"} /\ p \in changed
  \/ pc = "scan" /\ pkg = p /\ \E i \in 1..at : SameTerms(incs[i].terms, Terms(registry, p, v, d))
  \/ pc \in {"resolve", "failed", "bug"}
Settled ==
  \A k \in 1..Len(asg), p \in Names, v \in Versions, d \in Names :
    asg[k].cause = 0 /\ asg[k].pkg = p /\ asg[k].term.single = v /\ d \in DOMAIN Requires(registry, p, v) =>
      \/ Meets(asg, asg[k].level, Requires(registry, p, v)[d], d)
      \/ asg[k].level = level /\ Pending(p, v, d)

RInv == Carriers /\ Affirmed /\ Fresh /\ Recorded /\ Decisive /\ Deciding /\ Levels /\ Settled

-----------------------------------------------------------------------------
(***************************************************************************)
(* Terms and accumulations.                                                *)
(***************************************************************************)
LEMMA AssignmentParts ==
  ASSUME TypeOK, NEW i \in 1..Len(asg)
  PROVE  /\ asg[i] \in Assignment /\ asg[i].pkg \in Names /\ asg[i].term \in Term
         /\ asg[i].level \in Nat /\ asg[i].cause \in Nat
<1>1. asg \in Seq(Assignment)  BY DEF TypeOK
<1>2. asg[i] \in Assignment  BY <1>1
<1> QED  BY <1>2 DEF Assignment

\* The accumulation admits what every assignment does.
LEMMA AccumAdmits ==
  ASSUME NEW s \in Seq(Assignment), NEW n \in 0..Len(s), NEW p, NEW x \in Points
  PROVE  Admits(Accum(s, n, p), x) <=> \A i \in Of(s, n, p) : Admits(s[i].term, x)
<1> DEFINE held == {i \in Of(s, n, p) : s[i].term.pos}
           out  == UNION {s[i].term.set : i \in Of(s, n, p) \ held}
           both == {y \in Points \ out : \A i \in held : y \in s[i].term.set}
<1>1. x \notin out <=> \A i \in Of(s, n, p) : ~s[i].term.pos => x \notin s[i].term.set
  OBVIOUS
<1>2. CASE held = {}
  <2>1. Accum(s, n, p) = Not(out, None)  BY <1>2 DEF Accum
  <2>2. Admits(Accum(s, n, p), x) <=> x \notin out  BY <2>1 DEF Admits, Not
  <2>3. \A i \in Of(s, n, p) : ~s[i].term.pos  BY <1>2
  <2> QED  BY <1>1, <2>2, <2>3 DEF Admits
<1>3. CASE held # {}
  <2>1. Accum(s, n, p) = Pos(both, None)  BY <1>3 DEF Accum
  <2>2. Admits(Accum(s, n, p), x) <=> x \in both  BY <2>1 DEF Admits, Pos
  <2>3. x \in both <=> x \notin out /\ \A i \in held : x \in s[i].term.set  OBVIOUS
  <2>4. x \in both <=> \A i \in Of(s, n, p) : Admits(s[i].term, x)
    BY <1>1, <2>3 DEF Admits
  <2> QED  BY <2>2, <2>4
<1> QED  BY <1>2, <1>3

\* What is known of a package admits a version that all assignments admit.
LEMMA PermittedAgrees ==
  ASSUME TypeOK, NEW p, NEW v \in Versions, Permits(Known(p), v)
  PROVE  Agrees(asg, p, v)
<1>1. asg \in Seq(Assignment) /\ Len(asg) \in 0..Len(asg)  BY DEF TypeOK
<1>2. Known(p) \in Term  BY KnownIsTerm
<1>3. Point[v] \in Points  BY DEF Points
<1>4. Admits(Known(p), Point[v])  BY <1>2 DEF Permits, Admits, Term
<1>5. \A i \in Of(asg, Len(asg), p) : Admits(asg[i].term, Point[v])
  BY <1>1, <1>3, <1>4, AccumAdmits DEF Known
<1> QED  BY <1>5 DEF Agrees, Of

\* A decision settles every relation to its package.
LEMMA DecidedRelation ==
  ASSUME TypeOK, Decisive, NEW k \in 1..Len(asg), asg[k].cause = 0, NEW t \in Term
  PROVE  Relation(asg, asg[k].pkg, t)
           = IF Admits(t, Point[asg[k].term.single]) THEN "satisfied" ELSE "contradicted"
<1> DEFINE p == asg[k].pkg
           v == asg[k].term.single
           a == Accum(asg, Len(asg), p)
           held == {i \in Of(asg, Len(asg), p) : asg[i].term.pos}
           out  == UNION {asg[i].term.set : i \in Of(asg, Len(asg), p) \ held}
           both == {y \in Points \ out : \A i \in held : y \in asg[i].term.set}
<1>1. v \in Versions /\ asg[k].term = Exactly(v) /\ Agrees(asg, p, v)  BY DEF Decisive
<1>2. asg[k].term.pos /\ asg[k].term.set = {Point[v]}  BY <1>1 DEF Exactly, Pos
<1>3. k \in Of(asg, Len(asg), p) /\ k \in held  BY <1>2 DEF Of
<1>4. a = Pos(both, None)  BY <1>3 DEF Accum
<1>5. Point[v] \in Points  BY <1>1 DEF Points
<1>6. \A i \in Of(asg, Len(asg), p) : Admits(asg[i].term, Point[v])  BY <1>1 DEF Agrees, Of
<1>7. Point[v] \in both  BY <1>5, <1>6 DEF Admits
<1>8. both \subseteq {Point[v]}  BY <1>2, <1>3
<1>9. a.pos /\ a.set = {Point[v]} /\ a.single = None  BY <1>4, <1>7, <1>8 DEF Pos
<1>10. On(asg, p) # {}  BY <1>3 DEF On
<1>11. t.pos \in BOOLEAN /\ t.set \subseteq Points  BY DEF Term
<1> HIDE DEF v, a, held, out, both, p
<1>12. CASE Admits(t, Point[v])
  <2>1. Entails(a, t)  BY <1>9, <1>11, <1>12 DEF Entails, Admits
  <2> QED  BY <1>10, <1>12, <2>1 DEF Relation, a, p, v
<1>13. CASE ~Admits(t, Point[v])
  <2>1. ~Entails(a, t)  BY <1>9, <1>11, <1>13 DEF Entails, Admits
  <2>2. ~Tautology(a) /\ ~Tautology(t)  BY <1>9, <1>13 DEF Tautology, Admits
  <2>3. Impossible(Meet(a, t))
    <3>1. CASE t.pos
      <4>1. Meet(a, t) = Pos(a.set \cap t.set, None)  BY <1>9, <2>2, <3>1 DEF Meet
      <4>2. a.set \cap t.set = {}  BY <1>9, <1>13, <3>1 DEF Admits
      <4> QED  BY <4>1, <4>2 DEF Impossible, Pos
    <3>2. CASE ~t.pos
      <4>1. Meet(a, t) = Pos(a.set \ t.set, None)  BY <1>9, <2>2, <3>2 DEF Meet
      <4>2. a.set \ t.set = {}  BY <1>9, <1>13, <3>2 DEF Admits
      <4> QED  BY <4>1, <4>2 DEF Impossible, Pos
    <3> QED  BY <3>1, <3>2
  <2> QED  BY <1>10, <1>13, <2>1, <2>3 DEF Relation, a, p, v
<1> QED  BY <1>12, <1>13 DEF p, v

\* So nothing is derived of a decided package.
LEMMA OpenIsUndecided ==
  ASSUME TypeOK, Decisive, NEW p, NEW t \in Term, Relation(asg, p, t) = "open", NEW k \in 1..Len(asg), asg[k].cause = 0
  PROVE  asg[k].pkg # p
BY DecidedRelation

-----------------------------------------------------------------------------
(***************************************************************************)
(* Dependencies.                                                           *)
(***************************************************************************)
\* What the terms g of a dependency are: v of p, and no c of d.
Shape(g, p, v, d, c) ==
  /\ d \in Packages /\ d \in Names /\ d # p /\ c \in VersionSet /\ Carries(c)
  /\ DOMAIN g = IF c.set = {} THEN {p} ELSE {p, d}
  /\ g[p].pos /\ g[p].set = {Point[v]}
  /\ c.set # {} => ~g[d].pos /\ g[d].set = c.set

LEMMA TermsShape ==
  ASSUME TypeOK, NEW p \in Names, NEW v \in Versions, NEW d \in DOMAIN Requires(registry, p, v),
         NEW g, SameTerms(g, Terms(registry, p, v, d))
  PROVE  Shape(g, p, v, d, Requires(registry, p, v)[d])
<1> DEFINE c == Requires(registry, p, v)[d]
           f == Terms(registry, p, v, d)
<1>1. d \in Packages /\ d # p /\ c \in VersionSet /\ Carries(c)
  BY RegistriesAssumption DEF TypeOK
<1>2. d \in Names  BY <1>1 DEF Names
<1>3. DOMAIN g = DOMAIN f /\ \A q \in DOMAIN g : g[q].pos = f[q].pos /\ g[q].set = f[q].set
  BY DEF SameTerms, SameTerm
<1>4. CASE c.set = {}
  <2>1. f = [q \in {p} |-> Exactly(v)]  BY <1>4 DEF Terms
  <2>2. DOMAIN f = {p} /\ f[p].pos /\ f[p].set = {Point[v]}  BY <2>1 DEF Exactly, Pos
  <2> HIDE DEF c, f
  <2> QED  BY <1>1, <1>2, <1>3, <1>4, <2>2 DEF c, Shape
<1>5. CASE c.set # {}
  <2>1. f = [q \in {p, d} |-> IF q = d THEN Not(c.set, c.single) ELSE Exactly(v)]  BY <1>5 DEF Terms
  <2>2. DOMAIN f = {p, d} /\ f[p].pos /\ f[p].set = {Point[v]} /\ ~f[d].pos /\ f[d].set = c.set
    BY <1>1, <2>1 DEF Exactly, Pos, Not
  <2> HIDE DEF c, f
  <2> QED  BY <1>1, <1>2, <1>3, <1>5, <2>2 DEF c, Shape
<1> QED  BY <1>4, <1>5

\* A dependency that tells propagation nothing of a decision is met.
LEMMA NotTellingMeets ==
  ASSUME TypeOK, Decisive, Levels, NEW k \in 1..Len(asg), asg[k].cause = 0, NEW p \in Names, NEW v \in Versions,
         p = pkg, asg[k].pkg = p, asg[k].term.single = v, NEW d \in DOMAIN Requires(registry, p, v),
         NEW i \in 1..Len(incs), SameTerms(incs[i].terms, Terms(registry, p, v, d)), ~Telling(i)
  PROVE  Meets(asg, level, Requires(registry, p, v)[d], d)
<1> DEFINE f == incs[i].terms
           c == Requires(registry, p, v)[d]
<1>1. Shape(f, p, v, d, c)  BY TermsShape
<1> USE DEF Shape
<1>2. \A q \in DOMAIN f : f[q] \in Term  BY DEF TypeOK, IsTerms
<1>3. Relation(asg, p, f[p]) = "satisfied"
  <2>1. Admits(f[p], Point[v])  BY <1>1 DEF Admits
  <2> QED  BY <1>1, <1>2, <2>1, DecidedRelation
<1>4. ~Satisfied(asg, f) /\ \A q \in DOMAIN f : ~Unit(f, q)  BY <1>1 DEF Telling
<1>5. c.set # {} /\ DOMAIN f = {p, d} /\ ~f[d].pos /\ f[d].set = c.set
  BY <1>1, <1>3, <1>4 DEF Satisfied
<1>6. Relation(asg, d, f[d]) # "satisfied"  BY <1>3, <1>4, <1>5 DEF Satisfied
<1>7. asg \in Seq(Assignment) /\ Len(asg) \in 0..Len(asg) /\ c.set \subseteq Points
  BY <1>1 DEF TypeOK, VersionSet
<1>8. f[d] \in Term  BY <1>2, <1>5
<1> HIDE DEF f, c
<1>9. CASE Relation(asg, d, f[d]) = "open"
  <2>1. AlmostSatisfied(asg, f, d)  BY <1>3, <1>5, <1>9 DEF AlmostSatisfied
  <2>2. Equivalent(asg, d, Negate(f[d]))  BY <1>4, <1>5, <2>1 DEF Unit
  <2>3. PICK j \in On(asg, d) : SameTerm(asg[j].term, Negate(f[d]))  BY <2>2 DEF Equivalent
  <2>4. Negate(f[d]).pos = ~f[d].pos /\ Negate(f[d]).set = f[d].set  BY DEF Negate
  <2>5. j \in 1..Len(asg) /\ asg[j].pkg = d /\ asg[j].level <= level  BY <2>3 DEF On, Of, Levels
  <2>6. asg[j].term.pos /\ asg[j].term.set = c.set  BY <1>5, <2>3, <2>4 DEF SameTerm
  <2> QED  BY <1>5, <2>5, <2>6 DEF Meets, Admits, c
<1>10. CASE Relation(asg, d, f[d]) # "open"
  <2> DEFINE a == Accum(asg, Len(asg), d)
  <2>1. Impossible(Meet(a, f[d]))  BY <1>6, <1>10 DEF Relation
  <2>2. a \in Term  BY <1>7, AccumIsTerm
  <2>3. \A x \in Points : Admits(a, x) <=> \A j \in Of(asg, Len(asg), d) : Admits(asg[j].term, x)
    BY <1>7, AccumAdmits
  <2> HIDE DEF a
  <2>4. ~Tautology(f[d])  BY <1>5 DEF Tautology
  <2>5. ~Tautology(a)
    <3>1. Tautology(a) => Meet(a, f[d]) = f[d]  BY DEF Meet
    <3> QED  BY <1>5, <2>1, <3>1 DEF Impossible
  <2>6. a.pos
    <3>1. ~a.pos => Meet(a, f[d]) = Not(a.set \cup f[d].set, None)  BY <1>5, <2>4, <2>5 DEF Meet
    <3> QED  BY <2>1, <3>1 DEF Impossible, Not
  <2>7. Meet(a, f[d]) = Pos(a.set \ c.set, None)  BY <1>5, <2>4, <2>5, <2>6 DEF Meet
  <2>8. a.set \subseteq c.set  BY <2>1, <2>7 DEF Impossible, Pos
  <2>9. ASSUME NEW x \in Points, \A j \in 1..Len(asg) : asg[j].pkg = d /\ asg[j].level <= level => Admits(asg[j].term, x)
        PROVE  x \in c.set
    <3>1. \A j \in Of(asg, Len(asg), d) : Admits(asg[j].term, x)  BY <2>9 DEF Of, Levels
    <3>2. Admits(a, x)  BY <2>3, <3>1
    <3> QED  BY <2>6, <2>8, <3>2 DEF Admits
  <2> QED  BY <1>5, <2>9 DEF Meets, c
<1> QED  BY <1>9, <1>10

-----------------------------------------------------------------------------
(***************************************************************************)
(* The partial solution grows, or is cut.                                  *)
(***************************************************************************)
LEMMA AssignAppends ==
  ASSUME TypeOK, NEW p \in Names, NEW t \in Term, NEW l \in Nat, NEW k \in Nat, asg' = Assign(asg, p, t, l, k)
  PROVE  /\ Len(asg) \in Nat /\ Len(asg') = Len(asg) + 1
         /\ \A i \in 1..Len(asg) : asg'[i] = asg[i]
         /\ \A i \in 1..Len(asg') : i \in 1..Len(asg) \/ i = Len(asg')
         /\ asg'[Len(asg')].pkg = p /\ asg'[Len(asg')].term = t
         /\ asg'[Len(asg')].level = l /\ asg'[Len(asg')].cause = k
<1> DEFINE new == [pkg |-> p, term |-> t, level |-> l, cause |-> k]
<1>1. asg \in Seq(Assignment) /\ Len(asg) \in Nat  BY DEF TypeOK
<1>2. new \in Assignment  BY DEF Assignment
<1>3. asg' = Append(asg, new)  BY DEF Assign
<1>4. Len(asg') = Len(asg) + 1 /\ (\A i \in 1..Len(asg) : asg'[i] = asg[i]) /\ asg'[Len(asg) + 1] = new
  BY <1>1, <1>2, <1>3
<1>5. new.pkg = p /\ new.term = t /\ new.level = l /\ new.cause = k  OBVIOUS
<1> HIDE DEF new
<1> QED  BY <1>1, <1>4, <1>5

\* A downward closed set of positions is an interval.
LEMMA ClosedIsInterval ==
  ASSUME NEW n \in Nat, NEW S \in SUBSET (1..n), \A i \in S, j \in 1..n : j <= i => j \in S
  PROVE  Cardinality(S) \in Nat /\ S = 1..Cardinality(S)
<1> DEFINE k == Cardinality(S)
<1>1. \A m \in Nat : IsFiniteSet(1..m) /\ Cardinality(1..m) = m
  <2> TAKE m \in Nat
  <2>1. m \in Int /\ 1 \in Int  OBVIOUS
  <2>2. IsFiniteSet(1..m)  BY <2>1, FS_Interval
  <2>3. Cardinality(1..m) = IF 1 > m THEN 0 ELSE m - 1 + 1  BY <2>1, FS_Interval
  <2> QED  BY <2>2, <2>3
<1>2. IsFiniteSet(S) /\ k \in Nat /\ k <= n
  <2>1. IsFiniteSet(1..n) /\ Cardinality(1..n) = n  BY <1>1
  <2>2. IsFiniteSet(S) /\ Cardinality(S) <= Cardinality(1..n)  BY <2>1, FS_Subset
  <2> QED  BY <2>1, <2>2, FS_CardinalityType
<1>3. ASSUME NEW i \in S PROVE i <= k
  <2>1. 1..i \subseteq S /\ i \in Nat  OBVIOUS
  <2>2. Cardinality(1..i) <= Cardinality(S)  BY <1>2, <2>1, FS_Subset
  <2>3. Cardinality(1..i) = i  BY <1>1, <2>1
  <2> QED  BY <2>2, <2>3
<1>4. ASSUME NEW i \in 1..n, i \notin S PROVE k < i
  <2>1. S \subseteq 1..(i - 1) /\ i - 1 \in Nat  BY <1>4
  <2>2. IsFiniteSet(1..(i - 1)) /\ Cardinality(1..(i - 1)) = i - 1  BY <1>1, <2>1
  <2>3. Cardinality(S) <= Cardinality(1..(i - 1))  BY <2>1, <2>2, FS_Subset
  <2> QED  BY <1>2, <2>2, <2>3
<1> HIDE DEF k
<1>5. S = 1..k
  <2>1. S \subseteq 1..n  OBVIOUS
  <2>2. \A i \in S : i \in 1..k  BY <1>2, <1>3, <2>1
  <2>3. \A i \in 1..k : i \in 1..n /\ ~(k < i)  BY <1>2
  <2>4. \A i \in 1..k : i \in S  BY <1>4, <2>3
  <2> QED  BY <2>2, <2>4
<1> QED  BY <1>2, <1>5 DEF k

\* backtrackTo keeps what is assigned up to the level, and nothing else.
LEMMA UpToKeepsLevels ==
  ASSUME TypeOK, Levels, NEW l \in Nat, asg' = UpTo(l)
  PROVE  /\ Len(asg) \in Nat /\ Len(asg') \in 0..Len(asg)
         /\ \A i \in 1..Len(asg') : asg'[i] = asg[i] /\ asg[i].level <= l
         /\ \A i \in 1..Len(asg) : asg[i].level <= l => i \in 1..Len(asg')
<1> DEFINE n == Len(asg)
           S == {i \in 1..n : \E j \in i..n : asg[j].level <= l}
           k == Cardinality(S)
<1>1. asg \in Seq(Assignment) /\ n \in Nat  BY DEF TypeOK
<1>2. \A i \in S, j \in 1..n : j <= i => j \in S  BY <1>1
<1>3. k \in Nat /\ S = 1..k
  <2>1. S \in SUBSET (1..n)  OBVIOUS
  <2> HIDE DEF S, n
  <2> QED  BY <1>1, <1>2, <2>1, ClosedIsInterval
<1>4. \A i \in 1..n : asg[i].level \in Nat  BY AssignmentParts
<1>5. \A i \in S : asg[i].level <= l  BY <1>1, <1>4 DEF Levels
<1>6. \A i \in 1..n : asg[i].level <= l => i \in S  BY <1>1
<1>7. asg' = SubSeq(asg, 1, k)  BY DEF UpTo
<1>8. S \subseteq 1..n  OBVIOUS
<1> HIDE DEF S, k
<1>9. k <= n
  <2>1. k # 0 => k \in S  BY <1>3
  <2> QED  BY <1>1, <1>3, <1>8, <2>1
<1>10. Len(asg') = k /\ \A i \in 1..k : asg'[i] = asg[i]  BY <1>1, <1>3, <1>7, <1>9
<1> QED  BY <1>1, <1>3, <1>5, <1>6, <1>9, <1>10

-----------------------------------------------------------------------------
(***************************************************************************)
(* What resolution keeps of incompatibilities.                             *)
(***************************************************************************)
\* normalizeTerms drops terms, and changes none.
LEMMA NormalizedIsPart ==
  ASSUME NEW f
  PROVE  DOMAIN Normalized(f) \subseteq DOMAIN f /\ \A q \in DOMAIN Normalized(f) : Normalized(f)[q] = f[q]
<1> DEFINE g == WithoutRoot(f)
<1>1. DOMAIN g \subseteq DOMAIN f /\ \A q \in DOMAIN g : g[q] = f[q]  BY DEF WithoutRoot, Only
<1> HIDE DEF g
<1> DEFINE h == WithoutTautologies(g)
<1>2. DOMAIN h \subseteq DOMAIN g /\ \A q \in DOMAIN h : h[q] = g[q]
  <2> DEFINE telling == {p \in DOMAIN g : ~Tautology(g[p])}
  <2>1. h = g \/ h = Only(g, telling)  BY DEF WithoutTautologies
  <2> HIDE DEF h, telling
  <2> QED  BY <2>1 DEF Only
<1>3. Normalized(f) = h  BY DEF Normalized, g
<1> HIDE DEF h
<1> QED  BY <1>1, <1>2, <1>3

\* A conjunction carries a version only if one of its sides does, and is
\* positive only within a side that is.
LEMMA MeetIsOfSides ==
  ASSUME NEW t \in Term, NEW u \in Term, Carries(t), Carries(u)
  PROVE  /\ Carries(Meet(t, u))
         /\ Meet(t, u).pos =>
              (t.pos /\ Meet(t, u).set \subseteq t.set) \/ (u.pos /\ Meet(t, u).set \subseteq u.set)
         /\ ~Meet(t, u).pos => ~t.pos /\ ~u.pos /\ Meet(t, u).set \subseteq t.set \cup u.set
<1>1. t.pos \in BOOLEAN /\ u.pos \in BOOLEAN  BY DEF Term
<1>2. CASE Tautology(t)
  <2>1. Meet(t, u) = u /\ ~t.pos  BY <1>2 DEF Meet, Tautology
  <2> QED  BY <1>1, <2>1
<1>3. CASE ~Tautology(t) /\ Tautology(u)
  <2>1. Meet(t, u) = t /\ ~u.pos  BY <1>3 DEF Meet, Tautology
  <2> QED  BY <1>1, <2>1
<1>4. CASE ~Tautology(t) /\ ~Tautology(u)
  <2>1. CASE t.pos /\ u.pos
    <3>1. Meet(t, u) = Pos(t.set \cap u.set, None)  BY <1>4, <2>1 DEF Meet
    <3> QED  BY <2>1, <3>1 DEF Pos, Carries
  <2>2. CASE t.pos /\ ~u.pos
    <3>1. Meet(t, u) = Pos(t.set \ u.set, None)  BY <1>4, <2>2 DEF Meet
    <3> QED  BY <2>2, <3>1 DEF Pos, Carries
  <2>3. CASE ~t.pos /\ u.pos
    <3>1. Meet(t, u) = Pos(u.set \ t.set, None)  BY <1>4, <2>3 DEF Meet
    <3> QED  BY <2>3, <3>1 DEF Pos, Carries
  <2>4. CASE ~t.pos /\ ~u.pos
    <3>1. Meet(t, u) = Not(t.set \cup u.set, None)  BY <1>4, <2>4 DEF Meet
    <3> QED  BY <2>4, <3>1 DEF Not, Carries
  <2> QED  BY <2>1, <2>2, <2>3, <2>4
<1> QED  BY <1>2, <1>3, <1>4

LEMMA NegateCarries ==
  ASSUME NEW t \in Term, Carries(t)
  PROVE  /\ Negate(t) \in Term /\ Carries(Negate(t))
         /\ Negate(t).pos = ~t.pos /\ Negate(t).set = t.set
BY DEF Negate, Carries, Term

\* Resolution says nothing positive that its sides do not.
LEMMA ResolventKeeps ==
  ASSUME NEW r, NEW a, NEW f, IsTerms(f), AllCarry(f), OfAsked(r, a, f),
         NEW g, IsTerms(g), AllCarry(g), OfAsked(r, a, g),
         NEW p \in DOMAIN f \cap DOMAIN g, NEW t \in Term, Carries(t), Opposite(t, g[p])
  PROVE  AllCarry(Resolvent(f, g, p, t)) /\ OfAsked(r, a, Resolvent(f, g, p, t))
<1> DEFINE rest == (DOMAIN f \cup DOMAIN g) \ {p}
           left == IF Entails(t, f[p]) THEN {} ELSE {p}
           h == [q \in rest \cup left |->
                   IF q = p THEN Negate(Meet(t, Negate(f[p])))
                   ELSE IF q \in DOMAIN f \cap DOMAIN g THEN Meet(f[q], g[q])
                   ELSE IF q \in DOMAIN f THEN f[q] ELSE g[q]]
<1>1. DOMAIN h = rest \cup left  OBVIOUS
<1>2. \A q \in rest : h[q] = IF q \in DOMAIN f \cap DOMAIN g THEN Meet(f[q], g[q])
                             ELSE IF q \in DOMAIN f THEN f[q] ELSE g[q]
  OBVIOUS
<1>3. p \in left => h[p] = Negate(Meet(t, Negate(f[p])))  OBVIOUS
<1>4. left \subseteq {p}  OBVIOUS
<1> HIDE DEF h, left
<1>5. ASSUME NEW q \in DOMAIN h
      PROVE  /\ Carries(h[q])
             /\ h[q].pos => \A x \in h[q].set :
                  \/ q \in DOMAIN f /\ f[q].pos /\ x \in f[q].set
                  \/ q \in DOMAIN g /\ g[q].pos /\ x \in g[q].set
  <2>1. CASE q \in rest /\ q \in DOMAIN f \cap DOMAIN g
    <3>1. h[q] = Meet(f[q], g[q])  BY <1>2, <2>1
    <3>2. f[q] \in Term /\ g[q] \in Term /\ Carries(f[q]) /\ Carries(g[q])  BY <2>1 DEF IsTerms, AllCarry
    <3>3. /\ Carries(h[q])
          /\ h[q].pos => (f[q].pos /\ h[q].set \subseteq f[q].set) \/ (g[q].pos /\ h[q].set \subseteq g[q].set)
      BY <3>1, <3>2, MeetIsOfSides
    <3> QED  BY <2>1, <3>3
  <2>2. CASE q \in rest /\ q \notin DOMAIN f \cap DOMAIN g
    <3>1. CASE q \in DOMAIN f
      <4>1. h[q] = f[q]  BY <1>2, <2>2, <3>1
      <4> QED  BY <3>1, <4>1 DEF AllCarry
    <3>2. CASE q \notin DOMAIN f
      <4>1. h[q] = g[q] /\ q \in DOMAIN g  BY <1>2, <2>2, <3>2
      <4> QED  BY <4>1 DEF AllCarry
    <3> QED  BY <3>1, <3>2
  <2>3. CASE q = p
    <3> DEFINE u == Negate(f[p])
               m == Meet(t, u)
    <3>1. h[p] = Negate(m)  BY <1>1, <1>3, <2>3
    <3>2. f[p] \in Term /\ g[p] \in Term /\ Carries(f[p])  BY DEF IsTerms, AllCarry
    <3>3. u \in Term /\ Carries(u) /\ u.pos = ~f[p].pos /\ u.set = f[p].set  BY <3>2, NegateCarries
    <3> HIDE DEF u
    <3>4. m \in Term  BY <3>3, MeetIsAnd
    <3>5. Carries(m)  BY <3>3, MeetIsOfSides
    <3>6. ~m.pos => ~t.pos /\ ~u.pos /\ m.set \subseteq t.set \cup u.set  BY <3>3, MeetIsOfSides
    <3> HIDE DEF m
    <3>7. Carries(h[p]) /\ h[p].pos = ~m.pos /\ h[p].set = m.set  BY <3>1, <3>4, <3>5, NegateCarries
    <3>8. f[p].pos \in BOOLEAN /\ g[p].pos \in BOOLEAN /\ t.pos \in BOOLEAN  BY <3>2 DEF Term
    <3>9. ~t.pos => g[p].pos /\ g[p].set = t.set  BY <3>8 DEF Opposite
    <3>10. ~u.pos => f[p].pos  BY <3>3, <3>8
    <3> QED  BY <2>3, <3>3, <3>6, <3>7, <3>9, <3>10
  <2> QED  BY <1>1, <1>4, <2>1, <2>2, <2>3
<1>6. AllCarry(h)  BY <1>5 DEF AllCarry
<1>7. OfAsked(r, a, h)
  <2> SUFFICES ASSUME NEW q \in DOMAIN h, NEW v \in Versions, h[q].pos, v \in Published(r, q), Point[v] \in h[q].set
               PROVE  <<q, v>> \in a
    BY DEF OfAsked
  <2>1. \/ q \in DOMAIN f /\ f[q].pos /\ Point[v] \in f[q].set
        \/ q \in DOMAIN g /\ g[q].pos /\ Point[v] \in g[q].set
    BY <1>5
  <2> QED  BY <2>1 DEF OfAsked
<1>8. Resolvent(f, g, p, t) = Normalized(h)  BY DEF Resolvent, h, left
<1>9. DOMAIN Normalized(h) \subseteq DOMAIN h /\ \A q \in DOMAIN Normalized(h) : Normalized(h)[q] = h[q]
  BY NormalizedIsPart
<1> QED  BY <1>6, <1>7, <1>8, <1>9 DEF AllCarry, OfAsked

-----------------------------------------------------------------------------
(***************************************************************************)
(* What steps keep of the store.                                           *)
(***************************************************************************)
Growing ==
  /\ registry' = registry
  /\ Len(incs) \in Nat /\ Len(incs') \in Nat /\ Len(incs) <= Len(incs')
  /\ \A i \in 1..Len(incs) : incs'[i] = incs[i]

LEMMA NothingGrows ==
  ASSUME TypeOK, incs' = incs, registry' = registry
  PROVE  Growing
<1>1. Len(incs) \in Nat  BY DEF TypeOK
<1> QED  BY <1>1 DEF Growing

\* What is filed stays.
LEMMA FiledStays ==
  ASSUME Growing, NEW p, NEW v, NEW d, Filed(registry, incs, p, v, d)
  PROVE  Filed(registry', incs', p, v, d)
<1>1. PICK i \in 1..Len(incs) :
        /\ SameTerms(incs[i].terms, Terms(registry, p, v, d))
        /\ incs[i].edge = <<p, v, d>> \/ Requires(registry, p, v)[d].set = {}
  BY DEF Filed
<1>2. i \in 1..Len(incs') /\ incs'[i] = incs[i] /\ registry' = registry  BY DEF Growing
<1>3. SameTerms(incs'[i].terms, Terms(registry', p, v, d))  BY <1>1, <1>2
<1>4. incs'[i].edge = <<p, v, d>> \/ Requires(registry', p, v)[d].set = {}  BY <1>1, <1>2
<1> QED  BY <1>2, <1>3, <1>4 DEF Filed

\* The dependencies of no version are being added before the step or after it.
LEMMA StoreKeeps ==
  ASSUME Carriers, Affirmed, Recorded, ~Adding, ~Adding', Growing, asked' = asked,
         \A i \in 1..Len(incs') : i \notin 1..Len(incs) =>
           AllCarry(incs'[i].terms) /\ OfAsked(registry, asked, incs'[i].terms),
         AllCarry(conflict'.terms), OfAsked(registry, asked, conflict'.terms),
         \A i \in 1..Len(asg') : Carries(asg'[i].term)
  PROVE  Carriers' /\ Affirmed' /\ Fresh' /\ Recorded'
<1>1. registry' = registry /\ \A i \in 1..Len(incs) : incs'[i] = incs[i]  BY DEF Growing
<1>2. Carriers'
  <2>1. \A i \in 1..Len(incs') : AllCarry(incs'[i].terms)  BY <1>1 DEF Carriers
  <2> QED  BY <2>1 DEF Carriers
<1>3. Affirmed'
  <2>1. \A i \in 1..Len(incs') : OfAsked(registry', asked', incs'[i].terms)  BY <1>1 DEF Affirmed
  <2>2. OfAsked(registry', asked', conflict'.terms)  BY <1>1
  <2>3. \A p \in Names, v \in Versions : <<p, v>> \in asked' => v \in Published(registry', p)  BY <1>1 DEF Affirmed
  <2> QED  BY <2>1, <2>2, <2>3 DEF Affirmed
<1>4. Fresh'  BY DEF Fresh
<1>5. Recorded'
  <2> SUFFICES ASSUME NEW p \in Names, NEW v \in Versions, NEW d \in Names,
                      <<p, v>> \in asked', d \in DOMAIN Requires(registry', p, v)
               PROVE  Filed(registry', incs', p, v, d)
    BY DEF Recorded
  <2>1. Filed(registry, incs, p, v, d)  BY <1>1 DEF Recorded, ToCome
  <2> QED  BY <2>1, FiledStays
<1> QED  BY <1>2, <1>3, <1>4, <1>5

\* Nothing is added.
LEMMA StoreStays ==
  ASSUME TypeOK, Carriers, Affirmed, Recorded, ~Adding, ~Adding', UNCHANGED <<registry, incs, asked>>,
         AllCarry(conflict'.terms), OfAsked(registry, asked, conflict'.terms),
         \A i \in 1..Len(asg') : Carries(asg'[i].term)
  PROVE  Carriers' /\ Affirmed' /\ Fresh' /\ Recorded'
<1>1. Growing /\ \A i \in 1..Len(incs') : i \in 1..Len(incs)  BY NothingGrows
<1> QED  BY <1>1, StoreKeeps

\* What is added says nothing positive that was not asked for.
LEMMA AddedIsAffirmed ==
  ASSUME IInv, NEW f, IsTerms(f), AllCarry(f), OfAsked(registry, asked, f), NEW e \in Edges \cup {None},
         incs' = Added(f, e), registry' = registry
  PROVE  /\ Growing
         /\ \A i \in 1..Len(incs') : i \notin 1..Len(incs) =>
              AllCarry(incs'[i].terms) /\ OfAsked(registry, asked, incs'[i].terms)
<1>1. /\ Len(incs) \in Nat /\ Len(incs') \in Nat /\ Len(incs) <= Len(incs')
      /\ \A i \in 1..Len(incs) : incs'[i] = incs[i]
      /\ \A i \in 1..Len(incs') : i \notin 1..Len(incs) => incs'[i].terms = f
  BY AddedIsStored DEF IInv
<1>2. Growing  BY <1>1 DEF Growing
<1> QED  BY <1>1, <1>2

LEMMA NoConflictSays ==
  AllCarry(NoConflict.terms) /\ \A r, a : OfAsked(r, a, NoConflict.terms)
<1>1. DOMAIN NoConflict.terms = {}  BY DEF NoConflict
<1> QED  BY <1>1 DEF AllCarry, OfAsked

-----------------------------------------------------------------------------
(***************************************************************************)
(* What steps keep of the partial solution.                                *)
(***************************************************************************)
\* d is a dependency of the version v of p that assignment k decides.
DependsOn(r, s, k, p, v, d) ==
  s[k].cause = 0 /\ s[k].pkg = p /\ s[k].term.single = v /\ d \in DOMAIN Requires(r, p, v)

\* What propagation was still to look at, it is, unless it found it met.
Followed ==
  \A k \in 1..Len(asg), p \in Names, v \in Versions, d \in Names :
    DependsOn(registry, asg, k, p, v, d) /\ asg[k].level = level /\ Pending(p, v, d) =>
      Meets(asg', level, Requires(registry, p, v)[d], d) \/ Pending(p, v, d)'

\* More assignments leave less.
LEMMA MeetsStays ==
  ASSUME NEW s, NEW t, Len(s) \in Nat, Len(t) \in Nat, Len(s) <= Len(t), \A i \in 1..Len(s) : t[i] = s[i],
         NEW l, NEW c, NEW d, Meets(s, l, c, d)
  PROVE  Meets(t, l, c, d)
<1>1. c.set # {}  BY DEF Meets
<1>2. ASSUME NEW x \in Points, \A j \in 1..Len(t) : t[j].pkg = d /\ t[j].level <= l => Admits(t[j].term, x)
      PROVE  x \in c.set
  <2>1. \A j \in 1..Len(s) : j \in 1..Len(t) /\ t[j] = s[j]  OBVIOUS
  <2>2. \A j \in 1..Len(s) : s[j].pkg = d /\ s[j].level <= l => Admits(s[j].term, x)  BY <1>2, <2>1
  <2> QED  BY <2>2 DEF Meets
<1> QED  BY <1>1, <1>2 DEF Meets

\* A step that leaves the assignments alone.
LEMMA SolutionStays ==
  ASSUME Decisive, Levels, Settled, Followed, UNCHANGED <<registry, asg, level>>, asked \subseteq asked'
  PROVE  Decisive' /\ Levels' /\ Settled'
<1>1. Decisive'
  <2>1. \A p, v : Agrees(asg', p, v) <=> Agrees(asg, p, v)  BY DEF Agrees
  <2> QED  BY <2>1 DEF Decisive
<1>2. Levels'  BY DEF Levels
<1>3. Settled'
  <2> SUFFICES ASSUME NEW k \in 1..Len(asg), NEW p \in Names, NEW v \in Versions, NEW d \in Names,
                      asg[k].cause = 0, asg[k].pkg = p, asg[k].term.single = v, d \in DOMAIN Requires(registry, p, v)
               PROVE  \/ Meets(asg', asg[k].level, Requires(registry, p, v)[d], d)
                      \/ asg[k].level = level /\ Pending(p, v, d)'
    BY DEF Settled
  <2>1. CASE Meets(asg, asg[k].level, Requires(registry, p, v)[d], d)  BY <2>1
  <2>2. CASE asg[k].level = level /\ Pending(p, v, d)
    BY <2>2 DEF Followed, DependsOn
  <2> QED  BY <2>1, <2>2 DEF Settled
<1> QED  BY <1>1, <1>2, <1>3

\* A step that derives an assignment of a package that is open.
LEMMA DerivedKeeps ==
  ASSUME IInv, Decisive, Levels, Settled, Followed, UNCHANGED <<registry, level, asked>>,
         NEW p \in Names, NEW t \in Term, NEW k \in Nat, k # 0, NEW u \in Term, Relation(asg, p, u) = "open",
         asg' = Assign(asg, p, t, level, k)
  PROVE  Decisive' /\ Levels' /\ Settled'
<1>1. TypeOK /\ level \in Nat  BY DEF IInv, TypeOK
<1>2. /\ Len(asg) \in Nat /\ Len(asg') = Len(asg) + 1
      /\ \A i \in 1..Len(asg) : asg'[i] = asg[i]
      /\ \A i \in 1..Len(asg') : i \in 1..Len(asg) \/ i = Len(asg')
      /\ asg'[Len(asg')].pkg = p /\ asg'[Len(asg')].term = t
      /\ asg'[Len(asg')].level = level /\ asg'[Len(asg')].cause = k
  BY <1>1, AssignAppends
<1>3. \A i \in 1..Len(asg) : asg[i].cause = 0 => asg[i].pkg # p  BY <1>1, OpenIsUndecided
<1>4. Decisive'
  <2> SUFFICES ASSUME NEW i \in 1..Len(asg'), asg'[i].cause = 0
               PROVE  LET v == asg'[i].term.single IN
                        /\ v \in Versions /\ asg'[i].term = Exactly(v) /\ <<asg'[i].pkg, v>> \in asked'
                        /\ Agrees(asg', asg'[i].pkg, v)
    BY DEF Decisive
  <2> DEFINE v == asg'[i].term.single
             q == asg'[i].pkg
  <2>1. i \in 1..Len(asg) /\ asg'[i] = asg[i]  BY <1>2
  <2>2. v \in Versions /\ asg'[i].term = Exactly(v) /\ <<q, v>> \in asked /\ Agrees(asg, q, v) /\ q # p
    BY <1>3, <2>1 DEF Decisive
  <2> HIDE DEF v, q
  <2>3. Agrees(asg', q, v)  BY <1>2, <2>2 DEF Agrees
  <2> QED  BY <2>2, <2>3 DEF v, q
<1>5. Levels'
  <2>1. \A i \in 1..Len(asg) : asg[i].level \in Nat  BY <1>1, AssignmentParts
  <2>2. \A i \in 1..Len(asg') : asg'[i].level <= level  BY <1>1, <1>2 DEF Levels
  <2>3. \A i, j \in 1..Len(asg') : i <= j => asg'[i].level <= asg'[j].level
    BY <1>1, <1>2, <2>2 DEF Levels
  <2>4. \A i, j \in 1..Len(asg') : i < j /\ asg'[j].cause = 0 /\ asg'[j].pkg # Root => asg'[i].level < asg'[j].level
    BY <1>2 DEF Levels
  <2>5. asg'[1].cause # 0
    <3>1. CASE asg = <<>>  BY <1>2, <3>1
    <3>2. CASE asg # <<>>
      <4>1. Len(asg) # 0
        <5>1. asg \in Seq(Assignment)  BY <1>1 DEF TypeOK
        <5> QED  BY <3>2, <5>1
      <4> QED  BY <1>2, <3>2, <4>1 DEF Levels
    <3> QED  BY <3>1, <3>2
  <2> QED  BY <2>2, <2>3, <2>4, <2>5 DEF Levels
<1>6. Settled'
  <2> SUFFICES ASSUME NEW i \in 1..Len(asg'), NEW q \in Names, NEW v \in Versions, NEW d \in Names,
                      asg'[i].cause = 0, asg'[i].pkg = q, asg'[i].term.single = v, d \in DOMAIN Requires(registry, q, v)
               PROVE  \/ Meets(asg', asg'[i].level, Requires(registry, q, v)[d], d)
                      \/ asg'[i].level = level /\ Pending(q, v, d)'
    BY DEF Settled
  <2>1. i \in 1..Len(asg) /\ asg'[i] = asg[i]  BY <1>2
  <2>2. DependsOn(registry, asg, i, q, v, d)  BY <2>1 DEF DependsOn
  <2>3. CASE Meets(asg, asg[i].level, Requires(registry, q, v)[d], d)
    <3>1. Len(asg) <= Len(asg') /\ Len(asg') \in Nat  BY <1>2
    <3>2. Meets(asg', asg[i].level, Requires(registry, q, v)[d], d)  BY <1>2, <2>3, <3>1, MeetsStays
    <3> QED  BY <2>1, <3>2
  <2>4. CASE asg[i].level = level /\ Pending(q, v, d)
    BY <2>1, <2>2, <2>4 DEF Followed
  <2> QED  BY <2>1, <2>3, <2>4 DEF Settled
<1> QED  BY <1>4, <1>5, <1>6

-----------------------------------------------------------------------------
(***************************************************************************)
(* Unit propagation.                                                       *)
(***************************************************************************)
\* What a decision needs is filed, once it is taken.
LEMMA DecidedIsFiled ==
  ASSUME Recorded, Decisive, pc # "depend", NEW k \in 1..Len(asg), NEW p \in Names, NEW v \in Versions, NEW d \in Names,
         DependsOn(registry, asg, k, p, v, d)
  PROVE  Filed(registry, incs, p, v, d)
<1>1. <<p, v>> \in asked /\ d \in DOMAIN Requires(registry, p, v)  BY DEF Decisive, DependsOn
<1>2. ~ToCome(p, v, d)  BY DEF ToCome, Adding
<1> QED  BY <1>1, <1>2 DEF Recorded

\* A step that assigns nothing, and adds nothing.
LEMMA QuietKeeps ==
  ASSUME IInv, RInv, Followed, UNCHANGED <<registry, incs, asg, level, asked>>,
         pc # "depend", pc' # "depend", AllCarry(conflict'.terms), OfAsked(registry, asked, conflict'.terms)
  PROVE  RInv'
<1>1. ~Adding /\ ~Adding'  BY DEF Adding
<1>2. Carriers' /\ Affirmed' /\ Fresh' /\ Recorded'
  <2>1. \A i \in 1..Len(asg') : Carries(asg'[i].term)  BY DEF RInv, Carriers
  <2> QED  BY <1>1, <2>1, StoreStays DEF RInv, IInv
<1>3. Decisive' /\ Levels' /\ Settled'  BY SolutionStays DEF RInv
<1>4. Deciding'  BY DEF Deciding
<1> QED  BY <1>2, <1>3, <1>4 DEF RInv

\* Nothing is pending.
LEMMA NothingPends ==
  ASSUME pc \in {"derive", "decide", "depend", "done", "gaveup", "aborted"}
  PROVE  Followed
BY DEF Followed, Pending

LEMMA PopFollows ==
  ASSUME IInv, RInv, Pop
  PROVE  RInv'
<1>1. PICK q \in changed : pkg' = q /\ changed' = changed \ {q}  BY DEF Pop
<1>2. pc = "propagate" /\ pc' = "scan" /\ at' = Len(incs)
      /\ UNCHANGED <<registry, incs, asg, level, asked, conflict>>
  BY DEF Pop, picked
<1>3. Followed
  <2> SUFFICES ASSUME NEW k \in 1..Len(asg), NEW p \in Names, NEW v \in Versions, NEW d \in Names,
                      DependsOn(registry, asg, k, p, v, d), Pending(p, v, d)
               PROVE  Pending(p, v, d)'
    BY DEF Followed
  <2>1. p \in changed  BY <1>2 DEF Pending
  <2>2. CASE p # q  BY <1>1, <1>2, <2>1, <2>2 DEF Pending
  <2>3. CASE p = q
    <3>1. Filed(registry, incs, p, v, d)  BY <1>2, DecidedIsFiled DEF RInv
    <3>2. PICK i \in 1..Len(incs) : SameTerms(incs[i].terms, Terms(registry, p, v, d))  BY <3>1 DEF Filed
    <3>3. i \in 1..at' /\ SameTerms(incs'[i].terms, Terms(registry', p, v, d))  BY <1>2, <3>2
    <3> QED  BY <1>1, <1>2, <2>3, <3>3 DEF Pending
  <2> QED  BY <2>2, <2>3
<1>4. AllCarry(conflict'.terms) /\ OfAsked(registry, asked, conflict'.terms)
  BY <1>2 DEF RInv, Carriers, Affirmed
<1> QED  BY <1>2, <1>3, <1>4, QuietKeeps

\* What the scan has passed told nothing of a decision: it is met.
LEMMA PassedIsMet ==
  ASSUME IInv, RInv, pc = "scan", NEW k \in 1..Len(asg), NEW p \in Names, NEW v \in Versions, NEW d \in Names,
         DependsOn(registry, asg, k, p, v, d), p = pkg,
         NEW i \in 1..at, SameTerms(incs[i].terms, Terms(registry, p, v, d)), ~Telling(i)
  PROVE  Meets(asg, level, Requires(registry, p, v)[d], d)
<1>1. i \in 1..Len(incs)  BY DEF IInv, TypeOK
<1>2. asg[k].cause = 0 /\ asg[k].pkg = p /\ asg[k].term.single = v /\ d \in DOMAIN Requires(registry, p, v)
  BY DEF DependsOn
<1> QED  BY <1>1, <1>2, NotTellingMeets DEF IInv, RInv

LEMMA ScanEndsFollows ==
  ASSUME IInv, RInv, ScanEnds
  PROVE  RInv'
<1>1. /\ pc = "scan" /\ pc' = "propagate" /\ \A i \in 1..at : ~Telling(i)
      /\ UNCHANGED <<registry, incs, asg, level, asked, changed, conflict>>
  BY DEF ScanEnds, picked, search
<1>2. Followed
  <2> SUFFICES ASSUME NEW k \in 1..Len(asg), NEW p \in Names, NEW v \in Versions, NEW d \in Names,
                      DependsOn(registry, asg, k, p, v, d), Pending(p, v, d)
               PROVE  Meets(asg', level, Requires(registry, p, v)[d], d) \/ Pending(p, v, d)'
    BY DEF Followed
  <2>1. CASE p \in changed  BY <1>1, <2>1 DEF Pending
  <2>2. ASSUME pkg = p, NEW i \in 1..at, SameTerms(incs[i].terms, Terms(registry, p, v, d))
        PROVE  Meets(asg', level, Requires(registry, p, v)[d], d)
    <3>1. Meets(asg, level, Requires(registry, p, v)[d], d)  BY <1>1, <2>2, PassedIsMet
    <3> QED  BY <1>1, <3>1
  <2> QED  BY <1>1, <2>1, <2>2 DEF Pending
<1>3. AllCarry(conflict'.terms) /\ OfAsked(registry, asked, conflict'.terms)
  BY <1>1 DEF RInv, Carriers, Affirmed
<1> QED  BY <1>1, <1>2, <1>3, QuietKeeps

LEMMA PropagationEndsFollows ==
  ASSUME IInv, RInv, PropagationEnds
  PROVE  RInv'
<1>1. /\ pc = "propagate" /\ pc' = "decide" /\ changed = {}
      /\ UNCHANGED <<registry, incs, asg, level, asked, changed, conflict>>
  BY DEF PropagationEnds, picked, search
<1>2. Followed  BY <1>1 DEF Followed, Pending
<1>3. AllCarry(conflict'.terms) /\ OfAsked(registry, asked, conflict'.terms)
  BY <1>1 DEF RInv, Carriers, Affirmed
<1> QED  BY <1>1, <1>2, <1>3, QuietKeeps

\* What is derived of a dependency that propagation looks at meets it.
LEMMA UnitMeets ==
  ASSUME IInv, RInv, NEW k \in 1..Len(asg), NEW p \in Names, NEW v \in Versions, NEW d \in Names,
         DependsOn(registry, asg, k, p, v, d),
         NEW i \in 1..Len(incs), SameTerms(incs[i].terms, Terms(registry, p, v, d)),
         NEW q \in DOMAIN incs[i].terms, Unit(incs[i].terms, q), NEW j \in Nat,
         asg' = Assign(asg, q, Negate(incs[i].terms[q]), level, j)
  PROVE  Meets(asg', level, Requires(registry, p, v)[d], d)
<1> DEFINE f == incs[i].terms
           c == Requires(registry, p, v)[d]
<1>1. TypeOK /\ level \in Nat /\ Decisive  BY DEF IInv, TypeOK, RInv
<1>2. asg[k].cause = 0 /\ asg[k].pkg = p /\ asg[k].term.single = v /\ d \in DOMAIN Requires(registry, p, v)
  BY DEF DependsOn
<1>3. Shape(f, p, v, d, c)  BY <1>1, <1>2, TermsShape
<1>4. \A x \in DOMAIN f : x \in Names /\ f[x] \in Term  BY <1>1 DEF TypeOK, IsTerms
<1>5. q \in DOMAIN f /\ Relation(asg, q, f[q]) = "open"  BY DEF Unit, AlmostSatisfied
<1>6. asg' = Assign(asg, q, Negate(f[q]), level, j)  OBVIOUS
<1> HIDE DEF f, c
<1>7. p \in DOMAIN f /\ f[p].pos /\ f[p].set = {Point[v]} /\ d # p
      /\ DOMAIN f = (IF c.set = {} THEN {p} ELSE {p, d})
      /\ (c.set # {} => ~f[d].pos /\ f[d].set = c.set)
  BY <1>3 DEF Shape
<1>8. Relation(asg, p, f[p]) = "satisfied"
  <2>1. Admits(f[p], Point[v])  BY <1>7 DEF Admits
  <2>2. f[p] \in Term  BY <1>4, <1>7
  <2> QED  BY <1>1, <1>2, <2>1, <2>2, DecidedRelation
<1>9. q \in Names /\ Negate(f[q]) \in Term /\ Negate(f[q]).pos = ~f[q].pos /\ Negate(f[q]).set = f[q].set
  BY <1>4, <1>5 DEF Negate, Term
<1>10. Len(asg') \in 1..Len(asg') /\ asg'[Len(asg')].pkg = q /\ asg'[Len(asg')].term = Negate(f[q])
       /\ asg'[Len(asg')].level = level
  <2> DEFINE t == Negate(f[q])
  <2>1. t \in Term /\ asg' = Assign(asg, q, t, level, j)  BY <1>6, <1>9
  <2> HIDE DEF t
  <2>2. /\ Len(asg) \in Nat /\ Len(asg') = Len(asg) + 1
        /\ asg'[Len(asg')].pkg = q /\ asg'[Len(asg')].term = t /\ asg'[Len(asg')].level = level
    BY <1>1, <1>9, <2>1, AssignAppends
  <2>3. Len(asg') \in 1..Len(asg')  BY <2>2
  <2>4. asg'[Len(asg')].term = Negate(f[q])  BY <2>2 DEF t
  <2> QED  BY <2>2, <2>3, <2>4
<1>11. q = d /\ c.set # {}  BY <1>5, <1>7, <1>8
<1>12. asg'[Len(asg')].term.pos /\ asg'[Len(asg')].term.set = c.set /\ level <= level
  <2>1. Negate(f[q]).pos /\ Negate(f[q]).set = c.set  BY <1>7, <1>9, <1>11
  <2> QED  BY <1>1, <1>10, <2>1
<1>13. Meets(asg', level, c, d)  BY <1>10, <1>11, <1>12 DEF Meets, Admits
<1> QED  BY <1>13 DEF c

LEMMA PropagateFollows ==
  ASSUME IInv, RInv, Propagate
  PROVE  RInv'
<1>1. PICK i \in 1..at : LET f == incs[i].terms IN
        /\ Newest(i)
        /\ \E q \in DOMAIN f :
             /\ Unit(f, q)
             /\ asg' = Assign(asg, q, Negate(f[q]), level, i)
             /\ changed' = changed \cup {q}
        /\ at' = i - 1
  BY DEF Propagate
<1> DEFINE f == incs[i].terms
<1>2. PICK q \in DOMAIN f : /\ Unit(f, q)
                            /\ asg' = Assign(asg, q, Negate(f[q]), level, i)
                            /\ changed' = changed \cup {q}
  BY <1>1
<1>3. /\ pc = "scan" /\ pc' = "scan" /\ at' = i - 1
      /\ UNCHANGED <<registry, incs, level, asked, pkg, conflict>>
  BY <1>1 DEF Propagate, picked
<1>4. TypeOK /\ at \in 0..Len(incs) /\ level \in Nat  BY DEF IInv, TypeOK
<1>5. i \in 1..Len(incs) /\ i \in Nat /\ i # 0  BY <1>4
<1>6. q \in Names /\ f[q] \in Term /\ Carries(f[q])  BY <1>4, <1>5 DEF TypeOK, IsTerms, RInv, Carriers, AllCarry
<1>7. Negate(f[q]) \in Term /\ Carries(Negate(f[q]))  BY <1>6, NegateCarries
<1>8. Relation(asg, q, f[q]) = "open"  BY <1>2 DEF Unit, AlmostSatisfied
<1>9. /\ Len(asg) \in Nat /\ Len(asg') = Len(asg) + 1 /\ Len(asg') \in Nat /\ Len(asg) <= Len(asg')
      /\ \A j \in 1..Len(asg) : asg'[j] = asg[j]
      /\ \A j \in 1..Len(asg') : j \in 1..Len(asg) \/ j = Len(asg')
      /\ asg'[Len(asg')].term = Negate(f[q])
  BY <1>2, <1>4, <1>5, <1>6, <1>7, AssignAppends
<1>10. Followed
  <2> SUFFICES ASSUME NEW k \in 1..Len(asg), NEW p \in Names, NEW v \in Versions, NEW d \in Names,
                      DependsOn(registry, asg, k, p, v, d), Pending(p, v, d)
               PROVE  Meets(asg', level, Requires(registry, p, v)[d], d) \/ Pending(p, v, d)'
    BY DEF Followed
  <2>1. CASE p \in changed  BY <1>2, <1>3, <2>1 DEF Pending
  <2>2. ASSUME pkg = p, NEW j \in 1..at, SameTerms(incs[j].terms, Terms(registry, p, v, d))
        PROVE  Meets(asg', level, Requires(registry, p, v)[d], d) \/ Pending(p, v, d)'
    <3>1. CASE j < i
      <4>1. j \in 1..at' /\ SameTerms(incs'[j].terms, Terms(registry', p, v, d))  BY <1>3, <1>5, <2>2, <3>1
      <4> QED  BY <1>3, <2>2, <4>1 DEF Pending
    <3>2. CASE j = i
      BY <1>2, <1>5, <2>2, <3>2, UnitMeets
    <3>3. CASE i < j
      <4>1. j \in (i + 1)..at  BY <1>5, <3>3
      <4>2. ~Telling(j)  BY <1>1, <4>1 DEF Newest
      <4>3. Meets(asg, level, Requires(registry, p, v)[d], d)  BY <1>3, <2>2, <4>2, PassedIsMet
      <4> QED  BY <1>9, <4>3, MeetsStays
    <3>4. j \in Nat  BY <2>2
    <3> QED  BY <1>5, <3>1, <3>2, <3>3, <3>4
  <2> QED  BY <1>3, <2>1, <2>2 DEF Pending
<1>11. Decisive' /\ Levels' /\ Settled'
  BY <1>2, <1>3, <1>5, <1>6, <1>7, <1>8, <1>10, DerivedKeeps DEF RInv
<1>12. Carriers' /\ Affirmed' /\ Fresh' /\ Recorded'
  <2>1. \A j \in 1..Len(asg') : Carries(asg'[j].term)  BY <1>7, <1>9 DEF RInv, Carriers
  <2>2. ~Adding /\ ~Adding'  BY <1>3 DEF Adding
  <2>3. AllCarry(conflict'.terms) /\ OfAsked(registry, asked, conflict'.terms)
    BY <1>3 DEF RInv, Carriers, Affirmed
  <2> QED  BY <1>3, <1>4, <2>1, <2>2, <2>3, StoreStays DEF RInv
<1>13. Deciding'  BY <1>3 DEF Deciding
<1> QED  BY <1>11, <1>12, <1>13 DEF RInv

-----------------------------------------------------------------------------
(***************************************************************************)
(* Conflict resolution.                                                    *)
(***************************************************************************)
LEMMA ConflictFollows ==
  ASSUME IInv, RInv, Conflict
  PROVE  RInv'
<1>1. PICK i \in 1..at : conflict' = [terms |-> incs[i].terms, index |-> i]  BY DEF Conflict
<1>2. pc = "scan" /\ pc' = "resolve" /\ UNCHANGED <<registry, incs, asg, level, asked>>  BY DEF Conflict
<1>3. i \in 1..Len(incs)  BY <1>1 DEF IInv, TypeOK
<1>4. conflict'.terms = incs[i].terms  BY <1>1
<1>5. AllCarry(conflict'.terms) /\ OfAsked(registry, asked, conflict'.terms)
  BY <1>3, <1>4 DEF RInv, Carriers, Affirmed
<1>6. Followed  BY <1>2 DEF Followed, Pending
<1> QED  BY <1>2, <1>5, <1>6, QuietKeeps

LEMMA ResolutionStopsFollows ==
  ASSUME IInv, RInv, ResolutionStops
  PROVE  RInv'
<1>1. /\ pc = "resolve" /\ pc' \in {"failed", "bug"} /\ conflict' = NoConflict
      /\ UNCHANGED <<registry, incs, asg, level, asked>>
  BY DEF ResolutionStops, Stop, picked
<1>2. AllCarry(conflict'.terms) /\ OfAsked(registry, asked, conflict'.terms)  BY <1>1, NoConflictSays
<1>3. Followed  BY <1>1 DEF Followed, Pending
<1> QED  BY <1>1, <1>2, <1>3, QuietKeeps

LEMMA MergeFollows ==
  ASSUME IInv, RInv, Merge
  PROVE  RInv'
<1>1. PICK i \in Satisfiers(conflict.terms) :
        /\ ~ShouldBackjump(i, PrevLevel(conflict.terms, i))
        /\ conflict' = [terms |-> Resolvent(conflict.terms, incs[asg[i].cause].terms, asg[i].pkg, asg[i].term),
                        index |-> 0]
  BY DEF Merge
<1> DEFINE f == conflict.terms
           p == asg[i].pkg
           t == asg[i].term
           g == incs[asg[i].cause].terms
<1>2. i \in 1..Len(asg) /\ p \in DOMAIN f  BY SatisfierAssigns
<1>3. TypeOK  BY DEF IInv
<1>4. t \in Term /\ Carries(t)  BY <1>2, <1>3, AssignmentParts DEF RInv, Carriers
<1>5. asg[i].cause # 0  BY <1>1 DEF ShouldBackjump
<1>6. asg[i].cause \in 1..Len(incs) /\ p \in DOMAIN g /\ Opposite(t, g[p])
  BY <1>2, <1>5 DEF IInv, Causes
<1>7. IsTerms(g) /\ AllCarry(g) /\ OfAsked(registry, asked, g)
  BY <1>3, <1>6 DEF TypeOK, RInv, Carriers, Affirmed
<1>8. IsTerms(f) /\ AllCarry(f) /\ OfAsked(registry, asked, f)
  BY <1>3 DEF TypeOK, RInv, Carriers, Affirmed
<1> DEFINE h == Resolvent(f, g, p, t)
<1>9. AllCarry(h) /\ OfAsked(registry, asked, h)
  <2> HIDE DEF f, g, p, t
  <2> QED  BY <1>2, <1>4, <1>6, <1>7, <1>8, ResolventKeeps
<1>10. conflict'.terms = h  BY <1>1
<1> HIDE DEF h
<1>11. pc = "resolve" /\ pc' = "resolve" /\ UNCHANGED <<registry, incs, asg, level, asked>>
  BY DEF Merge, picked
<1>12. Followed  BY <1>11 DEF Followed, Pending
<1> QED  BY <1>9, <1>10, <1>11, <1>12, QuietKeeps

\* The root's version satisfies a term on the root at once.
LEMMA RootAtOnce ==
  ASSUME IInv, Levels, NEW f, RootTrue(f), NEW i \in Satisfiers(f), asg[i].cause = 0
  PROVE  asg[i].pkg # Root
<1> SUFFICES ASSUME asg[i].pkg = Root PROVE FALSE
  OBVIOUS
<1>1. i \in 1..Len(asg) /\ Root \in DOMAIN f  BY SatisfierAssigns
<1>2. asg \in Seq(Assignment) /\ Len(asg) \in Nat  BY DEF IInv, TypeOK
<1>3. asg # <<>>  BY <1>1, <1>2
<1>4. i # 1 /\ asg[1].pkg = Root /\ asg[1].term.pos /\ asg[1].term.set = ThePoint
  BY <1>1, <1>2, <1>3 DEF Levels, IInv, RootFirst
<1>5. 1 \in Of(asg, i - 1, Root)  BY <1>1, <1>2, <1>4 DEF Of
<1>6. i \in Firsts(Len(asg), f, 0)  BY DEF Satisfiers, Latest
<1>7. \A k \in Of(asg, i - 1, Root) : ~Entails(Held(0, Root, k), f[Root])  BY <1>6 DEF Firsts
<1>8. ~Entails(Accum(asg, 1, Root), f[Root])  BY <1>5, <1>7 DEF Held
<1>9. f[Root].set = ThePoint /\ f[Root].pos  BY <1>1 DEF RootTrue
<1>10. Accum(asg, 1, Root).pos /\ Accum(asg, 1, Root).set \subseteq ThePoint
  <2> DEFINE held == {j \in Of(asg, 1, Root) : asg[j].term.pos}
             out  == UNION {asg[j].term.set : j \in Of(asg, 1, Root) \ held}
             both == {x \in Points \ out : \A j \in held : x \in asg[j].term.set}
  <2>1. 1 \in held  BY <1>4 DEF Of
  <2>2. Accum(asg, 1, Root) = Pos(both, None)  BY <2>1 DEF Accum
  <2>3. both \subseteq ThePoint  BY <1>4, <2>1
  <2> HIDE DEF both
  <2> QED  BY <2>2, <2>3 DEF Pos
<1> QED  BY <1>8, <1>9, <1>10 DEF Entails

\* What is undone is a level at least.
LEMMA JumpsBack ==
  ASSUME IInv, Levels, NEW f, RootTrue(f), NEW i \in Satisfiers(f), ShouldBackjump(i, PrevLevel(f, i))
  PROVE  PrevLevel(f, i) # level
<1> DEFINE prev == PrevLevel(f, i)
           before == Latest(Firsts(i - 1, f, i))
           j == CHOOSE m \in before : TRUE
<1> SUFFICES ASSUME prev = level PROVE FALSE
  OBVIOUS
<1>1. i \in 1..Len(asg)  BY SatisfierAssigns
<1>2. TypeOK /\ asg \in Seq(Assignment) /\ Len(asg) \in Nat /\ level \in Nat  BY DEF IInv, TypeOK
<1>3. \A m \in 1..Len(asg) : asg[m].level \in Nat  BY <1>2, AssignmentParts
<1>4. prev = IF before = {} THEN 0 ELSE asg[j].level  BY DEF PrevLevel
<1>5. before # {} => j \in 1..(i - 1)
  <2>1. before # {} => j \in before  OBVIOUS
  <2>2. before \subseteq 1..(i - 1)  BY DEF Latest, Firsts
  <2> QED  BY <2>1, <2>2
<1> HIDE DEF before, j, prev
<1>6. before # {} => j \in 1..Len(asg) /\ j < i  BY <1>1, <1>2, <1>5
<1>7. asg[i].level = level
  <2>1. asg[i].level <= level /\ asg[i].level \in Nat  BY <1>1, <1>3 DEF Levels
  <2>2. before # {} => asg[j].level <= asg[i].level /\ asg[j].level \in Nat
    BY <1>1, <1>3, <1>6 DEF Levels
  <2> QED  BY <1>2, <1>4, <2>1, <2>2
<1>8. asg[i].cause = 0  BY <1>7 DEF ShouldBackjump, prev
<1>9. asg[i].pkg # Root  BY <1>8, RootAtOnce
<1>10. \A m \in 1..Len(asg) : m < i => asg[m].level < asg[i].level  BY <1>1, <1>8, <1>9 DEF Levels
<1>11. before = {}
  <2>1. before # {} => asg[j].level < asg[i].level /\ asg[j].level \in Nat  BY <1>3, <1>6, <1>10
  <2>2. before # {} => asg[j].level = level  BY <1>4
  <2> QED  BY <1>2, <1>7, <2>1, <2>2
<1>12. asg[1].cause # 0 /\ 1 \in 1..Len(asg)
  <2>1. asg # <<>>  BY <1>1, <1>2
  <2> QED  BY <1>1, <1>2, <2>1 DEF Levels
<1>13. 1 < i  BY <1>1, <1>8, <1>12
<1>14. asg[1].level < asg[i].level /\ asg[1].level \in Nat  BY <1>3, <1>10, <1>12, <1>13
<1>15. level = 0  BY <1>4, <1>11
<1> QED  BY <1>7, <1>14, <1>15

\* What is kept meets what it met.
LEMMA BackjumpFollows ==
  ASSUME IInv, RInv, Backjump
  PROVE  RInv'
<1> DEFINE f == conflict.terms
<1>1. PICK i \in Satisfiers(f), prev \in 0..level :
        prev = PrevLevel(f, i) /\ ShouldBackjump(i, prev) /\ asg' = UpTo(prev) /\ level' = prev
  BY DEF Backjump
<1>2. pc = "resolve" /\ pc' = "derive" /\ UNCHANGED <<registry, asked>>  BY DEF Backjump, picked
<1>3. TypeOK /\ level \in Nat /\ prev \in Nat  BY <1>1 DEF IInv, TypeOK
<1>4. IsTerms(f) /\ RootTrue(f) /\ AllCarry(f) /\ OfAsked(registry, asked, f)
  BY DEF IInv, TypeOK, Resolving, RInv, Carriers, Affirmed
<1>5. prev < level
  <2>1. prev # level  BY <1>1, <1>4, JumpsBack DEF RInv
  <2> QED  BY <1>1, <1>3, <2>1
<1>6. /\ Len(asg) \in Nat /\ Len(asg') \in 0..Len(asg)
      /\ \A j \in 1..Len(asg') : asg'[j] = asg[j] /\ asg[j].level <= prev
      /\ \A j \in 1..Len(asg) : asg[j].level <= prev => j \in 1..Len(asg')
  BY <1>1, <1>3, UpToKeepsLevels DEF RInv
<1>7. \A j \in 1..Len(asg') : j \in 1..Len(asg) /\ asg[j].level \in Nat  BY <1>3, <1>6, AssignmentParts
<1>8. conflict'.terms = f
      /\ Growing
      /\ \A j \in 1..Len(incs') : j \notin 1..Len(incs) =>
           AllCarry(incs'[j].terms) /\ OfAsked(registry, asked, incs'[j].terms)
  <2>1. CASE conflict.index # 0
    <3>1. incs' = incs /\ conflict' = conflict  BY <2>1 DEF Backjump
    <3> QED  BY <1>2, <1>3, <3>1, NothingGrows
  <2>2. CASE conflict.index = 0
    <3>1. incs' = Added(f, None) /\ conflict' = [terms |-> f, index |-> Index(f)]
      BY <2>2 DEF Backjump
    <3>2. conflict'.terms = f  BY <3>1
    <3> HIDE DEF f
    <3> QED  BY <1>2, <1>4, <3>1, <3>2, AddedIsAffirmed
  <2> QED  BY <2>1, <2>2
<1> HIDE DEF f
<1>9. Carriers' /\ Affirmed' /\ Fresh' /\ Recorded'
  <2>1. ~Adding /\ ~Adding'  BY <1>2 DEF Adding
  <2>2. \A j \in 1..Len(asg') : Carries(asg'[j].term)  BY <1>6, <1>7 DEF RInv, Carriers
  <2>3. AllCarry(conflict'.terms) /\ OfAsked(registry, asked, conflict'.terms)  BY <1>4, <1>8
  <2> QED  BY <1>2, <1>8, <2>1, <2>2, <2>3, StoreKeeps DEF RInv
<1>10. Decisive'
  <2> SUFFICES ASSUME NEW k \in 1..Len(asg'), asg'[k].cause = 0
               PROVE  LET v == asg'[k].term.single IN
                        /\ v \in Versions /\ asg'[k].term = Exactly(v) /\ <<asg'[k].pkg, v>> \in asked'
                        /\ Agrees(asg', asg'[k].pkg, v)
    BY DEF Decisive
  <2> DEFINE v == asg'[k].term.single
             q == asg'[k].pkg
  <2>1. v \in Versions /\ asg'[k].term = Exactly(v) /\ <<q, v>> \in asked /\ Agrees(asg, q, v)
    BY <1>6, <1>7 DEF RInv, Decisive
  <2> HIDE DEF v, q
  <2>2. Agrees(asg', q, v)  BY <1>6, <1>7, <2>1 DEF Agrees
  <2> QED  BY <1>2, <2>1, <2>2 DEF v, q
<1>11. Deciding'  BY <1>2 DEF Deciding
<1>12. Levels'
  <2>1. Levels  BY DEF RInv
  <2>2. \A j \in 1..Len(asg') : asg'[j].level <= prev  BY <1>6
  <2>3. \A j, k \in 1..Len(asg') : j <= k => asg'[j].level <= asg'[k].level  BY <1>6, <1>7, <2>1 DEF Levels
  <2>4. \A j, k \in 1..Len(asg') : j < k /\ asg'[k].cause = 0 /\ asg'[k].pkg # Root => asg'[j].level < asg'[k].level
    BY <1>6, <1>7, <2>1 DEF Levels
  <2>5. asg' # <<>> => asg'[1].cause # 0
    <3> SUFFICES ASSUME asg' # <<>> PROVE asg'[1].cause # 0
      OBVIOUS
    <3>1. IInv'  BY BackjumpKeeps
    <3>2. asg' \in Seq(Assignment)  BY <3>1 DEF IInv, TypeOK, Assignment, Names, Term, Points
    <3>3. 1 \in 1..Len(asg')  BY <3>2
    <3>4. asg # <<>>  BY <1>6, <1>7, <3>3
    <3> QED  BY <1>6, <2>1, <3>3, <3>4 DEF Levels
  <2> QED  BY <1>1, <2>2, <2>3, <2>4, <2>5 DEF Levels
<1>13. Settled'
  <2> SUFFICES ASSUME NEW k \in 1..Len(asg'), NEW p \in Names, NEW v \in Versions, NEW d \in Names,
                      asg'[k].cause = 0, asg'[k].pkg = p, asg'[k].term.single = v, d \in DOMAIN Requires(registry', p, v)
               PROVE  Meets(asg', asg'[k].level, Requires(registry', p, v)[d], d)
    BY DEF Settled
  <2> DEFINE c == Requires(registry, p, v)[d]
             l == asg[k].level
  <2>1. k \in 1..Len(asg) /\ asg'[k] = asg[k] /\ l <= prev /\ l \in Nat  BY <1>6, <1>7
  <2>2. Meets(asg, l, c, d)  BY <1>2, <1>3, <1>5, <2>1 DEF RInv, Settled
  <2> HIDE DEF c, l
  <2>3. ASSUME NEW x \in Points, \A j \in 1..Len(asg') : asg'[j].pkg = d /\ asg'[j].level <= l => Admits(asg'[j].term, x)
        PROVE  x \in c.set
    <3>1. ASSUME NEW j \in 1..Len(asg), asg[j].pkg = d, asg[j].level <= l
          PROVE  Admits(asg[j].term, x)
      <4>1. asg[j].level \in Nat  BY <1>3, AssignmentParts
      <4>2. j \in 1..Len(asg')  BY <1>3, <1>6, <2>1, <3>1, <4>1
      <4> QED  BY <1>6, <2>3, <3>1, <4>2
    <3> QED  BY <2>2, <3>1 DEF Meets
  <2>4. Meets(asg', l, c, d)  BY <2>2, <2>3 DEF Meets
  <2> QED  BY <1>2, <2>1, <2>4 DEF c, l
<1> QED  BY <1>9, <1>10, <1>11, <1>12, <1>13 DEF RInv

LEMMA DeriveRootCauseFollows ==
  ASSUME IInv, RInv, DeriveRootCause
  PROVE  RInv'
<1> DEFINE f == conflict.terms
           k == conflict.index
<1>1. /\ pc = "derive" /\ pc' \in {"gaveup", "propagate"} /\ conflict' = NoConflict
      /\ UNCHANGED <<registry, incs, level, asked>>
  BY DEF DeriveRootCause, picked
<1>2. Followed  BY <1>1, NothingPends
<1>3. AllCarry(conflict'.terms) /\ OfAsked(registry, asked, conflict'.terms)  BY <1>1, NoConflictSays
<1>4. CASE asg' = asg  BY <1>1, <1>2, <1>3, <1>4, QuietKeeps
<1>5. ASSUME NEW p \in DOMAIN f, AlmostSatisfied(asg, f, p), asg' = Assign(asg, p, Negate(f[p]), level, k)
      PROVE  RInv'
  <2>1. TypeOK /\ level \in Nat /\ k \in Nat /\ k # 0  BY <1>1 DEF IInv, TypeOK, Resolving
  <2>2. p \in Names /\ f[p] \in Term /\ Carries(f[p])
    BY <2>1 DEF TypeOK, IsTerms, RInv, Carriers, AllCarry
  <2>3. Relation(asg, p, f[p]) = "open"  BY <1>5 DEF AlmostSatisfied
  <2> DEFINE t == Negate(f[p])
             u == f[p]
  <2>4. t \in Term /\ Carries(t)  BY <2>2, NegateCarries
  <2>5. asg' = Assign(asg, p, t, level, k) /\ u \in Term /\ Relation(asg, p, u) = "open"
    BY <1>5, <2>2, <2>3
  <2> HIDE DEF f, k, t, u
  <2>6. Decisive' /\ Levels' /\ Settled'  BY <1>1, <1>2, <2>1, <2>2, <2>4, <2>5, DerivedKeeps DEF RInv
  <2>7. /\ \A j \in 1..Len(asg) : asg'[j] = asg[j]
        /\ \A j \in 1..Len(asg') : j \in 1..Len(asg) \/ j = Len(asg')
        /\ asg'[Len(asg')].term = t
    BY <2>1, <2>2, <2>4, <2>5, AssignAppends
  <2>8. \A j \in 1..Len(asg') : Carries(asg'[j].term)  BY <2>4, <2>7 DEF RInv, Carriers
  <2>9. ~Adding /\ ~Adding'  BY <1>1 DEF Adding
  <2>10. Carriers' /\ Affirmed' /\ Fresh' /\ Recorded'
    BY <1>1, <1>3, <2>1, <2>8, <2>9, StoreStays DEF RInv
  <2>11. Deciding'  BY <1>1 DEF Deciding
  <2> QED  BY <2>6, <2>10, <2>11 DEF RInv
<1> QED  BY <1>4, <1>5 DEF DeriveRootCause

-----------------------------------------------------------------------------
(***************************************************************************)
(* Decisions.                                                              *)
(***************************************************************************)
\* A package that is pinned before its universe is fetched has one assignment
\* that says anything, and it is about the version it carries.
LEMMA PinAgrees ==
  ASSUME IInv, Carriers, NEW p \in Names, p \notin fetched, Pin(p) # None
  PROVE  Pin(p) \in Versions /\ Agrees(asg, p, Pin(p))
<1> DEFINE told == {i \in On(asg, p) : ~Tautology(asg[i].term)}
           i == CHOOSE j \in told : TRUE
           v == asg[i].term.single
<1>1. TypeOK /\ Len(asg) \in Nat  BY DEF IInv, TypeOK
<1>2. Cardinality(told) = 1 /\ Known(p).pos /\ Pin(p) = v  BY DEF Pin
<1>3. told # {}  BY <1>2, FS_EmptySet
<1>4. i \in told /\ i \in 1..Len(asg) /\ asg[i].pkg = p  BY <1>3 DEF On, Of
<1>5. \A j \in told : j = i
  <2>1. IsFiniteSet(1..Len(asg))  BY <1>1, FS_Interval
  <2>2. told \subseteq 1..Len(asg)  BY DEF On, Of
  <2>3. IsFiniteSet(told)  BY <2>1, <2>2, FS_Subset
  <2>4. {i} \subseteq told  BY <1>4
  <2>5. Cardinality({i}) = 1  BY FS_Singleton
  <2> HIDE DEF told, i
  <2>6. {i} = told  BY <1>2, <2>3, <2>4, <2>5, FS_Subset
  <2> QED  BY <2>6
<1>6. \A j \in 1..Len(asg) : asg[j].term \in Term /\ Carries(asg[j].term)
  BY <1>1, AssignmentParts DEF Carriers
<1>7. PICK j \in Of(asg, Len(asg), p) : asg[j].term.pos
  <2> DEFINE held == {j \in Of(asg, Len(asg), p) : asg[j].term.pos}
             out  == UNION {asg[j].term.set : j \in Of(asg, Len(asg), p) \ held}
  <2>1. held = {} => Known(p) = Not(out, None)  BY DEF Known, Accum
  <2>2. held # {}  BY <1>2, <2>1 DEF Not
  <2> QED  BY <2>2
<1>8. j \in told  BY <1>7 DEF On, Tautology
<1>9. j = i  BY <1>5, <1>8
<1>10. asg[i].term.pos  BY <1>7, <1>9
<1>11. v # None /\ v \in Versions /\ asg[i].term.set = {Point[v]}
  BY <1>2, <1>4, <1>6 DEF Term, Carries
<1>12. ASSUME NEW m \in 1..Len(asg), asg[m].pkg = p PROVE Admits(asg[m].term, Point[v])
  <2>1. CASE Tautology(asg[m].term)  BY <2>1 DEF Tautology, Admits
  <2>2. CASE ~Tautology(asg[m].term)
    <3>1. m \in told  BY <1>12, <2>2 DEF On, Of
    <3>2. m = i  BY <1>5, <3>1
    <3> HIDE DEF v, i
    <3> QED  BY <1>10, <1>11, <3>2 DEF Admits
  <2> QED  BY <2>1, <2>2
<1> HIDE DEF v, i, told
<1>13. Agrees(asg, p, v)  BY <1>12 DEF Agrees
<1> QED  BY <1>2, <1>11, <1>13

LEMMA AllowedAgrees ==
  ASSUME IInv, NEW p \in Names, NEW v \in Allowed(p)
  PROVE  v \in Versions /\ Agrees(asg, p, v)
<1>1. v \in Pub(p) /\ Permits(Known(p), v) /\ TypeOK  BY DEF Allowed, IInv
<1>2. v \in Versions  BY <1>1, RegistriesAssumption DEF Pub, TypeOK
<1> QED  BY <1>1, <1>2, PermittedAgrees

\* A version decided without the universe agrees with what is assigned, too.
LEMMA FastAgrees ==
  ASSUME IInv, Carriers, NEW p \in Names, Fast(p) # None
  PROVE  Fast(p) \in Versions /\ Agrees(asg, p, Fast(p))
<1>1. TypeOK  BY DEF IInv
<1>2. CASE Pin(p) # None /\ p \in fetched
  <2>1. Cardinality(Allowed(p)) = 1 /\ Pin(p) = CHOOSE v \in Allowed(p) : TRUE  BY <1>2 DEF Pin
  <2>2. Allowed(p) # {}  BY <2>1, FS_EmptySet
  <2>3. Pin(p) \in Allowed(p)  BY <2>1, <2>2
  <2>4. Fast(p) = Pin(p)  BY <1>2 DEF Fast
  <2> QED  BY <2>3, <2>4, AllowedAgrees
<1>3. CASE Pin(p) # None /\ p \notin fetched
  <2>1. Fast(p) = Pin(p)  BY <1>3 DEF Fast
  <2> QED  BY <1>3, <2>1, PinAgrees
<1>4. CASE Pin(p) = None
  <2>1. Fast(p) = Reported(registry, p) /\ Permits(Known(p), Fast(p))  BY <1>4 DEF Fast
  <2>2. Fast(p) \in Versions  BY <1>1, <2>1, RegistriesAssumption DEF TypeOK
  <2> QED  BY <1>1, <2>1, <2>2, PermittedAgrees
<1> QED  BY <1>2, <1>3, <1>4

\* Nothing speaks for a version before its dependencies are asked for.
LEMMA TryFollows ==
  ASSUME IInv, RInv, pc = "decide", NEW p \in Names, ~Decided(p), NEW v \in Versions, Agrees(asg, p, v), Try(p, v),
         UNCHANGED <<registry, asg, level, conflict>>
  PROVE  RInv'
<1>1. pkg' = p /\ pc' = "depend" /\ incs' = incs  BY DEF Try
<1>2. attempt'.ver = v /\ asked \subseteq asked' /\ <<p, v>> \in asked'
      /\ \/ attempt'.todo = {} /\ asked' = asked
         \/ /\ <<p, v>> \notin asked /\ v \in Pub(p) /\ attempt'.todo = DOMAIN Requires(registry, p, v)
            /\ asked' = asked \cup {<<p, v>>}
  <2>1. CASE <<p, v>> \in asked
    <3>1. attempt' = [ver |-> v, todo |-> {}, added |-> {}] /\ asked' = asked  BY <2>1 DEF Try
    <3> QED  BY <2>1, <3>1
  <2>2. CASE <<p, v>> \notin asked
    <3>1. /\ v \in Pub(p) /\ asked' = asked \cup {<<p, v>>}
          /\ attempt' = [ver |-> v, todo |-> DOMAIN Needs(p, v), added |-> {}]
      BY <2>2 DEF Try
    <3>2. attempt'.ver = v /\ attempt'.todo = DOMAIN Requires(registry, p, v)  BY <3>1 DEF Needs
    <3> QED  BY <2>2, <3>1, <3>2
  <2> QED  BY <2>1, <2>2
<1>3. Carriers'  BY <1>1 DEF RInv, Carriers
<1>4. Affirmed'
  <2>1. ASSUME NEW f, OfAsked(registry, asked, f) PROVE OfAsked(registry, asked', f)
    BY <1>2, <2>1 DEF OfAsked
  <2>2. \A i \in 1..Len(incs') : OfAsked(registry', asked', incs'[i].terms)
    BY <1>1, <2>1 DEF RInv, Affirmed
  <2>3. OfAsked(registry', asked', conflict'.terms)  BY <2>1 DEF RInv, Affirmed
  <2>4. \A q \in Names, w \in Versions : <<q, w>> \in asked' => w \in Published(registry', q)
    BY <1>2 DEF RInv, Affirmed, Pub
  <2> QED  BY <2>2, <2>3, <2>4 DEF Affirmed
<1>5. Fresh'
  <2> SUFFICES ASSUME attempt'.todo # {}, NEW i \in 1..Len(incs), Speaks(incs[i].terms, p, v)
               PROVE  FALSE
    BY <1>1, <1>2 DEF Fresh, Adding
  <2>1. <<p, v>> \notin asked /\ v \in Published(registry, p)  BY <1>2 DEF Pub
  <2> QED  BY <2>1 DEF RInv, Affirmed, OfAsked, Speaks
<1>6. Recorded'
  <2> SUFFICES ASSUME NEW q \in Names, NEW w \in Versions, NEW d \in Names,
                      <<q, w>> \in asked', d \in DOMAIN Requires(registry, q, w)
               PROVE  ToCome(q, w, d)' \/ Filed(registry, incs, q, w, d)
    BY <1>1 DEF Recorded
  <2>1. CASE <<q, w>> \in asked
    BY <2>1 DEF RInv, Recorded, ToCome, Adding
  <2>2. CASE <<q, w>> \notin asked
    <3>1. <<q, w>> = <<p, v>> /\ attempt'.todo = DOMAIN Requires(registry, p, v)  BY <1>2, <2>2
    <3>2. q = p /\ w = v  BY <3>1
    <3>3. d \in attempt'.todo  BY <3>1, <3>2
    <3> QED  BY <1>1, <1>2, <3>2, <3>3 DEF ToCome, Adding
  <2> QED  BY <2>1, <2>2
<1>7. Followed  BY NothingPends
<1>8. Decisive' /\ Levels' /\ Settled'  BY <1>2, <1>7, SolutionStays DEF RInv
<1>9. Deciding'
  <2>1. \A j \in 1..Len(asg) : asg[j].pkg = p => asg[j].cause # 0  BY DEF Decided, Decisions, On, Of
  <2> QED  BY <1>1, <1>2, <2>1 DEF Deciding, Agrees
<1> QED  BY <1>3, <1>4, <1>5, <1>6, <1>8, <1>9 DEF RInv

\* The leaf of a package without allowed versions names none that is published.
LEMMA NoVersionsFollows ==
  ASSUME IInv, RInv, pc = "decide", NEW p \in Pool, Allowed(p) = {}, NoVersions(p),
         UNCHANGED <<registry, asg, level, conflict>>
  PROVE  RInv'
<1> DEFINE t == IF Pub(p) = {} THEN Pos(Points, None) ELSE Known(p)
           f == [q \in {p} |-> t]
<1>1. incs' = Added(f, None) /\ pc' = "propagate" /\ asked' = asked  BY DEF NoVersions
<1>2. TypeOK /\ p \in Names /\ Known(p).pos  BY DEF IInv, Pool
<1>3. t \in Term /\ Carries(t) /\ t.pos
  <2>1. Pos(Points, None) \in Term /\ Carries(Pos(Points, None)) /\ Pos(Points, None).pos
    BY DEF Pos, Term, Carries
  <2>2. Known(p).single = None  BY DEF Known, Accum, Pos, Not
  <2>3. Known(p) \in Term /\ Carries(Known(p))  BY <1>2, <2>2, KnownIsTerm DEF Carries
  <2> QED  BY <1>2, <2>1, <2>3
<1>4. ASSUME NEW v \in Published(registry, p) PROVE Point[v] \notin t.set
  <2>1. v \in Pub(p) /\ ~Permits(Known(p), v)  BY <1>4 DEF Pub, Allowed
  <2>2. t = Known(p)  BY <2>1
  <2> HIDE DEF t
  <2> QED  BY <1>2, <2>1, <2>2 DEF Permits
<1> HIDE DEF t
<1>5. DOMAIN f = {p} /\ f[p] = t  OBVIOUS
<1> HIDE DEF f
<1>6. IsTerms(f) /\ AllCarry(f) /\ OfAsked(registry, asked, f)
  BY <1>2, <1>3, <1>4, <1>5 DEF IsTerms, AllCarry, OfAsked
<1>7. /\ Growing
      /\ \A i \in 1..Len(incs') : i \notin 1..Len(incs) =>
           AllCarry(incs'[i].terms) /\ OfAsked(registry, asked, incs'[i].terms)
  BY <1>1, <1>6, AddedIsAffirmed
<1>8. Carriers' /\ Affirmed' /\ Fresh' /\ Recorded'
  <2>1. ~Adding /\ ~Adding'  BY <1>1 DEF Adding
  <2>2. \A j \in 1..Len(asg') : Carries(asg'[j].term)  BY DEF RInv, Carriers
  <2>3. AllCarry(conflict'.terms) /\ OfAsked(registry, asked, conflict'.terms)  BY DEF RInv, Carriers, Affirmed
  <2> QED  BY <1>1, <1>7, <2>1, <2>2, <2>3, StoreKeeps DEF RInv
<1>9. Followed  BY NothingPends
<1>10. Decisive' /\ Levels' /\ Settled'  BY <1>1, <1>9, SolutionStays DEF RInv
<1>11. Deciding'  BY <1>1 DEF Deciding
<1> QED  BY <1>8, <1>10, <1>11 DEF RInv

LEMMA DecideFollows ==
  ASSUME IInv, RInv, Decide
  PROVE  RInv'
<1>1. PICK p \in Pool :
        \/ Fast(p) # None /\ Try(p, Fast(p))
        \/ \E v \in Highest(Allowed(p)) : Try(p, v)
        \/ Allowed(p) = {} /\ NoVersions(p)
  BY DEF Decide
<1>2. pc = "decide" /\ UNCHANGED <<registry, asg, level, conflict>>  BY DEF Decide
<1>3. p \in Names /\ ~Decided(p)  BY DEF Pool
<1>4. CASE Fast(p) # None /\ Try(p, Fast(p))
  <2>1. Fast(p) \in Versions /\ Agrees(asg, p, Fast(p))  BY <1>3, <1>4, FastAgrees DEF RInv
  <2> QED  BY <1>2, <1>3, <1>4, <2>1, TryFollows
<1>5. ASSUME NEW v \in Highest(Allowed(p)), Try(p, v) PROVE RInv'
  <2>1. v \in Allowed(p)  BY DEF Highest
  <2>2. v \in Versions /\ Agrees(asg, p, v)  BY <1>3, <2>1, AllowedAgrees
  <2> QED  BY <1>2, <1>3, <1>5, <2>2, TryFollows
<1>6. CASE Allowed(p) = {} /\ NoVersions(p)
  BY <1>2, <1>6, NoVersionsFollows
<1> QED  BY <1>1, <1>4, <1>5, <1>6

LEMMA AbortFollows ==
  ASSUME IInv, RInv, Abort
  PROVE  RInv'
<1>1. /\ pc = "decide" /\ pc' = "aborted" /\ conflict' = NoConflict
      /\ UNCHANGED <<registry, incs, asg, level, asked>>
  BY DEF Abort, Stop, picked
<1>2. AllCarry(conflict'.terms) /\ OfAsked(registry, asked, conflict'.terms)  BY <1>1, NoConflictSays
<1>3. Followed  BY <1>1, NothingPends
<1> QED  BY <1>1, <1>2, <1>3, QuietKeeps

\* The terms of a dependency that is added are not stored already, unless
\* nothing can meet it: what is stored for the version so far is for others.
LEMMA AddedIsFiled ==
  ASSUME IInv, RInv, pc = "depend", NEW d \in attempt.todo,
         incs' = Added(Terms(registry, pkg, attempt.ver, d), <<pkg, attempt.ver, d>>), registry' = registry,
         IsTerms(Terms(registry, pkg, attempt.ver, d)), <<pkg, attempt.ver, d>> \in Edges,
         d \in DOMAIN Requires(registry, pkg, attempt.ver), attempt.ver \in Versions
  PROVE  Filed(registry, incs', pkg, attempt.ver, d)
<1> DEFINE v == attempt.ver
           f == Terms(registry, pkg, v, d)
           c == Requires(registry, pkg, v)[d]
<1>1. TypeOK /\ pkg \in Names /\ Adding /\ attempt.todo # {}  BY DEF IInv, TypeOK, Adding
<1>2. incs' = Added(f, <<pkg, v, d>>) /\ IsTerms(f)  OBVIOUS
<1> HIDE DEF f
<1>3. CASE Stored(f) = {}
  <2> DEFINE new == [terms |-> f, edge |-> <<pkg, v, d>>]
  <2>1. incs' = Append(incs, new)  BY <1>2, <1>3 DEF Added
  <2>2. incs \in Seq({incs[i] : i \in 1..Len(incs)})  BY <1>1 DEF TypeOK
  <2>3. Len(incs) \in Nat /\ Len(incs') = Len(incs) + 1 /\ incs'[Len(incs) + 1] = new
    <3> HIDE DEF new
    <3> QED  BY <2>1, <2>2
  <2>4. SameTerms(f, Terms(registry, pkg, v, d))  BY SameAsItself DEF f
  <2>5. Len(incs') \in 1..Len(incs') /\ incs'[Len(incs')].terms = f /\ incs'[Len(incs')].edge = <<pkg, v, d>>
    BY <2>3
  <2> HIDE DEF new, v
  <2>6. Filed(registry, incs', pkg, v, d)  BY <2>4, <2>5 DEF Filed
  <2> QED  BY <2>6 DEF v
<1>4. CASE Stored(f) # {}
  <2>1. PICK i \in 1..Len(incs) : SameTerms(incs[i].terms, f)  BY <1>4 DEF Stored
  <2>2. incs' = incs  BY <1>2, <1>4 DEF Added
  <2> DEFINE g == incs[i].terms
  <2>3. SameTerms(g, Terms(registry, pkg, v, d))  BY <2>1 DEF f
  <2>4. Shape(g, pkg, v, d, c)
    <3> HIDE DEF g
    <3> QED  BY <1>1, <2>3, TermsShape
  <2>5. c.set = {}
    <3> SUFFICES ASSUME c.set # {} PROVE FALSE
      OBVIOUS
    <3>1. DOMAIN g = {pkg, d} /\ d # pkg /\ g[pkg].pos /\ g[pkg].set = {Point[v]}  BY <2>4 DEF Shape
    <3>2. Speaks(g, pkg, v)  BY <3>1 DEF Speaks
    <3>3. PICK e \in DOMAIN Requires(registry, pkg, v) \ attempt.todo : SameTerms(g, Terms(registry, pkg, v, e))
      BY <1>1, <3>2 DEF RInv, Fresh
    <3>4. Shape(g, pkg, v, e, Requires(registry, pkg, v)[e])
      <4> HIDE DEF g
      <4> QED  BY <1>1, <3>3, TermsShape
    <3>5. DOMAIN g \subseteq {pkg, e}  BY <3>4 DEF Shape
    <3>6. d = e  BY <3>1, <3>5
    <3> QED  BY <3>3, <3>6
  <2>6. Filed(registry, incs', pkg, v, d)  BY <2>1, <2>2, <2>3, <2>5 DEF Filed
  <2> QED  BY <2>6
<1> QED  BY <1>3, <1>4

LEMMA AddDependencyFollows ==
  ASSUME IInv, RInv, OneSpelling, AddDependency
  PROVE  RInv'
<1>1. PICK d \in attempt.todo : LET f == DependencyTerms(pkg, attempt.ver, d) IN
        /\ incs' = Added(f, <<pkg, attempt.ver, d>>)
        /\ attempt' = [ver |-> attempt.ver, todo |-> attempt.todo \ {d}, added |-> attempt.added \cup {Index(f)}]
  BY DEF AddDependency
<1> DEFINE v == attempt.ver
           f == DependencyTerms(pkg, v, d)
           c == Requires(registry, pkg, v)[d]
<1>2. pc = "depend" /\ pc' = "depend" /\ UNCHANGED <<registry, asg, level, asked, pkg, conflict>>
  BY DEF AddDependency, search
<1>3. attempt'.ver = v /\ attempt'.todo = attempt.todo \ {d}  BY <1>1
<1>4. TypeOK /\ pkg \in Names /\ registry \in Registries  BY DEF IInv, TypeOK
<1>5. v \in Versions /\ v \in Pub(pkg) /\ attempt.todo \subseteq DOMAIN Requires(registry, pkg, v)
      /\ <<pkg, v>> \in asked
  BY <1>2 DEF IInv, Attempts, Needs, RInv, Deciding
<1>6. d \in DOMAIN Requires(registry, pkg, v) /\ d \in DOMAIN Needs(pkg, v)  BY <1>5 DEF Needs
<1>7. f = Terms(registry, pkg, v, d)  BY DEF DependencyTerms, Terms, Needs
<1>8. IsTerms(f)  BY <1>4, <1>5, <1>6, DependencyImplied
<1>9. <<pkg, v, d>> \in Edges
  <2>1. d \in Names  BY <1>4, <1>5, <1>6, RegistriesAssumption DEF Names
  <2> QED  BY <1>4, <1>5, <2>1 DEF Edges
<1>10. incs' = Added(f, <<pkg, v, d>>)  BY <1>1
<1>11. Filed(registry, incs', pkg, v, d)
  BY <1>2, <1>5, <1>6, <1>7, <1>8, <1>9, <1>10, AddedIsFiled
<1>12. d # pkg /\ c \in VersionSet /\ Carries(c)  BY <1>4, <1>5, <1>6, RegistriesAssumption
<1>13. AllCarry(f)
  <2>1. Carries(Exactly(v))  BY DEF Exactly, Pos, Carries
  <2>2. Carries(Not(c.set, c.single))  BY <1>12 DEF Not, Carries
  <2> HIDE DEF c, v
  <2>3. f = IF c.set = {} THEN [q \in {pkg} |-> Exactly(v)]
            ELSE [q \in {pkg, d} |-> IF q = d THEN Not(c.set, c.single) ELSE Exactly(v)]
    BY <1>7 DEF Terms, c
  <2> HIDE DEF f
  <2> QED  BY <2>1, <2>2, <2>3 DEF AllCarry
<1>14. OfAsked(registry, asked, f)
  <2>1. SameTerms(f, Terms(registry, pkg, v, d))  BY <1>7, SameAsItself
  <2>2. Shape(f, pkg, v, d, c)
    <3> HIDE DEF f
    <3> QED  BY <1>4, <1>5, <1>6, <2>1, TermsShape
  <2> HIDE DEF f, c, v
  <2> SUFFICES ASSUME NEW q \in DOMAIN f, NEW w \in Versions,
                      f[q].pos, w \in Published(registry, q), Point[w] \in f[q].set
               PROVE  <<q, w>> \in asked
    BY DEF OfAsked
  <2>3. q = pkg /\ f[q].set = {Point[v]}  BY <2>2 DEF Shape
  <2>4. v \in Published(registry, pkg)  BY <1>5 DEF Pub
  <2>5. w = v  BY <1>4, <2>3, <2>4 DEF OneSpelling
  <2> QED  BY <1>5, <2>3, <2>5
<1> HIDE DEF f, v, c
<1>15. /\ Growing
       /\ \A i \in 1..Len(incs') : i \notin 1..Len(incs) =>
            AllCarry(incs'[i].terms) /\ OfAsked(registry, asked, incs'[i].terms)
  BY <1>2, <1>8, <1>9, <1>10, <1>13, <1>14, AddedIsAffirmed
<1>16. \A i \in 1..Len(incs) : incs'[i] = incs[i]  BY <1>15 DEF Growing
<1>17. Carriers'
  <2>1. \A i \in 1..Len(incs') : AllCarry(incs'[i].terms)  BY <1>15, <1>16 DEF RInv, Carriers
  <2> QED  BY <1>2, <2>1 DEF RInv, Carriers
<1>18. Affirmed'
  <2>1. \A i \in 1..Len(incs') : OfAsked(registry, asked, incs'[i].terms)  BY <1>15, <1>16 DEF RInv, Affirmed
  <2> QED  BY <1>2, <2>1 DEF RInv, Affirmed
<1>19. Fresh'
  <2> SUFFICES ASSUME NEW i \in 1..Len(incs'), Speaks(incs'[i].terms, pkg, v)
               PROVE  \E e \in DOMAIN Requires(registry, pkg, v) \ attempt'.todo :
                        SameTerms(incs'[i].terms, Terms(registry, pkg, v, e))
    BY <1>2, <1>3 DEF Fresh
  <2>1. CASE i \in 1..Len(incs)
    <3>1. Adding  BY <1>2 DEF Adding
    <3>2. PICK e \in DOMAIN Requires(registry, pkg, v) \ attempt.todo :
            SameTerms(incs[i].terms, Terms(registry, pkg, v, e))
      BY <1>16, <2>1, <3>1 DEF RInv, Fresh, v
    <3> QED  BY <1>3, <1>16, <2>1, <3>2
  <2>2. CASE i \notin 1..Len(incs)
    <3>1. incs'[i].terms = f  BY <1>4, <1>8, <1>9, <1>10, <2>2, AddedIsStored
    <3>2. SameTerms(incs'[i].terms, Terms(registry, pkg, v, d))  BY <1>7, <3>1, SameAsItself
    <3> QED  BY <1>3, <1>6, <3>2
  <2> QED  BY <2>1, <2>2
<1>20. Recorded'
  <2> SUFFICES ASSUME NEW q \in Names, NEW w \in Versions, NEW e \in Names,
                      <<q, w>> \in asked, e \in DOMAIN Requires(registry, q, w)
               PROVE  ToCome(q, w, e)' \/ Filed(registry, incs', q, w, e)
    BY <1>2 DEF Recorded
  <2>1. CASE Filed(registry, incs, q, w, e)
    BY <1>2, <1>15, <2>1, FiledStays
  <2>2. CASE ToCome(q, w, e) /\ e # d
    BY <1>2, <1>3, <2>2 DEF ToCome, Adding, v
  <2>3. CASE ToCome(q, w, e) /\ e = d
    BY <1>11, <2>3 DEF ToCome, v
  <2> QED  BY <2>1, <2>2, <2>3 DEF RInv, Recorded
<1>21. Followed  BY <1>2, NothingPends
<1>22. Decisive' /\ Levels' /\ Settled'  BY <1>2, <1>21, SolutionStays DEF RInv
<1>23. Deciding'  BY <1>2, <1>3 DEF RInv, Deciding, Agrees, v
<1> QED  BY <1>17, <1>18, <1>19, <1>20, <1>22, <1>23 DEF RInv

LEMMA RecordDecisionFollows ==
  ASSUME IInv, RInv, RecordDecision
  PROVE  RInv'
<1> DEFINE v == attempt.ver
<1>1. /\ pc = "depend" /\ pc' = "propagate" /\ attempt.todo = {} /\ changed' = {pkg}
      /\ UNCHANGED <<registry, incs, asked, conflict>>
  BY DEF RecordDecision
<1>2. TypeOK /\ pkg \in Names /\ level \in Nat /\ asg \in Seq(Assignment)  BY DEF IInv, TypeOK
<1>3. AllCarry(conflict'.terms) /\ OfAsked(registry, asked, conflict'.terms)
  BY <1>1 DEF RInv, Carriers, Affirmed
<1>4. Followed  BY <1>1, NothingPends
<1>5. ~Adding /\ ~Adding'  BY <1>1 DEF Adding
<1>6. Deciding'  BY <1>1 DEF Deciding
<1>7. CASE Declined
  <2>1. UNCHANGED <<asg, level>>  BY <1>7 DEF RecordDecision
  <2>2. \A j \in 1..Len(asg') : Carries(asg'[j].term)  BY <2>1 DEF RInv, Carriers
  <2>3. Carriers' /\ Affirmed' /\ Fresh' /\ Recorded'
    BY <1>1, <1>2, <1>3, <1>5, <2>2, StoreStays DEF RInv
  <2>4. Decisive' /\ Levels' /\ Settled'  BY <1>1, <1>4, <2>1, SolutionStays DEF RInv
  <2> QED  BY <1>6, <2>3, <2>4 DEF RInv
<1>8. CASE ~Declined
  <2> DEFINE t == Exactly(v)
             l == IF pkg = Root THEN level ELSE level + 1
  <2>1. level' = l /\ asg' = Assign(asg, pkg, t, l, 0)  BY <1>8 DEF RecordDecision
  <2>2. /\ v \in Versions /\ <<pkg, v>> \in asked /\ Agrees(asg, pkg, v)
        /\ \A j \in 1..Len(asg) : asg[j].pkg = pkg => asg[j].cause # 0
    BY <1>1 DEF RInv, Deciding
  <2>3. t \in Term /\ Carries(t) /\ t.pos /\ t.set = {Point[v]} /\ t.single = v
    BY <2>2, ExactlyIsTerm DEF Exactly, Pos, Carries
  <2>4. l \in Nat /\ level <= l /\ (pkg # Root => level < l) /\ 0 \in Nat  BY <1>2
  <2>5. t = Exactly(v)  OBVIOUS
  <2> HIDE DEF t, l, v
  <2>6. /\ Len(asg) \in Nat /\ Len(asg') = Len(asg) + 1
        /\ \A i \in 1..Len(asg) : asg'[i] = asg[i]
        /\ \A i \in 1..Len(asg') : i \in 1..Len(asg) \/ i = Len(asg')
        /\ asg'[Len(asg')].pkg = pkg /\ asg'[Len(asg')].term = t
        /\ asg'[Len(asg')].level = l /\ asg'[Len(asg')].cause = 0
    BY <1>2, <2>1, <2>3, <2>4, AssignAppends
  <2>7. \A j \in 1..Len(asg') : Carries(asg'[j].term)  BY <2>3, <2>6 DEF RInv, Carriers
  <2>8. Carriers' /\ Affirmed' /\ Fresh' /\ Recorded'
    BY <1>1, <1>2, <1>3, <1>5, <2>7, StoreStays DEF RInv
  <2>9. Agrees(asg', pkg, v)  BY <2>2, <2>3, <2>6 DEF Agrees, Admits
  <2>10. Decisive'
    <3> SUFFICES ASSUME NEW i \in 1..Len(asg'), asg'[i].cause = 0
                 PROVE  LET w == asg'[i].term.single IN
                          /\ w \in Versions /\ asg'[i].term = Exactly(w) /\ <<asg'[i].pkg, w>> \in asked'
                          /\ Agrees(asg', asg'[i].pkg, w)
      BY DEF Decisive
    <3>1. CASE i = Len(asg')
      <4>1. asg'[i].pkg = pkg /\ asg'[i].term = t /\ asg'[i].term.single = v  BY <2>3, <2>6, <3>1
      <4> QED  BY <1>1, <2>2, <2>5, <2>9, <4>1
    <3>2. CASE i \in 1..Len(asg)
      <4> DEFINE w == asg'[i].term.single
                 q == asg'[i].pkg
      <4>1. w \in Versions /\ asg'[i].term = Exactly(w) /\ <<q, w>> \in asked /\ Agrees(asg, q, w) /\ q # pkg
        BY <2>2, <2>6, <3>2 DEF RInv, Decisive
      <4> HIDE DEF w, q
      <4>2. Agrees(asg', q, w)  BY <2>6, <4>1 DEF Agrees
      <4> QED  BY <1>1, <4>1, <4>2 DEF w, q
    <3> QED  BY <2>6, <3>1, <3>2
  <2>11. Levels'
    <3>1. Levels /\ \A i \in 1..Len(asg) : asg[i].level \in Nat  BY <1>2, AssignmentParts DEF RInv
    <3>2. \A i \in 1..Len(asg) : asg'[i].level <= level /\ asg'[i].level \in Nat  BY <2>6, <3>1 DEF Levels
    <3>3. \A i \in 1..Len(asg') : asg'[i].level <= l  BY <1>2, <2>4, <2>6, <3>2
    <3>4. \A i, j \in 1..Len(asg') : i <= j => asg'[i].level <= asg'[j].level
      <4> SUFFICES ASSUME NEW i \in 1..Len(asg'), NEW j \in 1..Len(asg'), i <= j
                   PROVE  asg'[i].level <= asg'[j].level
        OBVIOUS
      <4>1. CASE j = Len(asg')  BY <2>6, <3>3, <4>1
      <4>2. CASE j \in 1..Len(asg)
        <5>1. i \in 1..Len(asg)  BY <2>6, <4>2
        <5> QED  BY <2>6, <3>1, <4>2, <5>1 DEF Levels
      <4> QED  BY <2>6, <4>1, <4>2
    <3>5. \A i, j \in 1..Len(asg') : i < j /\ asg'[j].cause = 0 /\ asg'[j].pkg # Root => asg'[i].level < asg'[j].level
      <4> SUFFICES ASSUME NEW i \in 1..Len(asg'), NEW j \in 1..Len(asg'), i < j, asg'[j].cause = 0, asg'[j].pkg # Root
                   PROVE  asg'[i].level < asg'[j].level
        OBVIOUS
      <4>1. i \in 1..Len(asg)  BY <2>6
      <4>2. CASE j \in 1..Len(asg)  BY <2>6, <3>1, <4>1, <4>2 DEF Levels
      <4>3. CASE j = Len(asg')  BY <1>2, <2>4, <2>6, <3>2, <4>1, <4>3
      <4> QED  BY <2>6, <4>2, <4>3
    <3>6. asg'[1].cause # 0
      <4>1. asg # <<>>  BY <1>1 DEF IInv, RootFirst
      <4>2. 1 \in 1..Len(asg)  BY <1>2, <4>1
      <4> QED  BY <2>6, <3>1, <4>1, <4>2 DEF Levels
    <3> QED  BY <2>1, <3>3, <3>4, <3>5, <3>6 DEF Levels
  <2>12. Settled'
    <3> SUFFICES ASSUME NEW i \in 1..Len(asg'), NEW q \in Names, NEW w \in Versions, NEW d \in Names,
                        asg'[i].cause = 0, asg'[i].pkg = q, asg'[i].term.single = w, d \in DOMAIN Requires(registry, q, w)
                 PROVE  \/ Meets(asg', asg'[i].level, Requires(registry, q, w)[d], d)
                        \/ asg'[i].level = level' /\ Pending(q, w, d)'
      BY <1>1 DEF Settled
    <3>1. CASE i = Len(asg')
      <4>1. asg'[i].level = level' /\ q = pkg  BY <2>1, <2>6, <3>1
      <4>2. Pending(q, w, d)'  BY <1>1, <4>1 DEF Pending
      <4> QED  BY <4>1, <4>2
    <3>2. CASE i \in 1..Len(asg)
      <4>1. asg'[i] = asg[i]  BY <2>6, <3>2
      <4>2. ~Pending(q, w, d)  BY <1>1 DEF Pending
      <4>3. Meets(asg, asg[i].level, Requires(registry, q, w)[d], d)  BY <3>2, <4>1, <4>2 DEF RInv, Settled
      <4>4. Len(asg') \in Nat /\ Len(asg) <= Len(asg')  BY <2>6
      <4>5. Meets(asg', asg[i].level, Requires(registry, q, w)[d], d)  BY <2>6, <4>3, <4>4, MeetsStays
      <4> QED  BY <4>1, <4>5
    <3> QED  BY <2>6, <3>1, <3>2
  <2> QED  BY <1>6, <2>8, <2>10, <2>11, <2>12 DEF RInv
<1> QED  BY <1>7, <1>8

-----------------------------------------------------------------------------
(***************************************************************************)
(* The result.                                                             *)
(***************************************************************************)
LEMMA ExtractFollows ==
  ASSUME IInv, RInv, Extract
  PROVE  RInv'
<1>1. pc = "decide" /\ pc' \in {"done", "bug"} /\ UNCHANGED <<registry, incs, asg, level, asked, conflict>>
  BY DEF Extract
<1>2. AllCarry(conflict'.terms) /\ OfAsked(registry, asked, conflict'.terms)
  BY <1>1 DEF RInv, Carriers, Affirmed
<1>3. Followed  BY <1>1, NothingPends
<1> QED  BY <1>1, <1>2, <1>3, QuietKeeps

LEMMA NothingFollows ==
  ASSUME IInv, RInv, UNCHANGED vars
  PROVE  RInv'
<1>1. UNCHANGED <<registry, incs, asg, level, asked, changed, pkg, at, conflict, attempt, pc>>  BY DEF vars
<1>2. Carriers'  BY <1>1 DEF RInv, Carriers
<1>3. Affirmed'  BY <1>1 DEF RInv, Affirmed
<1>4. Fresh'  BY <1>1 DEF RInv, Fresh, Adding
<1>5. Recorded'  BY <1>1 DEF RInv, Recorded, ToCome, Adding
<1>6. Followed
  <2>1. ASSUME NEW p, NEW v, NEW d, Pending(p, v, d) PROVE Pending(p, v, d)'
    BY <1>1, <2>1 DEF Pending
  <2> QED  BY <2>1 DEF Followed
<1>7. Decisive' /\ Levels' /\ Settled'  BY <1>1, <1>6, SolutionStays DEF RInv
<1>8. Deciding'  BY <1>1 DEF RInv, Deciding, Agrees
<1> QED  BY <1>2, <1>3, <1>4, <1>5, <1>7, <1>8 DEF RInv

LEMMA InitFollows ==
  ASSUME Init
  PROVE  RInv
<1> DEFINE f == [p \in {Root} |-> Negate(Exactly(0))]
<1>1. Len(incs) = 1 /\ incs[1].terms = f  BY DEF Init
<1>2. asg = <<>> /\ Len(asg) = 0 /\ asked = {} /\ conflict = NoConflict /\ pc = "propagate"  BY DEF Init
<1>3. DOMAIN f = {Root} /\ ~f[Root].pos /\ Carries(f[Root])  BY DEF Negate, Exactly, Pos, Carries
<1> HIDE DEF f
<1>4. AllCarry(f) /\ \A r, a : OfAsked(r, a, f)  BY <1>3 DEF AllCarry, OfAsked
<1>5. Carriers  BY <1>1, <1>2, <1>4, NoConflictSays DEF Carriers
<1>6. Affirmed  BY <1>1, <1>2, <1>4, NoConflictSays DEF Affirmed
<1>7. Fresh /\ Recorded /\ Deciding  BY <1>2 DEF Fresh, Adding, Recorded, Deciding
<1>8. Decisive /\ Levels /\ Settled  BY <1>2 DEF Decisive, Levels, Settled
<1> QED  BY <1>5, <1>6, <1>7, <1>8 DEF RInv

\* A decision on record is in what the result reaches, and everything there is
\* decided and meets what is needed of it.
LEMMA ExtractSelects ==
  ASSUME IInv, RInv, Extract, pc' = "done"
  PROVE  IsSelection(result')
<1>1. /\ \A p \in Reached : Decided(p)
      /\ result' = [p \in Names |-> IF p \in Reached THEN Chosen(p) ELSE None]
      /\ pc = "decide"
  BY DEF Extract
<1>2. TypeOK /\ registry \in Registries  BY DEF IInv, TypeOK
<1>3. Root \in Reached /\ Reached \subseteq Names
  BY DEF Reached, Names
<1>4. ASSUME NEW p \in Reached, NEW d \in Dependencies(p) PROVE d \in Reached
  <2> DEFINE closed == {S \in SUBSET Names : Root \in S /\ \A q \in S : [x \in Names |-> Dependencies(x)][q] \subseteq S}
  <2>1. Reached = {x \in Names : \A S \in closed : x \in S}  BY DEF Reached
  <2>2. ASSUME NEW S \in closed PROVE d \in S
    <3>1. p \in S /\ p \in Names  BY <2>1, <2>2
    <3>2. Dependencies(p) \subseteq S  BY <2>2, <3>1
    <3> QED  BY <1>4, <3>2
  <2>3. d \in Names  BY <1>4 DEF Dependencies, Names
  <2> HIDE DEF closed
  <2> QED  BY <2>1, <2>2, <2>3
<1>5. ASSUME NEW p \in Names, Decided(p)
      PROVE  \E k \in 1..Len(asg) :
               /\ asg[k].cause = 0 /\ asg[k].pkg = p /\ asg[k].term.single = Chosen(p)
               /\ Chosen(p) \in Versions /\ <<p, Chosen(p)>> \in asked /\ Agrees(asg, p, Chosen(p))
  <2> DEFINE k == CHOOSE i \in Decisions(asg, p) : TRUE
  <2>1. k \in Decisions(asg, p)  BY <1>5 DEF Decided
  <2>2. k \in 1..Len(asg) /\ asg[k].cause = 0 /\ asg[k].pkg = p  BY <2>1 DEF Decisions, On, Of
  <2>3. Chosen(p) = asg[k].term.single  BY DEF Chosen
  <2> HIDE DEF k
  <2> QED  BY <2>2, <2>3 DEF RInv, Decisive
<1>6. \A p \in Reached : result'[p] = Chosen(p) /\ Decided(p) /\ p \in Names  BY <1>1, <1>3
<1>7. \A p \in Names : result'[p] # None => p \in Reached  BY <1>1
<1>8. ASSUME NEW p \in Reached
      PROVE  result'[p] \in Published(registry, p) /\ result'[p] \in Versions /\ result'[p] # None
  <2>1. Chosen(p) \in Versions /\ <<p, Chosen(p)>> \in asked  BY <1>5, <1>6
  <2> QED  BY <1>6, <2>1, NamesAssumption DEF RInv, Affirmed
<1>9. result'[Root] = 0
  <2>1. Published(registry, Root) = {0}  BY <1>2, RegistriesAssumption DEF Names
  <2> QED  BY <1>3, <1>8, <2>1
<1>10. ASSUME NEW p \in Names, result'[p] # None, NEW d \in DOMAIN Requires(registry, p, result'[p])
       PROVE  result'[d] # None /\ Point[result'[d]] \in Requires(registry, p, result'[p])[d].set
  <2> DEFINE v == Chosen(p)
             c == Requires(registry, p, v)[d]
             w == Chosen(d)
  <2>1. p \in Reached /\ result'[p] = v /\ Decided(p)  BY <1>6, <1>7, <1>10
  <2>2. PICK k \in 1..Len(asg) : asg[k].cause = 0 /\ asg[k].pkg = p /\ asg[k].term.single = v /\ v \in Versions
    BY <1>5, <2>1
  <2>3. d \in DOMAIN Requires(registry, p, v)  BY <1>10, <2>1
  <2>4. d \in Packages /\ d \in Names  BY <1>2, <2>2, <2>3, RegistriesAssumption DEF Names
  <2>5. Meets(asg, asg[k].level, c, d)
    <3>1. ~Pending(p, v, d)  BY <1>1 DEF Pending
    <3> QED  BY <2>2, <2>3, <2>4, <3>1 DEF RInv, Settled
  <2>6. Filed(registry, incs, p, v, d)
    <3>1. DependsOn(registry, asg, k, p, v, d)  BY <2>2, <2>3 DEF DependsOn
    <3> QED  BY <1>1, <2>2, <2>4, <3>1, DecidedIsFiled DEF RInv
  <2>7. \E i \in 1..Len(incs) : incs[i].edge = <<p, v, d>>
    <3>1. c.set # {}  BY <2>5 DEF Meets
    <3> QED  BY <2>6, <3>1 DEF Filed
  <2>8. d \in Dependencies(p)  BY <2>1, <2>4, <2>7 DEF Dependencies
  <2>9. d \in Reached  BY <1>4, <2>1, <2>8
  <2>10. result'[d] = w /\ w # None /\ w \in Versions  BY <1>6, <1>8, <2>9
  <2>11. Agrees(asg, d, w)  BY <1>5, <1>6, <2>9
  <2> HIDE DEF v, c, w
  <2>12. Point[w] \in Points  BY <2>10 DEF Points
  <2>13. Point[w] \in c.set  BY <2>5, <2>11, <2>12 DEF Meets, Agrees
  <2> QED  BY <2>1, <2>10, <2>13 DEF c
<1>11. \A p \in Names : result'[p] # None => result'[p] \in Published(registry, p)  BY <1>7, <1>8
<1> QED  BY <1>9, <1>10, <1>11 DEF IsSelection, Pub, Needs

-----------------------------------------------------------------------------
(***************************************************************************)
(* The theorem.                                                            *)
(***************************************************************************)
LEMMA StepFollows ==
  ASSUME IInv, RInv, OneSpelling, [Next]_vars
  PROVE  RInv'
<1>1. CASE Step
  BY <1>1, PopFollows, PropagateFollows, ConflictFollows, ScanEndsFollows, PropagationEndsFollows,
     ResolutionStopsFollows, MergeFollows, BackjumpFollows, DeriveRootCauseFollows, DecideFollows, AbortFollows,
     AddDependencyFollows, RecordDecisionFollows, ExtractFollows
  DEF Step
<1>2. CASE UNCHANGED vars  BY <1>2, NothingFollows
<1> QED  BY <1>1, <1>2 DEF Next, Stopped

\* Only extractResult ends in "done".
LEMMA ResultStays ==
  ASSUME IInv, RInv, ResultIsSelection, [Next]_vars
  PROVE  ResultIsSelection'
<1> SUFFICES ASSUME pc' = "done" PROVE IsSelection(result)'
  BY DEF ResultIsSelection
<1>1. CASE Extract
  <2>1. IsSelection(result')  BY <1>1, ExtractSelects
  <2>2. registry' = registry  BY <1>1 DEF Extract
  <2> QED  BY <2>1, <2>2 DEF IsSelection, Pub, Needs
<1>2. CASE ~Extract
  <2>1. pc = "done" /\ UNCHANGED vars
    BY <1>2 DEF Next, Step, Stopped, vars, Final, Pop, Propagate, Conflict, ScanEnds, PropagationEnds, ResolutionStops, Stop, Merge, Backjump, DeriveRootCause, Decide, Try, NoVersions, Abort, AddDependency, RecordDecision
  <2>2. IsSelection(result)  BY <2>1 DEF ResultIsSelection
  <2>3. result' = result /\ registry' = registry  BY <2>1 DEF vars
  <2> QED  BY <2>2, <2>3 DEF IsSelection, Pub, Needs
<1> QED  BY <1>1, <1>2

\* A result of Solve is a selection: for every registry and every order of
\* decisions, conflicts and backjumps, unless some package publishes two
\* spellings of one version.  Every constraint of the root and of what was
\* chosen is met by a published version, and nothing that is needed is left out.
THEOREM ResultIsRight == Spec => [](OneSpelling => ResultIsSelection)
<1> DEFINE Inv == OneSpelling => RInv /\ ResultIsSelection
<1>1. Init => Inv
  <2>1. Init => RInv  BY InitFollows
  <2>2. Init => ResultIsSelection  BY DEF Init, ResultIsSelection
  <2> QED  BY <2>1, <2>2
<1>2. IInv /\ Inv /\ [Next]_vars => Inv'
  <2>1. OneSpelling' <=> OneSpelling  BY DEF OneSpelling
  <2> QED  BY <2>1, StepFollows, ResultStays
<1>3. Inv => (OneSpelling => ResultIsSelection)  OBVIOUS
<1> HIDE DEF Inv
<1> QED  BY <1>1, <1>2, <1>3, Inductive, PTL DEF Spec
=============================================================================
