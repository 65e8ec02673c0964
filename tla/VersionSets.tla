---------------------------- MODULE VersionSets ----------------------------
(***************************************************************************)
(* The version sets of the solver: internal/galaxy/solver/verset.go and    *)
(* versetbuild.go.  A set is two lists of half-open runs, one over the     *)
(* releases and one over the prereleases.  Releases are triples; a         *)
(* prerelease is its triple followed by its identifiers, numbers standing  *)
(* for identifiers in their order.  Both orders are then lexicographic, a  *)
(* prefix first.  Unbounded is a bound above every version.                *)
(***************************************************************************)
EXTENDS Naturals, Sequences

CONSTANTS
  Top,   \* the greatest value of a segment, 2^64 - 1 in the program
  xr     \* a segment that is an x or is missing

ASSUME TopAssumption == Top \in Nat \ {0}

\* relBound and cmpRel, cmpPre.
Precedes(s, t) ==
  \E i \in 1 .. Len(t) :
    /\ \A j \in 1 .. (i - 1) : j <= Len(s) /\ s[j] = t[j]
    /\ i > Len(s) \/ (i <= Len(s) /\ s[i] < t[i])

Unbounded == <<Top + 1>>
Overflow == Unbounded            \* a false ok flag
First == <<0, 0, 0>>             \* the least release
preMinBound == <<0, 0, 0, 0>>    \* 0.0.0-0

piece(lo, hi) == [lo |-> lo, hi |-> hi]

Earlier(s, t) == IF Precedes(t, s) THEN t ELSE s
Later(s, t) == IF Precedes(s, t) THEN t ELSE s

\* advanceFirst: ties advance the first list.
Rest(a, b) == IF Precedes(b[1].hi, a[1].hi) THEN <<a, Tail(b)>> ELSE <<Tail(a), b>>

-----------------------------------------------------------------------------
\* The algebra of canonical lists

\* Mutant: runs that only touch are taken to meet.
RECURSIVE intersectTouching(_, _)
intersectTouching(a, b) ==
  IF a = <<>> \/ b = <<>> THEN <<>>
  ELSE LET lo == Later(a[1].lo, b[1].lo)
           hi == Earlier(a[1].hi, b[1].hi)
           r == Rest(a, b)
       IN (IF Precedes(hi, lo) THEN <<>> ELSE <<piece(lo, hi)>>) \o intersectTouching(r[1], r[2])

RECURSIVE intersectPieces(_, _)
intersectPieces(a, b) ==
  IF a = <<>> \/ b = <<>> THEN <<>>
  ELSE LET lo == Later(a[1].lo, b[1].lo)
           hi == Earlier(a[1].hi, b[1].hi)
           r == Rest(a, b)
       IN (IF Precedes(lo, hi) THEN <<piece(lo, hi)>> ELSE <<>>) \o intersectPieces(r[1], r[2])

RECURSIVE complementFrom(_, _)
complementFrom(a, cur) ==
  IF a = <<>> THEN <<piece(cur, Unbounded)>>
  ELSE (IF Precedes(cur, a[1].lo) THEN <<piece(cur, a[1].lo)>> ELSE <<>>)
       \o (IF a[1].hi = Unbounded THEN <<>> ELSE complementFrom(Tail(a), a[1].hi))

unionPieces(a, b, min) ==
  complementFrom(intersectPieces(complementFrom(a, min), complementFrom(b, min)), min)

RECURSIVE subsetPieces(_, _)
subsetPieces(a, b) ==
  \/ a = <<>>
  \/ /\ a # <<>> /\ b # <<>>
     /\ IF ~Precedes(a[1].lo, b[1].hi) THEN subsetPieces(a, Tail(b))
        ELSE /\ ~Precedes(a[1].lo, b[1].lo)
             /\ ~Precedes(b[1].hi, a[1].hi)
             /\ subsetPieces(Tail(a), b)

RECURSIVE disjointPieces(_, _)
disjointPieces(a, b) ==
  \/ a = <<>> \/ b = <<>>
  \/ /\ ~Precedes(Later(a[1].lo, b[1].lo), Earlier(a[1].hi, b[1].hi))
     /\ LET r == Rest(a, b) IN disjointPieces(r[1], r[2])

containsPoint(a, x) == \E i \in DOMAIN a : ~Precedes(x, a[i].lo) /\ Precedes(x, a[i].hi)

verSet(rel, pre) == [rel |-> rel, pre |-> pre]
emptyVerSet == verSet(<<>>, <<>>)
fullVerSet == verSet(<<piece(First, Unbounded)>>, <<piece(preMinBound, Unbounded)>>)

\* A version is its triple and its prerelease identifiers, none for a release.
contains(s, v) ==
  IF v.pre = <<>> THEN containsPoint(s.rel, v.triple) ELSE containsPoint(s.pre, v.triple \o v.pre)

intersect(s, t) == verSet(intersectPieces(s.rel, t.rel), intersectPieces(s.pre, t.pre))
union(s, t) == verSet(unionPieces(s.rel, t.rel, First), unionPieces(s.pre, t.pre, preMinBound))
complement(s) == verSet(complementFrom(s.rel, First), complementFrom(s.pre, preMinBound))
difference(s, t) == intersect(s, complement(t))
subsetOf(s, t) == subsetPieces(s.rel, t.rel) /\ subsetPieces(s.pre, t.pre)
disjointFrom(s, t) == disjointPieces(s.rel, t.rel) /\ disjointPieces(s.pre, t.pre)

-----------------------------------------------------------------------------
\* Bound arithmetic

succRel(b) == IF b[3] = Top THEN Overflow ELSE <<b[1], b[2], b[3] + 1>>
nextMinor(b) == IF b[2] = Top THEN Overflow ELSE <<b[1], b[2] + 1, 0>>
nextMajor(b) == IF b[1] = Top THEN Overflow ELSE <<b[1] + 1, 0, 0>>

preFloor(b) == IF b = Overflow THEN Overflow ELSE b \o <<0>>
succPre(w) == w \o <<0>>

relCeilStrict(con) == IF con.pre # <<>> THEN con.triple ELSE succRel(con.triple)
preCeil(con) == IF con.pre # <<>> THEN con.triple \o con.pre ELSE preFloor(succRel(con.triple))
preCeilStrict(con) == IF con.pre # <<>> THEN succPre(con.triple \o con.pre) ELSE preCeil(con)

\* relRange, relFrom, relUpto and their pre twins: an overflowed lower bound is
\* an empty run, an overflowed upper bound an unbounded one.
Run(lo, hi) == IF Precedes(lo, hi) THEN <<piece(lo, hi)>> ELSE <<>>
From(lo) == Run(lo, Unbounded)

relPoint(t) == Run(t, succRel(t))

-----------------------------------------------------------------------------
\* Constraints (versetbuild.go)

\* A comparator's operand has its x-ranged or omitted segments zero-filled:
\* dirty says where they start ("no", "major", "minor" or "patch").
rowFrom(lo) == IF lo = Overflow THEN emptyVerSet ELSE verSet(From(lo), From(preFloor(lo)))
rowUpto(hi) == verSet(Run(First, hi), Run(preMinBound, preFloor(hi)))

buildGreaterEqual(c) == verSet(From(c.con.triple), From(preCeil(c.con)))

buildGreater(c) ==
  CASE c.dirty = "minor" -> rowFrom(nextMajor(c.con.triple))
    [] c.dirty = "patch" -> rowFrom(nextMinor(c.con.triple))
    [] OTHER -> verSet(From(relCeilStrict(c.con)), From(preCeilStrict(c.con)))

buildLess(c) == verSet(Run(First, c.con.triple), Run(preMinBound, preCeil(c.con)))

buildLessEqual(c) ==
  LET t == c.con.triple IN
  CASE c.dirty = "minor" -> rowUpto(nextMajor(t))
    [] c.dirty = "patch" -> rowUpto(nextMinor(t))
    [] c.dirty = "major" -> rowUpto(<<0, 1, 0>>)
    [] c.dirty = "no" /\ c.con.pre # <<>> ->
         verSet(Run(First, t), Run(preMinBound, succPre(t \o c.con.pre)))
    [] OTHER -> rowUpto(succRel(t))

buildTilde(c) ==
  LET t == c.con.triple
      hi == IF c.dirty = "minor" THEN nextMajor(t) ELSE nextMinor(t)
  IN IF t = First /\ c.dirty \notin {"minor", "patch"} THEN buildGreaterEqual(c)
     ELSE verSet(Run(t, hi), Run(preCeil(c.con), preFloor(hi)))

comparatorPoint(con) ==
  IF con.pre = <<>> THEN verSet(relPoint(con.triple), <<>>)
  ELSE verSet(<<>>, Run(con.triple \o con.pre, succPre(con.triple \o con.pre)))

buildEqual(c) == IF c.dirty # "no" THEN buildTilde(c) ELSE comparatorPoint(c.con)

buildCaret(c) ==
  LET t == c.con.triple
      Row(hi) == verSet(Run(t, hi), Run(preCeil(c.con), preFloor(hi)))
  IN CASE t[1] > 0 \/ c.dirty = "minor" -> Row(nextMajor(t))
       [] ~(t[1] > 0 \/ c.dirty = "minor") /\ (t[2] > 0 \/ c.dirty = "patch") -> Row(nextMinor(t))
       [] OTHER -> verSet(relPoint(t), IF c.con.pre = <<>> THEN <<>>
                                       ELSE Run(t \o c.con.pre, preFloor(succRel(t))))

\* The one constraint without an interval form.
Refused(c) == c.op = "!=" /\ c.dirty = "patch" /\ c.con.pre # <<>>

buildNotEqual(c) ==
  LET t == c.con.triple IN
  CASE c.dirty = "minor" -> union(rowUpto(<<t[1], 0, 0>>), rowFrom(nextMajor(t)))
    [] c.dirty = "patch" -> difference(fullVerSet, verSet(Run(<<t[1], t[2], 0>>, nextMinor(t)), <<>>))
    [] OTHER -> difference(fullVerSet, comparatorPoint(c.con))

buildComparator(c) ==
  CASE c.op = ">" -> buildGreater(c)
    [] c.op = ">=" -> buildGreaterEqual(c)
    [] c.op = "<" -> buildLess(c)
    [] c.op = "<=" -> buildLessEqual(c)
    [] c.op = "~" -> buildTilde(c)
    [] c.op = "=" -> buildEqual(c)
    [] c.op = "^" -> buildCaret(c)
    [] c.op = "!=" -> buildNotEqual(c)

\* parseComparator: the first segment that is an x or is missing zeroes the rest.
parseComparator(token) ==
  LET X(i) == token.segments[i] = xr
      dirty == CASE X(1) -> "major" [] ~X(1) /\ X(2) -> "minor"
                 [] ~X(1) /\ ~X(2) /\ X(3) -> "patch" [] OTHER -> "no"
      kept == CASE dirty = "major" -> 0 [] dirty = "minor" -> 1 [] dirty = "patch" -> 2 [] OTHER -> 3
  IN [op |-> token.op, dirty |-> dirty,
      con |-> [triple |-> [i \in 1 .. 3 |-> IF i <= kept THEN token.segments[i] ELSE 0],
               pre |-> token.pre]]

RECURSIVE intersectAll(_)
intersectAll(comps) ==
  IF comps = <<>> THEN fullVerSet ELSE intersect(buildComparator(Head(comps)), intersectAll(Tail(comps)))

\* Mutant: the gate opens only when every operand is a prerelease.
buildGroupEvery(comps) ==
  LET acc == intersectAll(comps) IN
  IF \A i \in DOMAIN comps : comps[i].con.pre # <<>> THEN acc ELSE [acc EXCEPT !.pre = <<>>]

\* The gate: a group without a prerelease operand admits no prerelease.
buildGroup(comps) ==
  LET acc == intersectAll(comps) IN
  IF \E i \in DOMAIN comps : comps[i].con.pre # <<>> THEN acc ELSE [acc EXCEPT !.pre = <<>>]

\* A constraint is a sequence of groups, alternatives of each other; none is
\* no constraint at all.
RECURSIVE unionAll(_)
unionAll(groups) == IF groups = <<>> THEN emptyVerSet ELSE union(buildGroup(Head(groups)), unionAll(Tail(groups)))

newVerSet(groups) == IF groups = <<>> THEN fullVerSet ELSE unionAll(groups)

-----------------------------------------------------------------------------
\* The reference: what a constraint means to the semver library, by cases on
\* the version checked (Masterminds semver, constraints.go).

Compare(v, w) ==   \* v precedes w, by semver precedence
  \/ Precedes(v.triple, w.triple)
  \/ v.triple = w.triple /\ (IF w.pre = <<>> THEN v.pre # <<>> ELSE v.pre # <<>> /\ Precedes(v.pre, w.pre))

Tilde(c, v) ==
  /\ ~Compare(v, c.con)
  /\ \/ c.con.triple = First /\ c.dirty \notin {"minor", "patch"}
     \/ v.triple[1] = c.con.triple[1] /\ (v.triple[2] = c.con.triple[2] \/ c.dirty = "minor")

Check1(c, v) ==
  LET con == c.con
      same(i) == v.triple[i] = con.triple[i]
      free(i) == (i = 3 /\ c.dirty \in {"minor", "patch"}) \/ (i = 2 /\ c.dirty = "minor")
  IN CASE c.op = ">=" -> ~Compare(v, con)
       [] c.op = "<" -> Compare(v, con)
       [] c.op = ">" -> CASE c.dirty = "minor" -> v.triple[1] > con.triple[1]
                          [] c.dirty = "patch" -> Precedes(<<con.triple[1], con.triple[2]>>, <<v.triple[1], v.triple[2]>>)
                          [] OTHER -> Compare(con, v)
       [] c.op = "<=" -> IF c.dirty = "no" THEN ~Compare(con, v)
                         ELSE ~(v.triple[1] > con.triple[1]) /\ ~(same(1) /\ v.triple[2] > con.triple[2] /\ c.dirty # "minor")
       [] c.op = "~" -> Tilde(c, v)
       [] c.op = "=" -> IF c.dirty # "no" THEN Tilde(c, v) ELSE v = con
       [] c.op = "^" -> /\ ~Compare(v, con) /\ same(1)
                        /\ con.triple[1] > 0 \/ free(2) \/ same(2)
                        /\ con.triple[1] > 0 \/ con.triple[2] > 0 \/ free(3) \/ same(3)
       [] c.op = "!=" -> IF c.dirty \in {"minor", "patch"}
                         THEN ~(same(1) /\ (free(2) \/ same(2))) \/ (c.dirty = "patch" /\ (v.pre # <<>> \/ con.pre # <<>>) /\ v # con)
                         ELSE v # con

Check(groups, v) ==
  \/ groups = <<>>
  \/ \E g \in DOMAIN groups :
       /\ \A i \in DOMAIN groups[g] : Check1(groups[g][i], v)
       /\ v.pre # <<>> => \E i \in DOMAIN groups[g] : groups[g][i].con.pre # <<>>

\* Sorted, nonempty, disjoint and with a gap between any two runs.
CanonicalList(a) ==
  /\ \A i \in DOMAIN a : Precedes(a[i].lo, a[i].hi)
  /\ \A i \in 1 .. (Len(a) - 1) : Precedes(a[i].hi, a[i + 1].lo)
Canonical(s) == CanonicalList(s.rel) /\ CanonicalList(s.pre)
=============================================================================
