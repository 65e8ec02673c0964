--------------------------- MODULE MCVersionSets ---------------------------
(***************************************************************************)
(* Constraints over versions with segments 0 .. Top: one comparator, two   *)
(* that must both hold, or two alternatives; the second from a few that    *)
(* cut every way.                                                          *)
(***************************************************************************)
EXTENDS VersionSets, FiniteSets

CONSTANTS
  Segments,     \* what the segments of an operand may be, beside x
  Second        \* the second comparators, as operands

VARIABLE constraint
Parsed == [op : {"=", "!=", ">", "<", ">=", "<=", "~", "^"},
           segments : [1 .. 3 -> Segments \cup {xr}], pre : {<<>>, <<0>>, <<1>>}]
Comparators == {c \in {parseComparator(t) : t \in Parsed} : ~Refused(c)}
Few == {c \in Comparators : [op |-> c.op, triple |-> c.con.triple, pre |-> c.con.pre] \in Second}
MCSecond == {[op |-> "<", triple |-> <<1, 0, 1>>, pre |-> <<>>], [op |-> "!=", triple |-> <<1, 1, 0>>, pre |-> <<0>>],
             [op |-> ">", triple |-> <<0, 1, 1>>, pre |-> <<1>>]}

Init == constraint = <<>>
Start == constraint = <<>> /\ \E c \in Comparators : constraint' = <<<<c>>>>
Simple == Len(constraint) = 1 /\ Len(constraint[1]) = 1
And == Simple /\ \E d \in Few : constraint' = <<Append(constraint[1], d)>>
Or == Simple /\ \E d \in Few : constraint' = Append(constraint, <<d>>)
Next == Start \/ And \/ Or
Spec == Init /\ [][Next]_constraint

Versions == [triple : [1 .. 3 -> 0 .. Top], pre : {<<>>, <<0>>, <<1>>, <<1, 0>>}]
Members(s) == {v \in Versions : contains(s, v)}

\* A constraint's set holds the versions that the library says satisfy it
\* (versetbuild.go, TestVerSetDifferentialAgainstCheck).
AgreesWithCheck == \A v \in Versions : contains(newVerSet(constraint), v) <=> Check(constraint, v)

\* Every operation on version sets is exact, whatever is published, and what
\* it yields is canonical, so that equal sets are equal lists (verset.go).
AlgebraIsExact ==
  LET last == constraint[Len(constraint)]
      s == newVerSet(constraint)
      t == IF constraint = <<>> THEN emptyVerSet ELSE buildComparator(last[Len(last)])
      S == Members(s)
      T == Members(t)
      Is(r, R) == Canonical(r) /\ Members(r) = R
  IN /\ Is(s, S)
     /\ Is(intersect(s, t), S \cap T) /\ Is(union(s, t), S \cup T)
     /\ Is(complement(s), Versions \ S) /\ Is(difference(t, s), T \ S)
     /\ subsetOf(s, t) <=> S \subseteq T
     /\ disjointFrom(s, t) <=> S \cap T = {}
     /\ (s = t) <=> (S = T)
=============================================================================
