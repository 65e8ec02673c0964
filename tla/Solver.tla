------------------------------- MODULE Solver -------------------------------
(***************************************************************************)
(* The version solver (internal/galaxy/solver): unit propagation,          *)
(* decisions, conflict resolution and backtracking over incompatibilities. *)
(*                                                                         *)
(* A package is its rank among the names, and the root, which sorts before *)
(* every name, is 0.  A version is its rank in the universe total order;   *)
(* Point[v] is its place in semver precedence, which two spellings of a    *)
(* version share.  A version set is the set of the points in it, whether   *)
(* they are published or not; one built from a single version carries it.  *)
(* What the registry publishes is a value of registry, which no step       *)
(* changes.                                                                *)
(***************************************************************************)
EXTENDS Naturals, Sequences, FiniteSets

CONSTANTS
  Packages,  \* names
  Versions,  \* versions any package may have
  Point,     \* Point[v]: the precedence point of v
  None,      \* no version
  Registries,          \* bound: what may be published
  Published(_, _),     \* the versions of a package
  Reported(_, _),      \* the version reported as its highest, or None
  Requires(_, _, _)    \* the dependencies of a version: a function from packages

Root  == 0
Names == Packages \cup {Root}
Points == {Point[v] : v \in Versions}

\* The root's version is 0, and what it needs are the requirements.
VersionSet == [set : SUBSET Points, single : Versions \cup {None}]
\* A version is carried by a set only if it is all of it (attachSingleton).
Carries(c) == c.single # None => c.set = {Point[c.single]}
Term == [pos : BOOLEAN, set : SUBSET Points, single : Versions \cup {None}]
Edges == Names \X Versions \X Names

ASSUME NamesAssumption ==
  /\ Packages \subseteq Nat \ {0} /\ Versions \subseteq Nat /\ 0 \in Versions
  /\ None \notin Versions /\ None \notin Edges

ASSUME VersionsAssumption == Point \in [Versions -> Nat]

ASSUME RegistriesAssumption ==
  \A r \in Registries, p \in Names :
    /\ Published(r, p) \subseteq Versions /\ Reported(r, p) \in Versions \cup {None}
    /\ Published(r, Root) = {0}
    /\ \A v \in Versions : LET needs == Requires(r, p, v) IN
         /\ DOMAIN needs \subseteq Packages \ {p}
         /\ \A d \in DOMAIN needs : needs[d] \in VersionSet /\ Carries(needs[d])

VARIABLES
  registry,
  incs,     \* the incompatibilities in the order they were added
  asg,      \* the partial solution
  level,    \* the number of decisions, the root's apart
  counts,   \* conflictCounts
  asked,    \* depsAdded: the versions whose dependencies are in incs
  fetched,  \* packages whose universe was fetched
  changed,  \* the packages unit propagation has to look at
  pkg,      \* the package it is scanning, or makeDecision picked
  at,       \* what is left to scan: the incompatibilities up to here
  conflict, \* the incompatibility being resolved
  attempt,  \* the decision whose dependencies are being added
  result,   \* the version selected of each package
  pc

Pub(p)      == Published(registry, p)
Needs(p, v) == Requires(registry, p, v)

vars == <<registry, incs, asg, level, counts, asked, fetched, changed, pkg, at, conflict, attempt, result, pc>>

Final == {"done", "failed", "gaveup", "bug", "aborted"}

-----------------------------------------------------------------------------
(***************************************************************************)
(* Terms.                                                                  *)
(***************************************************************************)
Pos(s, v) == [pos |-> TRUE, set |-> s, single |-> v]
Not(s, v) == [pos |-> FALSE, set |-> s, single |-> v]
Exactly(v) == Pos({Point[v]}, v)
Negate(t)  == [pos |-> ~t.pos, set |-> t.set, single |-> t.single]
Tautology(t)    == ~t.pos /\ t.set = {}
Impossible(t)   == t.pos /\ t.set = {}
SameTerm(t, u)  == t.pos = u.pos /\ t.set = u.set
Permits(t, v)   == (Point[v] \in t.set) = t.pos

\* termIntersect: what is vacuous leaves the other as it is.
Meet(t, u) ==
  IF Tautology(t) THEN u
  ELSE IF Tautology(u) THEN t
  ELSE IF t.pos /\ u.pos THEN Pos(t.set \cap u.set, None)
  ELSE IF t.pos THEN Pos(t.set \ u.set, None)
  ELSE IF u.pos THEN Pos(u.set \ t.set, None)
  ELSE Not(t.set \cup u.set, None)

\* termSubset.
Entails(t, u) ==
  \/ t.pos /\ u.pos /\ t.set \subseteq u.set
  \/ t.pos /\ ~u.pos /\ t.set \cap u.set = {}
  \/ ~t.pos /\ ~u.pos /\ u.set \subseteq t.set

-----------------------------------------------------------------------------
(***************************************************************************)
(* The partial solution: s is the sequence of assignments, n how much of   *)
(* it is looked at.                                                        *)
(***************************************************************************)
Assignment == [pkg : Names, term : Term, level : Nat, cause : Nat]

Of(s, n, p) == {i \in 1..n : s[i].pkg = p}
On(s, p)    == Of(s, Len(s), p)

\* The accumulation of p: the conjunction of its terms, in any order.
Accum(s, n, p) ==
  LET held == {i \in Of(s, n, p) : s[i].term.pos}
      out  == UNION {s[i].term.set : i \in Of(s, n, p) \ held}
  IN  IF held = {} THEN Not(out, None)
      ELSE Pos({x \in Points \ out : \A i \in held : x \in s[i].term.set}, None)

\* relation: a package without assignments is open.
Relation(s, p, t) ==
  IF On(s, p) = {} THEN "open"
  ELSE IF Entails(Accum(s, Len(s), p), t) THEN "satisfied"
  ELSE IF Impossible(Meet(Accum(s, Len(s), p), t)) THEN "contradicted"
  ELSE "open"

\* relate.
Satisfied(s, f)       == \A p \in DOMAIN f : Relation(s, p, f[p]) = "satisfied"
AlmostSatisfied(s, f, p) ==
  /\ p \in DOMAIN f /\ Relation(s, p, f[p]) = "open"
  /\ \A q \in DOMAIN f \ {p} : Relation(s, q, f[q]) = "satisfied"

Equivalent(s, p, t) == \E i \in On(s, p) : SameTerm(s[i].term, t)

Decisions(s, p) == {i \in On(s, p) : s[i].cause = 0}
Decided(p) == Decisions(asg, p) # {}

Assign(s, p, t, l, c) == Append(s, [pkg |-> p, term |-> t, level |-> l, cause |-> c])

-----------------------------------------------------------------------------
(***************************************************************************)
(* Incompatibilities: a term for each of some packages, and the dependency *)
(* it records, if it records one.                                          *)
(***************************************************************************)
IsTerms(f) == DOMAIN f \subseteq Names /\ \A p \in DOMAIN f : f[p] \in Term

SameTerms(f, g) == DOMAIN f = DOMAIN g /\ \A p \in DOMAIN f : SameTerm(f[p], g[p])

\* add: nothing is stored twice.
Stored(f) == {i \in 1..Len(incs) : SameTerms(incs[i].terms, f)}
Index(f)  == IF Stored(f) = {} THEN Len(incs) + 1 ELSE CHOOSE i \in Stored(f) : TRUE
Added(f, e) == IF Stored(f) = {} THEN Append(incs, [terms |-> f, edge |-> e]) ELSE incs

Terminal(f) == DOMAIN f = {} \/ (DOMAIN f = {Root} /\ f[Root].pos)

Only(f, S) == [p \in DOMAIN f \cap S |-> f[p]]

\* normalizeTerms of terms already merged by package.
WithoutRoot(f) ==
  IF Cardinality(DOMAIN f) > 1 /\ Root \in DOMAIN f /\ f[Root].pos THEN Only(f, Packages) ELSE f
WithoutTautologies(f) ==
  LET telling == {p \in DOMAIN f : ~Tautology(f[p])}
  IN  IF Cardinality(DOMAIN f) > 1 /\ telling # {} THEN Only(f, telling) ELSE f
Normalized(f) == WithoutTautologies(WithoutRoot(f))

\* Mutant: what the assignment leaves of the term is forgotten.
ResolventOfWholes(f, g, p, t) ==
  Normalized([q \in (DOMAIN f \cup DOMAIN g) \ {p} |->
    IF q \in DOMAIN f \cap DOMAIN g THEN Meet(f[q], g[q])
    ELSE IF q \in DOMAIN f THEN f[q] ELSE g[q]])

\* mergeWithSatisfierCause: f and the cause g of an assignment of t to p that
\* satisfies f's term for p, if need be with what t leaves of that term.
Resolvent(f, g, p, t) ==
  LET rest == (DOMAIN f \cup DOMAIN g) \ {p}
      left == IF Entails(t, f[p]) THEN {} ELSE {p}
  IN  Normalized([q \in rest \cup left |->
        IF q = p THEN Negate(Meet(t, Negate(f[p])))
        ELSE IF q \in DOMAIN f \cap DOMAIN g THEN Meet(f[q], g[q])
        ELSE IF q \in DOMAIN f THEN f[q] ELSE g[q]])

\* computeFirstSatisfied: the assignments up to n at which a term of f is
\* satisfied first; the assignment i, unless it is 0, is taken as given.
Held(i, p, j) ==
  IF i > 0 /\ p = asg[i].pkg THEN Meet(asg[i].term, Accum(asg, j, p)) ELSE Accum(asg, j, p)
ByItself(i, f, p) == i > 0 /\ p = asg[i].pkg /\ Entails(asg[i].term, f[p])
Firsts(n, f, i) ==
  {j \in 1..n : LET p == asg[j].pkg IN
     /\ p \in DOMAIN f /\ ~ByItself(i, f, p)
     /\ Entails(Held(i, p, j), f[p])
     /\ \A k \in Of(asg, j - 1, p) : ~Entails(Held(i, p, k), f[p])}

Latest(S) == {i \in S : \A j \in S : j <= i}

\* earliestSatisfier, and prevSatisfierLevel.
Satisfiers(f) == Latest(Firsts(Len(asg), f, 0))
PrevLevel(f, i) ==
  LET prev == Latest(Firsts(i - 1, f, i))
  IN  IF prev = {} THEN 0 ELSE asg[CHOOSE j \in prev : TRUE].level

ShouldBackjump(i, prev) == asg[i].cause = 0 \/ asg[i].level # prev

-----------------------------------------------------------------------------
NoConflict == [terms |-> <<>>, index |-> 0]
NoAttempt  == [ver |-> None, todo |-> {}, added |-> {}]

TypeOK ==
  /\ registry \in Registries
  /\ incs \in Seq({incs[i] : i \in 1..Len(incs)})
  /\ \A i \in 1..Len(incs) : IsTerms(incs[i].terms) /\ incs[i].edge \in Edges \cup {None}
  /\ asg \in Seq(Assignment)
  /\ \A i \in 1..Len(asg) : asg[i].cause \in 0..Len(incs)
  /\ level \in Nat /\ counts \in [Names -> Nat]
  /\ asked \subseteq Names \X Versions /\ fetched \subseteq Names /\ changed \subseteq Names
  /\ pkg \in Names /\ at \in 0..Len(incs)
  /\ IsTerms(conflict.terms) /\ conflict.index \in 0..Len(incs)
  /\ attempt \in [ver : Versions \cup {None}, todo : SUBSET Packages, added : SUBSET (1..Len(incs))]
  /\ result \in [Names -> Versions \cup {None}]
  /\ pc \in {"propagate", "scan", "resolve", "derive", "decide", "depend"} \cup Final

Init ==
  /\ registry \in Registries
  /\ incs = <<[terms |-> [p \in {Root} |-> Negate(Exactly(0))], edge |-> None]>>
  /\ asg = <<>> /\ level = 0
  /\ counts = [p \in Names |-> 0]
  /\ asked = {} /\ fetched = {Root}
  /\ changed = {Root} /\ pkg = Root /\ at = 0
  /\ conflict = NoConflict /\ attempt = NoAttempt
  /\ result = [p \in Names |-> None]
  /\ pc = "propagate"

-----------------------------------------------------------------------------
(***************************************************************************)
(* Unit propagation.                                                       *)
(***************************************************************************)
search == <<changed, pkg, at>>
picked == <<counts, asked, fetched, attempt, result>>

\* popSmallest, and the incompatibilities of the package, newest first.
Pop ==
  /\ pc = "propagate" /\ changed # {}
  /\ \E p \in changed :
       /\ \A q \in changed : p <= q
       /\ pkg' = p /\ changed' = changed \ {p}
  /\ at' = Len(incs) /\ pc' = "scan"
  /\ UNCHANGED <<registry, incs, asg, level, picked, conflict>>

Unit(f, p) == AlmostSatisfied(asg, f, p) /\ ~Equivalent(asg, p, Negate(f[p]))

\* Whether propagatePackage does something about an incompatibility.
Telling(i) ==
  LET f == incs[i].terms
  IN  pkg \in DOMAIN f /\ (Satisfied(asg, f) \/ \E p \in DOMAIN f : Unit(f, p))

Newest(i) == Telling(i) /\ \A j \in (i + 1)..at : ~Telling(j)

Propagate ==
  /\ pc = "scan"
  /\ \E i \in 1..at : LET f == incs[i].terms IN
       /\ Newest(i) /\ ~Satisfied(asg, f)
       /\ \E p \in DOMAIN f :
            /\ Unit(f, p)
            /\ asg' = Assign(asg, p, Negate(f[p]), level, i)
            /\ changed' = changed \cup {p}
       /\ at' = i - 1
  /\ UNCHANGED <<registry, incs, level, picked, pkg, conflict, pc>>

\* resolveConflict counts the packages of the conflict it is called with.
Conflict ==
  /\ pc = "scan"
  /\ \E i \in 1..at : LET f == incs[i].terms IN
       /\ Newest(i) /\ Satisfied(asg, f)
       /\ conflict' = [terms |-> f, index |-> i]
       /\ counts' = [p \in Names |-> IF p \in DOMAIN f THEN counts[p] + 1 ELSE counts[p]]
  /\ pc' = "resolve"
  /\ UNCHANGED <<registry, incs, asg, level, asked, fetched, attempt, result, search>>

ScanEnds ==
  /\ pc = "scan" /\ \A i \in 1..at : ~Telling(i)
  /\ pc' = "propagate"
  /\ UNCHANGED <<registry, incs, asg, level, picked, search, conflict>>

PropagationEnds ==
  /\ pc = "propagate" /\ changed = {}
  /\ pc' = "decide"
  /\ UNCHANGED <<registry, incs, asg, level, picked, search, conflict>>

-----------------------------------------------------------------------------
(***************************************************************************)
(* Conflict resolution.                                                    *)
(***************************************************************************)
Stop(why) ==
  /\ pc' = why
  /\ conflict' = NoConflict
  /\ UNCHANGED <<registry, incs, asg, level, picked, search>>

\* What resolveConflict returns: a proof, or that there is no satisfier.
ResolutionStops ==
  /\ pc = "resolve"
  /\ \/ Terminal(conflict.terms) /\ Stop("failed")
     \/ ~Terminal(conflict.terms) /\ Satisfiers(conflict.terms) = {} /\ Stop("bug")

\* One step of generalized resolution.
Merge ==
  /\ pc = "resolve" /\ ~Terminal(conflict.terms)
  /\ \E i \in Satisfiers(conflict.terms) :
       /\ ~ShouldBackjump(i, PrevLevel(conflict.terms, i))
       /\ conflict' = [terms |-> Resolvent(conflict.terms, incs[asg[i].cause].terms, asg[i].pkg, asg[i].term),
                       index |-> 0]
  /\ UNCHANGED <<registry, incs, asg, level, picked, search, pc>>

\* Mutant: the level to return to goes as well.
UpToBelow(l) == SelectSeq(asg, LAMBDA a : a.level < l)

\* backtrackTo.
UpTo(l) == SubSeq(asg, 1, Cardinality({i \in 1..Len(asg) : \E j \in i..Len(asg) : asg[j].level <= l}))

\* backjump: an incompatibility that was derived is stored.
Backjump ==
  /\ pc = "resolve" /\ ~Terminal(conflict.terms)
  /\ \E i \in Satisfiers(conflict.terms), prev \in 0..level :
       /\ prev = PrevLevel(conflict.terms, i) /\ ShouldBackjump(i, prev)
       /\ asg' = UpTo(prev) /\ level' = prev
  /\ IF conflict.index # 0 THEN UNCHANGED <<incs, conflict>>
     ELSE /\ incs' = Added(conflict.terms, None)
          /\ conflict' = [terms |-> conflict.terms, index |-> Index(conflict.terms)]
  /\ pc' = "derive"
  /\ UNCHANGED <<registry, picked, search>>

\* resolveAndDerive, with what resolveConflict returned.
DeriveRootCause ==
  /\ pc = "derive"
  /\ LET f    == conflict.terms
         open == {p \in DOMAIN f : AlmostSatisfied(asg, f, p)}
     IN  \/ open = {} /\ pc' = "gaveup" /\ UNCHANGED <<asg, changed>>
         \/ \E p \in open :
              /\ pc' = "propagate"
              /\ IF Equivalent(asg, p, Negate(f[p])) THEN changed' = {} /\ UNCHANGED asg
                 ELSE changed' = {p} /\ asg' = Assign(asg, p, Negate(f[p]), level, conflict.index)
  /\ conflict' = NoConflict
  /\ UNCHANGED <<registry, incs, level, picked, pkg, at>>

-----------------------------------------------------------------------------
(***************************************************************************)
(* Decisions.                                                              *)
(***************************************************************************)
Known(p)   == Accum(asg, Len(asg), p)
Allowed(p) == {v \in Pub(p) : Permits(Known(p), v)}

\* packageIsExactPin.  Before the fetch, the accumulation carries a version
\* only while it is a single term.
Pin(p) ==
  IF p \in fetched
    THEN IF Cardinality(Allowed(p)) = 1 THEN CHOOSE v \in Allowed(p) : TRUE ELSE None
    ELSE LET told == {i \in On(asg, p) : ~Tautology(asg[i].term)}
         IN  IF Cardinality(told) = 1 /\ Known(p).pos
               THEN asg[CHOOSE i \in told : TRUE].term.single ELSE None

\* candidatePackages.
Pool == {p \in Names : On(asg, p) # {} /\ ~Decided(p) /\ Known(p).pos}

\* pickPackage: the first by name of the first tier that has any.
Pinned    == {p \in Pool : Pin(p) # None}
Disputed  == {p \in Pool : counts[p] > 0 /\ \A q \in Pool : counts[q] <= counts[p]}
Narrowest == {p \in Pool \cap fetched : \A q \in Pool \cap fetched : Cardinality(Allowed(p)) <= Cardinality(Allowed(q))}
Tier ==
  IF Pinned # {} THEN Pinned
  ELSE IF Disputed # {} THEN Disputed
  ELSE IF Narrowest # {} THEN Narrowest ELSE Pool
IsPick(p) == p \in Tier /\ \A q \in Tier : p <= q

\* tryFastDecide: the version decided without the universe, or none.
Fast(p) ==
  IF Pin(p) # None THEN Pin(p)
  ELSE IF p \notin fetched /\ Reported(registry, p) # None /\ Permits(Known(p), Reported(registry, p))
    THEN Reported(registry, p) ELSE None

Highest(S) == {v \in S : \A w \in S : w <= v}

\* Mutant: the dependencies are remembered by package.
TryOnce(p, v) ==
  /\ pkg' = p
  /\ IF \E w \in Versions : <<p, w>> \in asked
       THEN attempt' = [ver |-> v, todo |-> {}, added |-> {}] /\ UNCHANGED asked
       ELSE /\ v \in Pub(p)
            /\ attempt' = [ver |-> v, todo |-> DOMAIN Needs(p, v), added |-> {}]
            /\ asked' = asked \cup {<<p, v>>}
  /\ pc' = "depend"
  /\ UNCHANGED <<incs, changed>>

\* decideVersion asks for the dependencies of a version once; a version that
\* was never published has none to give.
Try(p, v) ==
  /\ pkg' = p
  /\ IF <<p, v>> \in asked
       THEN attempt' = [ver |-> v, todo |-> {}, added |-> {}] /\ UNCHANGED asked
       ELSE /\ v \in Pub(p)
            /\ attempt' = [ver |-> v, todo |-> DOMAIN Needs(p, v), added |-> {}]
            /\ asked' = asked \cup {<<p, v>>}
  /\ pc' = "depend"
  /\ UNCHANGED <<incs, changed>>

\* decideFromAllowed without an allowed version.
NoVersions(p) ==
  LET t == IF Pub(p) = {} THEN Pos(Points, None) ELSE Known(p)
  IN  /\ incs' = Added([q \in {p} |-> t], None)
      /\ pkg' = p /\ changed' = {p} /\ pc' = "propagate"
      /\ UNCHANGED <<asked, attempt>>

Decide ==
  /\ pc = "decide"
  /\ \E p \in Pool : IsPick(p) /\
       \/ Fast(p) # None /\ Try(p, Fast(p)) /\ UNCHANGED fetched
       \/ /\ Fast(p) = None /\ fetched' = fetched \cup {p}
          /\ \/ \E v \in Highest(Allowed(p)) : Try(p, v)
             \/ Allowed(p) = {} /\ NoVersions(p)
  /\ UNCHANGED <<registry, asg, level, counts, at, conflict, result>>

\* A provider call fails, as it does for a pin that was never published, or
\* the context is canceled.
Abort == pc = "decide" /\ Stop("aborted")

\* dependencyIncompatibilities, in name order.
DependencyTerms(p, v, d) ==
  LET c == Needs(p, v)[d]
  IN  IF c.set = {} THEN [q \in {p} |-> Exactly(v)]
      ELSE [q \in {p, d} |-> IF q = d THEN Not(c.set, c.single) ELSE Exactly(v)]

AddDependency ==
  /\ pc = "depend"
  /\ \E d \in attempt.todo :
       LET f == DependencyTerms(pkg, attempt.ver, d) IN
       /\ \A e \in attempt.todo : d <= e
       /\ incs' = Added(f, <<pkg, attempt.ver, d>>)
       /\ attempt' = [ver |-> attempt.ver, todo |-> attempt.todo \ {d}, added |-> attempt.added \cup {Index(f)}]
  /\ UNCHANGED <<registry, asg, level, counts, asked, fetched, search, conflict, result, pc>>

\* relateTentative: the decision is declined if it satisfies one of them.
Declined ==
  \E i \in attempt.added : LET f == incs[i].terms IN
    \A q \in DOMAIN f :
      IF q = pkg THEN Permits(f[q], attempt.ver) ELSE Relation(asg, q, f[q]) = "satisfied"

RecordDecision ==
  /\ pc = "depend" /\ attempt.todo = {}
  /\ IF Declined THEN UNCHANGED <<asg, level>>
     ELSE /\ level' = IF pkg = Root THEN level ELSE level + 1
          /\ asg' = Assign(asg, pkg, Exactly(attempt.ver), level', 0)
  /\ changed' = {pkg} /\ attempt' = NoAttempt
  /\ pc' = "propagate"
  /\ UNCHANGED <<registry, incs, counts, asked, fetched, pkg, at, conflict, result>>

-----------------------------------------------------------------------------
(***************************************************************************)
(* The result.                                                             *)
(***************************************************************************)
Chosen(p) == asg[CHOOSE i \in Decisions(asg, p) : TRUE].term.single

\* decidedDependencyNames.
Dependencies(p) ==
  IF Decided(p) THEN {d \in Packages : \E i \in 1..Len(incs) : incs[i].edge = <<p, Chosen(p), d>>} ELSE {}

\* What the root reaches through the dependencies of decisions.
Reached ==
  LET deps == [q \in Names |-> Dependencies(q)]
      closed == {S \in SUBSET Names : Root \in S /\ \A q \in S : deps[q] \subseteq S}
  IN  {p \in Names : \A S \in closed : p \in S}

\* extractResult.
Extract ==
  /\ pc = "decide" /\ Pool = {}
  /\ LET reached == Reached IN
       IF \A p \in reached : Decided(p)
         THEN /\ result' = [p \in Names |-> IF p \in reached THEN Chosen(p) ELSE None]
              /\ pc' = "done"
         ELSE pc' = "bug" /\ UNCHANGED result
  /\ UNCHANGED <<registry, incs, asg, level, counts, asked, fetched, attempt, search, conflict>>

Stopped == pc \in Final /\ UNCHANGED vars

Step ==
  \/ Pop \/ Propagate \/ Conflict \/ ScanEnds \/ PropagationEnds
  \/ ResolutionStops \/ Merge \/ Backjump \/ DeriveRootCause
  \/ Decide \/ Abort \/ AddDependency \/ RecordDecision \/ Extract

Next == Step \/ Stopped

Spec     == Init /\ [][Next]_vars
\* Solve is one goroutine, and every provider call returns.
FairSpec == Spec /\ WF_vars(Step)

-----------------------------------------------------------------------------
(***************************************************************************)
(* Properties.                                                             *)
(***************************************************************************)
\* A selection has the root, and what its versions need.
IsSelection(c) ==
  /\ c[Root] = 0
  /\ \A p \in Names : c[p] # None =>
       /\ c[p] \in Pub(p)
       /\ \A d \in DOMAIN Needs(p, c[p]) : c[d] # None /\ Point[c[d]] \in Needs(p, c[p])[d].set
Selections == {c \in [Names -> Versions \cup {None}] : IsSelection(c)}

\* No package publishes two spellings of one version.
OneSpelling ==
  \A r \in Registries, p \in Names : \A v, w \in Published(r, p) : Point[v] = Point[w] => v = w

\* Solve's conflict error is a proof: when resolution ends in a terminal
\* incompatibility, no selection meets the requirements, whatever was learned,
\* forgotten in a backjump and decided in between.
FailsOnlyIfNone == pc = "failed" => Selections = {}

\* What extractResult returns is a selection: every constraint of the root and
\* of every version in it is met by a published version, and nothing a
\* decision reaches is left out.
ResultIsSelection == pc = "done" => IsSelection(result)

\* Solve ends, and in an answer, unless its context is canceled: neither limit
\* on iterations is needed, and what the solver takes for its own defects never
\* comes about (a satisfied incompatibility without a satisfier, a root cause
\* that is not almost satisfied after the backjump, an undecided package in the
\* result).
SolveEnds == <>(pc \in {"done", "failed", "aborted"})
=============================================================================
