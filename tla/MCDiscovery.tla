---------------------------- MODULE MCDiscovery ----------------------------
(***************************************************************************)
(* A repository A that is a role and holds two collections, tarballs U of  *)
(* a role and T of a collection, a repository B the role of A depends on,  *)
(* and a Galaxy role over a repository G with tags.                        *)
(***************************************************************************)
EXTENDS Discovery, TLC

Role(name, kind, src, ver) == [what |-> "role", name |-> name, kind |-> kind, src |-> src, ver |-> ver]
Collection(name, kind, src, ver) ==
  [what |-> "collection", name |-> name, kind |-> kind, src |-> src, ver |-> ver]
File(git, url, roles) == [git |-> git, url |-> url, roles |-> roles]

MCHeads == {<<"A", "main">>, <<"B", "main">>, <<"U", "">>, <<"T", "">>, <<"G", "1.0">>, <<"G", "2.0">>}
MCFirstTip == [h \in MCHeads |-> IF h = <<"G", "2.0">> THEN 2 ELSE 1]
MCMoving == {<<"A", "main">>, <<"U", "">>}
Contents == {"A", "B", "U", "T", "G"} \X (1 .. 2)
MCHoldsOf == [k \in Contents |-> IF k[1] = "A" THEN {"a.one", "a.two"} ELSE IF k[1] = "T" THEN {"a.one"} ELSE {}]
MCBuiltAs == [k \in Contents |-> "1.0.0"]

X == Role("x", "git", "A", <<"name", "main">>)
Y == Role("y", "url", "U", "")
Z == Role("z", "galaxy", "z", "")
D == Role("d", "git", "B", <<"name", "main">>)
\* The first commit of A needs d, which needs x back from its first commit;
\* the second needs a y of its own.
MCDepsOf ==
  [k \in Contents |->
     CASE k = <<"A", 1>> -> <<D>>
       [] k = <<"A", 2>> -> <<Role("y", "git", "B", <<"name", "main">>)>>
       [] k[1] = "B" -> <<Role("x", "git", "A", <<"commit", 1>>)>>
       [] OTHER -> <<>>]

V1(state) == [z |-> [v1 |-> state, repo |-> "G", branch |-> "main"]]
MCServers == <<V1("none"), V1("absent"), V1("role")>>
MCTagLists == <<<<"1.0">>, <<"1.0", "2.0">>>>
MCLoose == [v \in {"1.0", "2.0"} |-> <<[num |-> TRUE, n |-> IF v = "1.0" THEN 1 ELSE 2], [num |-> TRUE, n |-> 0]>>]

One == Collection("a.one", "git", "A", <<"name", "main">>)
Absent == Collection("a.none", "git", "A", <<"name", "main">>)
Tar == Collection(AnyName, "url", "T", "1.0.0")
\* The third names a.one twice, the last what A does not hold.
MCFiles ==
  {File(<<One>>, <<>>, <<X, Y>>), File(<<>>, <<Tar>>, <<Y, Z>>),
   File(<<One>>, <<Tar>>, <<>>), File(<<Absent>>, <<>>, <<>>)}
MCNames == {"x", "y", "z", "d", "a.one", "a.two"}

ASSUME PinsApart
=============================================================================
