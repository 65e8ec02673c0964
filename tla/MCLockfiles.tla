----------------------------- MODULE MCLockfiles -----------------------------
(***************************************************************************)
(* Galaxy collections a and b, a needing b; a repository with k and l, k   *)
(* needing b; a tarball u; three roles.  Two versions of everything.       *)
(***************************************************************************)
EXTENDS Lockfiles

CONSTANT Some      \* the projects of this run, by name

Root(kind, name, at, ref) ==
  [kind |-> kind, name |-> name, at |-> at, subdir |-> <<>>, ref |-> ref, version |-> Unset, admits |-> {"1", "2"}]
RoleRoot(kind, name, src, version) == [kind |-> kind, name |-> name, src |-> src, version |-> version]
a == Root("galaxy", "a", Unset, Unset)
u == Root("url", Unset, "tarball", Unset)
Project(roots, roles) == [roots |-> roots, roles |-> roles]
ProjectOf ==
  [first |-> Project({[a EXCEPT !.admits = {"1"}], [u EXCEPT !.version = "1"]}, {}),
   second |-> Project({[a EXCEPT !.admits = {"2"}, !.at = "m"], [u EXCEPT !.version = "2"]}, {}),
   branch |-> Project({Root("git", Unset, "repo", "dev")}, {}),
   named |-> Project({Root("git", "k", "repo", "main")}, {RoleRoot("git", "r", "rolerepo", "main")}),
   deep |-> Project({[Root("git", Unset, "repo", "main") EXCEPT !.subdir = <<"k">>], a}, {RoleRoot("galaxy", "g", "o.g", Unset)}),
   roles |-> Project({}, {RoleRoot("git", "r", "rolerepo", "dev"), RoleRoot("url", "v", "roleball", "1")}),
   branches |-> Project({Root("git", "k", "repo", "main"), Root("git", "l", "repo", "dev")}, {})]
MCProjects == {ProjectOf[n] : n \in Some}

ids == [h |-> "hub", m |-> "mirror"]
MCServerLists == {[default |-> "hub", ids |-> ids], [default |-> "mirror", ids |-> [ids EXCEPT !.m = "mirror2"]]}

MCWorlds == [top : {"1", "2"}, flaw : {"none"}] \cup
            [top : {"2"}, flaw : {"no digest", "bad digest", "off server", "query", "inexact", "gone"}]

Bag(names) == [n \in names |-> 1]

MCResolution(p, cfg, w) ==
  LET RootOf(n) == CHOOSE r \in p.roots :
        \/ r.name = n
        \/ r.name = Unset /\ n = "u" /\ r.kind = "url"
        \/ r.name = Unset /\ n \in {"k", "l"} /\ r.kind = "git"
      Found(r) == CASE r.kind = "url" -> {"u"} [] r.kind = "galaxy" -> {r.name}
                    [] r.kind = "git" /\ r.name # Unset -> {r.name}
                    [] OTHER -> IF r.subdir = <<>> THEN {"k", "l"} ELSE {"k"}
      asked == UNION {Found(r) : r \in p.roots}
      names == asked \cup (IF asked \cap {"a", "k"} # {} THEN {"b"} ELSE {})
      Col(n) ==
        CASE n = "b" -> [kind |-> "galaxy", version |-> IF w.flaw = "inexact" THEN Malformed ELSE w.top, at |-> cfg.default,
                         subdir |-> <<>>, ref |-> Unset, pin |-> Unset, deps |-> Bag({})]
          [] n = "a" -> [kind |-> "galaxy", version |-> IF w.top \in RootOf("a").admits THEN w.top ELSE
                                                        CHOOSE v \in {"1", "2"} : v # w.top,
                         at |-> lockedServerBase(cfg, RootOf("a").at),
                         subdir |-> <<>>, ref |-> Unset, pin |-> Unset, deps |-> Bag({"b"})]
          [] n = "u" -> [kind |-> "url", version |-> IF RootOf(n).version = Unset THEN w.top ELSE RootOf(n).version, at |-> "tarball",
                         subdir |-> <<>>, ref |-> Unset, pin |-> w.top, deps |-> Bag({})]
          [] OTHER -> [kind |-> "git", version |-> "1", at |-> "repo", subdir |-> <<n>>, ref |-> RootOf(n).ref,
                       pin |-> w.top, deps |-> IF n = "k" THEN Bag({"b"}) ELSE Bag({})]
      RoleCol(r) ==
        [kind |-> r.kind, galaxy |-> r.src, at |-> IF r.kind = "galaxy" THEN "rolerepo" ELSE r.src,
         version |-> IF r.version = Unset THEN w.top ELSE r.version,
         server |-> IF r.kind = "galaxy" /\ w.top = "2" THEN "hub" ELSE Unset,
         ref |-> r.version \o (IF r.kind = "galaxy" THEN "tag" ELSE ""), pin |-> w.top, deps |-> Bag({})]
  IN [collections |-> [n \in names |-> Col(n)],
      roles |-> [n \in {r.name : r \in p.roles} |-> RoleCol(CHOOSE r \in p.roles : r.name = n)]]

\* b is no longer published.
MCUnresolvable(p, cfg, w) == w.flaw = "gone" /\ "b" \in DOMAIN MCResolution(p, cfg, w).collections

MCMetadata(n, col, w) ==
  LET own == <<col.at, n, col.version>> IN
  [sha |-> CASE w.flaw = "no digest" -> Unset [] w.flaw = "bad digest" -> Malformed [] OTHER -> "sha" \o col.version,
   url |-> CASE w.flaw = "off server" -> <<"elsewhere", n, col.version>>
             [] w.flaw = "query" -> Append(own, "query")
             [] OTHER -> IF w.top = "2" THEN Append(own, "fragment") ELSE own]

ASSUME OneRefEach

Originals == UNION {Built(p, c, w) : p \in MCProjects, c \in MCServerLists, w \in MCWorlds}
Unreadable == [schema |-> 0, server |-> Unset, collections |-> {}, roles |-> {}]

Pins == {Unset, Malformed, "1"}
Touched(e) ==
  {[e EXCEPT !.version = v] : v \in Pins} \cup {[e EXCEPT !.sha = v] : v \in Pins} \cup {[e EXCEPT !.commit = v] : v \in Pins}
  \cup {[e EXCEPT !.source = s] : s \in {Unset, Malformed, "m", "mirror"}}
  \cup {[e EXCEPT !.ref = r] : r \in {Unset, Malformed, "dev"}}
  \cup {[e EXCEPT !.deps = d] : d \in {Bag({}), [n \in {"b"} |-> 2], Bag({"gone"})}}
  \cup {[e EXCEPT !.type = t] : t \in {Unset, "git", "url", "galaxy"}}
TouchedEntries(e) ==
  Touched(e) \cup {[e EXCEPT !.url = x] : x \in {<<>>, <<"mirror", e.name, e.version>>, <<e.source, e.name, "1">>, <<"hub", e.name, e.version, "query">>}}
             \cup {[e EXCEPT !.subdir = d] : d \in {<<>>, <<"k">>, <<"x", "k">>}}
TouchedRoles(e) == Touched(e) \cup {[e EXCEPT !.galaxy = x] : x \in {Unset, "o.h"}} \cup {[e EXCEPT !.repository = x] : x \in {Unset, "other"}}

\* One edit of a file that lock wrote: a field, a line that is gone, written
\* twice or merged from another lock, the header; no file, or no file of ours.
MCEdits(files) ==
  IF files = <<>> \/ files[1] \notin Originals THEN {}
  ELSE LET f == files[1] IN
    {<<>>, <<Unreadable>>}
    \cup {<<[f EXCEPT !.schema = n]>> : n \in 1 .. 6} \cup {<<[f EXCEPT !.server = s]>> : s \in {Unset, "mirror"}}
    \cup UNION {{<<[f EXCEPT !.collections = (f.collections \ {e}) \cup d]>> :
                   d \in {{}} \cup {{x} : x \in TouchedEntries(e)} \cup {{e, [e EXCEPT !.version = "1"]}}} : e \in f.collections}
    \cup UNION {{<<[f EXCEPT !.roles = (f.roles \ {e}) \cup d]>> :
                   d \in {{}} \cup {{x} : x \in TouchedRoles(e)} \cup {{e, [e EXCEPT !.version = "1"]}}} : e \in f.roles}
    \cup {<<[f EXCEPT !.collections = g.collections]>> : g \in Originals}
=============================================================================
