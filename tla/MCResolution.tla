---------------------------- MODULE MCResolution ----------------------------
(***************************************************************************)
(* Two collections in two versions on two servers.  app depends on lib:    *)
(* its version 2 on lib's version 2 alone, and the mirror's version 1 of   *)
(* app on nothing.  The hub has no lib at first.                           *)
(***************************************************************************)
EXTENDS Resolution

CONSTANTS hub, mirror, app, lib

Any == Versions
On(want) == [c \in Collections |-> IF c = lib THEN want ELSE None]
MCNeeds == [s \in Servers |-> [c \in Collections |-> [v \in Versions |->
  CASE c = lib -> NoSpec
    [] c = app /\ v = 2 -> On({2})
    [] c = app /\ v = 1 /\ s = hub -> On(Any)
    [] OTHER -> NoSpec]]]
MCFirstServed == [s \in Servers |-> [c \in Collections |->
  CASE s = hub /\ c = lib -> {} [] s = hub /\ c = app -> {1} [] OTHER -> {1}]]

Root(want, source) == [want |-> want, source |-> source]
File(a, l) == [c \in Collections |-> IF c = app THEN a ELSE l]
MCRequirements == {File(Root(Any, None), None), File(Root(Any, None), Root({1}, None)),
                   File(Root(Any, mirror), Root(Any, None))}
MCConfigs == [list : {<<hub, mirror>>}, mode : {{}, {"refresh"}, {"offline"}, {"no-cache"}, {"no-deps"}}]
             \cup {[list |-> <<mirror>>, mode |-> {}]}
=============================================================================
