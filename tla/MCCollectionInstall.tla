------------------------ MODULE MCCollectionInstall ------------------------
(* An instance of CollectionInstall for TLC: two versions of a collection,
   one of them at two servers, and two artifacts whose trees have one tally. *)
EXTENDS CollectionInstall

CONSTANTS d1, d2, junk

MCItems   == {"v1", "v2", "v1mirror"}
MCVersion == [i \in MCItems |-> IF i = "v2" THEN 2 ELSE 1]
MCSource  == [i \in MCItems |-> IF i = "v1mirror" THEN "mirror" ELSE "server"]
MCDigests == {d1, d2, junk}
MCShared  == {"v1"}
MCPins    == {d1, d2}
MCBroken  == {junk}
MCTally   == [d \in MCDigests |-> 1]
=============================================================================
