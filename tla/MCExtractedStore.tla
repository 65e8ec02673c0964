-------------------------- MODULE MCExtractedStore --------------------------
(* Instances of ExtractedStore for TLC. *)
EXTENDS ExtractedStore

CONSTANTS s1, s2, w1, w2

MCShas    == {s1, s2}
MCWorkers == {w1, w2}
=============================================================================
