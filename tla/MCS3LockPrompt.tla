--------------------------- MODULE MCS3LockPrompt ---------------------------
(***************************************************************************)
(* Instances of S3LockPrompt for TLC.                                      *)
(***************************************************************************)
EXTENDS S3LockPrompt, MCS3Lock
=============================================================================
