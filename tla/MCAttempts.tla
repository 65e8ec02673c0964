----------------------------- MODULE MCAttempts -----------------------------
(* One run with two concurrent downloads, two tries each and two requests.*)
EXTENDS Attempts
=============================================================================
