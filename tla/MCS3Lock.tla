------------------------------ MODULE MCS3Lock ------------------------------
(***************************************************************************)
(* Instances of S3Lock for TLC.                                            *)
(***************************************************************************)
EXTENDS S3Lock, TLC

\* Runs differ only in their name.
Symmetry == Permutations(Runs)

\* What the future of a run depends on: TLC need not tell apart two states
\* that differ in a variable no later step of that run reads.
Live(r) ==
  <<pc[r], verdict[r], relErr[r], lost[r], cause[r], interrupted[r],
    IF pc[r] \in {"create", "swap"} \/ hb[r] = "put" THEN dl[r] ELSE 0,
    IF pc[r] \in Acquiring THEN <<seen[r], retries[r]>> ELSE <<>>,
    IF pc[r] \in Acquiring \/ (pc[r] \in Releasing /\ verdict[r] = "none")
      THEN <<observed[r], waitEnd[r]>> ELSE <<>>,
    IF pc[r] \in Releasing THEN relEnd[r] ELSE 0,
    IF hb[r] # "off" THEN <<hb[r], hbDue[r], missed[r]>> ELSE <<>>>>

View == <<now, obj, late, faults, [r \in Runs |-> Live(r)]>>
=============================================================================
