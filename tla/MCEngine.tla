------------------------------ MODULE MCEngine ------------------------------
(***************************************************************************)
(* Small instances of the engine: two layers, a context of at most three   *)
(* positions, two tokens and an id outside the vocabulary.                 *)
(***************************************************************************)
EXTENDS EngineRefinement

CONSTANTS t1, t2, bad, x, scores

\* All token arrays up to one longer than n_ctx, and bad ids first, last and between.
AllInputs(n) ==
  UNION { [1 .. k -> {t1, t2}] : k \in 0 .. n } \cup { <<bad>>, <<t1, bad>>, <<bad, t1>> }

MCInputs   == AllInputs(NCtx) \cup { [i \in 1 .. NCtx + 1 |-> t1] }
\* The same up to renaming the first token: every array begins with t1.
MCRestoringInputs == { ids \in MCInputs : ids = <<>> \/ ids[1] = t1 }

MCLengths  == -1 .. NCtx + 1
MCRequests == 0 .. NCtx + 1

\* Requests past what an int holds: 2^w + 1, and one whose conversion is negative.
MCWideRequests == MCRequests \cup { IntModulus + 1, IntModulus - 1 }
=============================================================================
