----------------------------- MODULE MCGenerate -----------------------------
(***************************************************************************)
(* Small instances of the program: contexts of at most four tokens, every  *)
(* prompt up to one token longer, and up to three generated tokens.        *)
(***************************************************************************)
EXTENDS Generate, FiniteSets

CONSTANTS t1, t2, bad

Sequences(n) == UNION { [1 .. k -> {t1, t2}] : k \in 0 .. n }

MCPrompts   == Sequences(NCtx + 1)

MCGenerates == 0 .. NCtx - 1
MCTruncates == {0, 1, 2}

\* An argmax that depends on every token of the context, not only on the last.
MCArgmax ==
  [c \in Sequences(NCtx) |->
     IF Cardinality({ i \in 1 .. Len(c) : c[i] = t1 }) % 2 = 0 THEN t1 ELSE t2]
=============================================================================
