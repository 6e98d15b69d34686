---------------------------- MODULE MCBenchDriver ----------------------------
(***************************************************************************)
(* Small instances of the timed driver: contexts of at most two tokens, a  *)
(* warmup of one and between two and three samples a configuration.        *)
(***************************************************************************)
EXTENDS BenchDriver

CONSTANTS t1, t2, bad

Row(target, ids) == [target |-> target, ids |-> ids]

(* A row to truncate; an exact row before it, found first; an exact row    *)
(* that is not exact; a row too short for most; and one with an id the     *)
(* model does not have.                                                    *)
MCFixtures ==
  { << Row(0, <<t1, t2, t1>>) >>,
    << Row(0, <<t1, t1, t1>>), Row(2, <<t2, t1>>) >>,
    << Row(3, <<t1, t2>>) >>,
    << Row(1, <<t2>>) >>,
    << Row(0, <<t1, bad, t1>>) >> }

(* None (the default list); a pair of members per length; a cached decode  *)
(* after one that disturbs the cache; one at a context of 1; a length past *)
(* the context.                                                            *)
MCConfigLists ==
  { <<>>,
    << Config("decode", 2, TRUE), Config("decode", 2, FALSE),
       Config("prefill", 2, TRUE), Config("prefill", 1, FALSE) >>,
    << Config("prefill", 1, TRUE), Config("decode", 2, TRUE), Gemm(3),
       Config("decode", 2, TRUE) >>,
    << Config("decode", 1, TRUE) >>,
    << Config("prefill", 3, FALSE), Config("decode", 2, FALSE) >> }

MCLengthLists  == { <<1, 2>> }
MCContextLists == { <<2>> }

(* Steady; around the limit of the spread, on both sides of it; a call     *)
(* that is far from the others.                                            *)
MCClocks == { <<20>>, <<20, 21>>, <<20, 21, 22, 20>>, <<20, 22>>, <<1, 7, 7>>, <<21, 40, 20, 20, 3>> }
=============================================================================
