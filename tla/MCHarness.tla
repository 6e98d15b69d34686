------------------------------ MODULE MCHarness ------------------------------
(***************************************************************************)
(* A small session of the harness: a pair of prefills, with and without    *)
(* the cache, and a matrix product, in chunks whose files are overwritten, *)
(* compared and merged.                                                    *)
(***************************************************************************)
EXTENDS Harness

CONSTANTS f1, f2, f3, other

cached   == Config("prefill", 1, "cache")
uncached == Config("prefill", 1, "nocache")
product  == Gemm(3)

Chunk(list, compare, out)   == RunCommand(list, D3, FALSE, "all", compare, "whole", out)
MergeOf(parts, compare, out) == MergeCommand(parts, compare, "absent", out)

(* The cached half of a pair, compared with the file of the others; its     *)
(* control with a product; another prompt set with permission (compared     *)
(* with the merge, where the cached half has D3 and the product none) and   *)
(* without; a torn correctness file; the two dry runs; merges, one of a     *)
(* single part and one of a merge and a chunk, which may overlap.           *)
MCCommands ==
  { Chunk(<<cached>>, f2, f1),
    Chunk(<<uncached, product>>, f1, f2),
    RunCommand(<<product, cached>>, other, TRUE, "all", f3, "absent", f2),
    RunCommand(<<product>>, D3, FALSE, "all", NoFile, "torn", f2),
    RunCommand(<<cached>>, other, FALSE, "all", NoFile, "absent", f2),
    RunCommand(<<cached>>, D3, FALSE, "preflight", NoFile, "absent", f1),
    RunCommand(<<cached, uncached>>, D3, FALSE, "probe", NoFile, "absent", f1),
    MergeOf(<<f1, f2>>, f2, f3),
    MergeOf(<<f2>>, NoFile, f3),
    MergeOf(<<f3, f1>>, NoFile, f3) }

(* The second build has the first one's flags, the third has others.        *)
MCFlags == <<"O2", "O2", "O3">>

(* The halves of a pair in chunks of their own.                             *)
MCSplitCommands ==
  { Chunk(<<cached>>, NoFile, f1), Chunk(<<uncached>>, NoFile, f2),
    MergeOf(<<f1, f2>>, NoFile, f3) }
=============================================================================
