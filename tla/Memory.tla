------------------------------- MODULE Memory -------------------------------
(***************************************************************************)
(* malloc, realloc, fopen and their counterparts, as the readers in src/   *)
(* use them: objects that are held, and whether one was released, or an    *)
(* array written, that was not the program's to release or write.          *)
(***************************************************************************)
VARIABLES
  live,      \* the objects allocated and not released
  wild       \* something was released that was not live, or a write missed its array

heapVars == <<live, wild>>

\* A step allocates `got` and releases `objects`.
Heap(got, objects) ==
  /\ live' = (live \cup got) \ objects
  /\ wild' = (wild \/ ~(objects \subseteq live \cup got))
=============================================================================
