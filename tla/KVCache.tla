------------------------------- MODULE KVCache -------------------------------
(***************************************************************************)
(* The key/value store of src/kv_cache.c: per layer one buffer of rows,    *)
(* one row per position, and ONE length counter for the whole store.       *)
(*                                                                         *)
(* A cache is a value, and each function of the C interface is an operator *)
(* that gives the status it returns or the cache it leaves behind.         *)
(*                                                                         *)
(* Data abstraction: the K and the V row of a position are written by the  *)
(* same call from the same activation, so they are one value here, the     *)
(* "row".  What a row is, its writer decides (module Engine labels it with *)
(* the tokens it was computed from).  A null pointer is NullCache, which   *)
(* has capacity 0: kv_cache_create never makes a cache of capacity 0, and  *)
(* kv_cache_capacity and kv_cache_length return 0 for a null pointer.      *)
(***************************************************************************)
EXTENDS Integers, Sequences

CONSTANT NLayer       \* the number of layers the cache was created for

ASSUME NLayerAssumption == NLayer \in Nat \ {0}

Layers == 0 .. NLayer - 1

Blank == <<>>         \* a row as memset left it

NullCache == [capacity |-> 0, length |-> 0,
              rows |-> [l \in Layers |-> [p \in {} |-> Blank]]]

CacheOK(c, Row) ==
  /\ c = [capacity |-> c.capacity, length |-> c.length, rows |-> c.rows]
  /\ c.capacity \in Nat
  /\ c.length \in 0 .. c.capacity
  /\ c.rows \in [Layers -> [0 .. c.capacity - 1 -> Row]]
-----------------------------------------------------------------------------
(* kv_cache_create: the shape check, then every allocation.  `mem` is      *)
(* whether all the allocations succeed: the first that fails destroys what *)
(* was allocated and leaves *out NULL.                                     *)
CreateStatus(capacity, mem) ==
  IF capacity <= 0 THEN "ARG" ELSE IF ~mem THEN "NOMEM" ELSE "OK"

Create(capacity) ==
  [capacity |-> capacity, length |-> 0,
   rows |-> [l \in Layers |-> [p \in 0 .. capacity - 1 |-> Blank]]]

(* kv_cache_set_length: any length up to the capacity is taken, whether or *)
(* not the rows below it were ever written.                                *)
\* Mutant: the length is not held to the capacity.
SetLengthStatusUnbounded(capacity, n) == IF capacity = 0 \/ n < 0 THEN "ARG" ELSE "OK"

SetLengthStatus(capacity, n) ==
  IF capacity = 0 \/ n < 0 THEN "ARG"
  ELSE IF n > capacity THEN "CAPACITY" ELSE "OK"

SetLength(c, n) ==
  IF SetLengthStatus(c.capacity, n) = "OK" THEN [c EXCEPT !.length = n] ELSE c

(* kv_cache_write: the position is checked before either store, so a       *)
(* refused write leaves the cache as it was.                               *)
WriteStatus(c, pos) ==
  IF c.capacity = 0 \/ pos < 0 THEN "ARG"
  ELSE IF pos >= c.capacity THEN "CAPACITY" ELSE "OK"

Write(c, layer, pos, row) ==
  IF WriteStatus(c, pos) = "OK" THEN [c EXCEPT !.rows[layer][pos] = row] ELSE c
=============================================================================
