------------------------------ MODULE EngineApi ------------------------------
(***************************************************************************)
(* What a caller of src/model.c sees of its argument checks: the order of  *)
(* the early returns of every entry point, as a status.  The engine itself *)
(* (module Engine) and the contract it implements (module CacheContract)   *)
(* answer with the same statuses.                                          *)
(*                                                                         *)
(* A token array is a sequence over Tokens and BadToken, BadToken standing *)
(* for every id outside 0 .. vocab_size - 1.  Null arguments are left out. *)
(***************************************************************************)
EXTENDS Integers, Sequences

CONSTANTS
  Tokens,       \* the token ids the vocabulary has
  BadToken,     \* an id it does not have
  NCtx,         \* the model's n_ctx: the longest context
  IntModulus,   \* 2^w for the w bits of a C int
  Inputs,         \* the token arrays callers pass
  TokenRequests,  \* the max_tokens callers pass to model_reserve
  CacheRequests,  \* the capacities callers pass to model_kv_reserve
  LengthRequests  \* the lengths callers pass to model_kv_set_length

ASSUME ApiAssumption ==
  /\ BadToken \notin Tokens
  /\ NCtx \in Nat \ {0}
  /\ IntModulus \in Nat /\ IntModulus > 2 * (NCtx + 1)
  /\ Inputs \subseteq Seq(Tokens \cup {BadToken})
  /\ TokenRequests \subseteq Nat
  /\ CacheRequests \subseteq Nat
  /\ LengthRequests \subseteq Int

Paths    == {"nocache", "cache"}
Statuses == {"OK", "ARG", "RANGE", "CAPACITY", "NOMEM"}

\* The token sequences a forward pass accepts.
Contexts == { s \in Seq(Tokens) : Len(s) \in 1 .. NCtx }

\* The conversion (int)n of a size_t.
AsInt(n) == LET r == n % IntModulus
            IN  IF 2 * r >= IntModulus THEN r - IntModulus ELSE r

\* The first n tokens of s, and all but the last.
Take(s, n) == SubSeq(s, 1, n)
Butlast(s) == SubSeq(s, 1, Len(s) - 1)
LastOf(s)  == s[Len(s)]
-----------------------------------------------------------------------------
(* model_reserve, as the number of tokens `room` the scratch is reserved   *)
(* for: a request within it allocates nothing, and `mem` is whether every  *)
(* allocation of a larger one succeeds.                                    *)
AtLeastOne(T) == IF T = 0 THEN 1 ELSE T

\* Mutant: a request for exactly what is reserved reallocates.
ReserveStatusStrict(T, room, mem) == IF AtLeastOne(T) < room \/ mem THEN "OK" ELSE "NOMEM"

ReserveStatus(T, room, mem) == IF AtLeastOne(T) <= room \/ mem THEN "OK" ELSE "NOMEM"

RoomAfter(T, room, mem) == IF AtLeastOne(T) > room /\ mem THEN AtLeastOne(T) ELSE room

(* model_prefill and model_decode_step on the no-cache path refuse a small *)
(* logits buffer before model_reserve ...                                  *)
BlocksEarlyStatus(fits) == IF fits THEN "OK" ELSE "CAPACITY"

(* ... and everything else in forward_blocks, after it.  capacity is 0     *)
(* when there is no cache; store is whether the pass writes to it.         *)
\* Mutant: the pass is not held to the cache's capacity.
BlocksStatusUnbounded(ids, store, capacity) ==
  IF Len(ids) = 0 THEN "ARG"
  ELSE IF Len(ids) > NCtx THEN "RANGE"
  ELSE IF \E t \in 1 .. Len(ids) : ids[t] \notin Tokens THEN "RANGE"
  ELSE IF store /\ capacity = 0 THEN "ARG"
  ELSE "OK"

BlocksStatus(ids, store, capacity) ==
  IF Len(ids) = 0 THEN "ARG"
  ELSE IF Len(ids) > NCtx THEN "RANGE"
  ELSE IF \E t \in 1 .. Len(ids) : ids[t] \notin Tokens THEN "RANGE"
  ELSE IF store /\ capacity = 0 THEN "ARG"
  ELSE IF store /\ Len(ids) > capacity THEN "CAPACITY"
  ELSE "OK"

(* model_decode_step_cached: every refusal but the token's comes before    *)
(* model_reserve.                                                          *)
CachedEarlyStatus(ids, fits, capacity, length) ==
  IF ~fits THEN "CAPACITY"
  ELSE IF Len(ids) = 0 THEN "ARG"
  ELSE IF Len(ids) > NCtx THEN "RANGE"
  ELSE IF capacity = 0 THEN "ARG"
  ELSE IF Len(ids) > capacity THEN "CAPACITY"
  ELSE IF length # Len(ids) - 1 THEN "ARG"
  ELSE "OK"

CachedStatus(ids) == IF LastOf(ids) \notin Tokens THEN "RANGE" ELSE "OK"

(* model_kv_reserve, up to the allocation: the request is a size_t that is *)
(* compared as an int.                                                     *)
\* Mutant: a cache may be longer than the context.
KvReserveStatusUnbounded(request, capacity, mem) ==
  IF request = 0 THEN "ARG"
  ELSE IF capacity # 0 /\ capacity >= AsInt(request) THEN "OK"
  ELSE IF AsInt(request) <= 0 THEN "ARG"
  ELSE IF ~mem THEN "NOMEM" ELSE "OK"

KvReserveStatus(request, capacity, mem) ==
  IF request = 0 THEN "ARG"
  ELSE IF AsInt(request) > NCtx THEN "RANGE"
  ELSE IF capacity # 0 /\ capacity >= AsInt(request) THEN "OK"
  ELSE IF AsInt(request) <= 0 THEN "ARG"
  ELSE IF ~mem THEN "NOMEM" ELSE "OK"

\* model_kv_set_length passes the store's status on; a null cache is MODEL_ERR_ARG.
KvSetLengthStatus(n, capacity) ==
  IF capacity = 0 \/ n < 0 THEN "ARG"
  ELSE IF n > capacity THEN "CAPACITY" ELSE "OK"

\* Whether an accepted request replaces the cache by a fresh one.
KvReserveReplaces(request, capacity) == capacity = 0 \/ capacity < AsInt(request)
=============================================================================
