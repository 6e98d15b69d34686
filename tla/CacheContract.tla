---------------------------- MODULE CacheContract ----------------------------
(***************************************************************************)
(* What src/model.h promises of the engine, with no layers, no rows and no *)
(* buffers: the KV cache IS one token sequence, the context it holds.      *)
(*                                                                         *)
(*  - A prefill answers, at every position, the logits of the tokens up to *)
(*    it, on either path; under the cache path the cache holds its tokens  *)
(*    afterwards.                                                          *)
(*  - A no-cache decode step answers the logits of the tokens it is given. *)
(*  - A cached decode step answers the logits of what the cache holds      *)
(*    extended by the LAST token it is given, and the cache then holds     *)
(*    that.                                                                *)
(*  - A call that is refused leaves the context as it was.                 *)
(*  - A call within what model_reserve reserved never runs out of memory.  *)
(*                                                                         *)
(* Module Engine implements this for every caller that never raises the    *)
(* length (EngineRefinement).  Raising it exposes positions nobody filled: *)
(* they are Unknown here.  Callers are composed with this module.          *)
(***************************************************************************)
EXTENDS EngineApi

CONSTANT Unknown      \* a position exposed by raising the length

VARIABLES
  path,       \* the decode path
  capacity,   \* the cache's capacity, 0 when there is none
  held,       \* the context the cache holds
  room,       \* the tokens the scratch is reserved for
  last        \* the status and the rows of logits the last call returned

contractVars == <<path, capacity, held, room, last>>

ContractInit ==
  /\ path = "nocache"
  /\ capacity = 0
  /\ held = <<>>
  /\ room = 0
  /\ last = [status |-> "OK", logits |-> <<>>]

Reply(status, logits) ==
  last' = [status |-> status, logits |-> IF status = "OK" THEN logits ELSE <<>>]

(* The status of a forward pass over T tokens: the early refusals, the     *)
(* growth of the scratch, the late refusals.                               *)
PassStatus(early, T, mem, late) ==
  IF early # "OK" THEN early
  ELSE IF ReserveStatus(T, room, mem) # "OK" THEN "NOMEM" ELSE late

Grow(early, T, mem) == room' = IF early = "OK" THEN RoomAfter(T, room, mem) ELSE room

SetDecodePath(p) ==
  /\ path' = p
  /\ UNCHANGED <<capacity, held, room, last>>

KvReserve(request, mem) ==
  LET status   == KvReserveStatus(request, capacity, mem)
      replaced == status = "OK" /\ KvReserveReplaces(request, capacity)
  IN  /\ Reply(status, <<>>)
      /\ capacity' = IF replaced THEN AsInt(request) ELSE capacity
      /\ held' = IF replaced THEN <<>> ELSE held
      /\ UNCHANGED <<path, room>>

KvSetLength(n) ==
  LET status == KvSetLengthStatus(n, capacity)
  IN  /\ Reply(status, <<>>)
      /\ held' = IF status # "OK" THEN held
                 ELSE [i \in 1 .. n |-> IF i <= Len(held) THEN held[i] ELSE Unknown]
      /\ UNCHANGED <<path, capacity, room>>

Reserve(T, mem) ==
  /\ Reply(ReserveStatus(T, room, mem), <<>>)
  /\ Grow("OK", T, mem)
  /\ UNCHANGED <<path, capacity, held>>

\* Mutant: every row is the head at the last position.
PrefillLastRow(ids, fits, mem) ==
  LET store  == path = "cache"
      early  == BlocksEarlyStatus(fits)
      status == PassStatus(early, Len(ids), mem, BlocksStatus(ids, store, capacity))
  IN  /\ Reply(status, [t \in 1 .. Len(ids) |-> ids])
      /\ held' = IF status = "OK" /\ store THEN ids ELSE held
      /\ Grow(early, Len(ids), mem)
      /\ UNCHANGED <<path, capacity>>

\* Mutant: the pass stores nothing.
PrefillForgets(ids, fits, mem) ==
  LET store  == path = "cache"
      early  == BlocksEarlyStatus(fits)
      status == PassStatus(early, Len(ids), mem, BlocksStatus(ids, store, capacity))
  IN  /\ Reply(status, [t \in 1 .. Len(ids) |-> Take(ids, t)])
      /\ Grow(early, Len(ids), mem)
      /\ UNCHANGED <<path, capacity, held>>

Prefill(ids, fits, mem) ==
  LET store  == path = "cache"
      early  == BlocksEarlyStatus(fits)
      status == PassStatus(early, Len(ids), mem, BlocksStatus(ids, store, capacity))
  IN  /\ Reply(status, [t \in 1 .. Len(ids) |-> Take(ids, t)])
      /\ held' = IF status = "OK" /\ store THEN ids ELSE held
      /\ Grow(early, Len(ids), mem)
      /\ UNCHANGED <<path, capacity>>

DecodeStepCached(ids, fits, mem) ==
  LET early  == CachedEarlyStatus(ids, fits, capacity, Len(held))
      status == PassStatus(early, Len(ids), mem,
                           IF early = "OK" THEN CachedStatus(ids) ELSE early)
  IN  /\ Reply(status, << Append(held, LastOf(ids)) >>)
      /\ held' = IF status = "OK" THEN Append(held, LastOf(ids)) ELSE held
      /\ Grow(early, Len(ids), mem)
      /\ UNCHANGED <<path, capacity>>

DecodeStepUncached(ids, fits, mem) ==
  LET early  == BlocksEarlyStatus(fits)
      status == PassStatus(early, Len(ids), mem, BlocksStatus(ids, FALSE, capacity))
  IN  /\ Reply(status, <<ids>>)
      /\ Grow(early, Len(ids), mem)
      /\ UNCHANGED <<path, capacity, held>>

DecodeStep(ids, fits, mem) ==
  IF path = "cache" THEN DecodeStepCached(ids, fits, mem)
  ELSE DecodeStepUncached(ids, fits, mem)
-----------------------------------------------------------------------------
\* A pass that has begun, and not answered yet, has grown the scratch.
Begin(T) ==
  /\ room' = RoomAfter(T, room, TRUE)
  /\ UNCHANGED <<path, capacity, held, last>>

\* The callers that only ever restore an earlier length.
ContractNext ==
  \/ \E p \in Paths : SetDecodePath(p)
  \/ \E n \in CacheRequests, mem \in BOOLEAN : KvReserve(n, mem)
  \/ \E n \in LengthRequests : (n <= Len(held) \/ n > capacity) /\ KvSetLength(n)
  \/ \E T \in TokenRequests, mem \in BOOLEAN : Reserve(T, mem)
  \/ \E ids \in Inputs : Begin(Len(ids))
  \/ \E ids \in Inputs, fits, mem \in BOOLEAN :
       \/ Prefill(ids, fits, mem)
       \/ DecodeStep(ids, fits, mem)
       \/ DecodeStepCached(ids, fits, mem)

ContractSpec == ContractInit /\ [][ContractNext]_contractVars
=============================================================================
