------------------------------- MODULE Engine -------------------------------
(***************************************************************************)
(* The inference engine of src/model.c over the store of src/kv_cache.c:   *)
(* the decode-path switch, the lazily allocated KV cache, the activation   *)
(* scratch, prefill, the no-cache decode step and the cached decode step,  *)
(* each forward pass running layer by layer.  The caller is free: it may   *)
(* make any call in any order.                                             *)
(*                                                                         *)
(* Data abstraction.  An activation, a key/value row or a row of logits is *)
(* identified with the token sequence it was computed from, its context:   *)
(* the engine is deterministic and its reduction order is the same on both *)
(* paths, so equal contexts mean equal floats.  A row of logits computed   *)
(* from cache rows that do not belong together is Mixed.  (At layer 0 a    *)
(* row depends on its own token alone; labelling it with the whole context *)
(* distinguishes more than the floats do, never less.)                     *)
(***************************************************************************)
EXTENDS EngineApi, KVCache

CONSTANTS
  Buffers,        \* the activation buffers model_reserve grows (six in the code)
  Mixed           \* what attention over rows of different contexts computes

ASSUME EngineAssumption == Mixed \notin Contexts \cup {Blank}

VARIABLES
  path,      \* m->decode_path
  kv,        \* m->kv
  scratch,   \* m->scratch_tokens, and per buffer the tokens it has room for
  pass,      \* the forward pass that is running, Idle between calls
  last       \* what the last call returned: its status and its rows of logits

vars == <<path, kv, scratch, pass, last>>

Rows == Contexts \cup {Blank, Mixed}

Idle == [kind |-> "idle", ids |-> <<>>, layer |-> 0, store |-> FALSE, ctx |-> <<>>]

Running == pass.kind # "idle"

Init ==
  /\ path = "nocache"
  /\ kv = NullCache
  /\ scratch = [tokens |-> 0, room |-> [b \in Buffers |-> 0]]
  /\ pass = Idle
  /\ last = [status |-> "OK", logits |-> <<>>]

Answer(status, logits) == last' = [status |-> status, logits |-> logits]
-----------------------------------------------------------------------------
(* The switch and the cache's life.                                        *)

SetDecodePath(p) ==
  /\ ~Running
  /\ path' = p
  /\ UNCHANGED <<kv, scratch, pass, last>>

(* model_kv_reserve: a capacity already covered is a no-op; otherwise the  *)
(* fresh cache is made before the old one is destroyed, and the old one's  *)
(* contents are not copied.                                                *)
\* Mutant: the old cache is destroyed before the fresh one is made.
KvReserveDestroysFirst(request, mem) ==
  /\ ~Running
  /\ LET status   == KvReserveStatus(request, kv.capacity, mem)
         replaces == KvReserveReplaces(request, kv.capacity)
     IN  /\ Answer(status, <<>>)
         /\ kv' = IF status = "OK" /\ replaces THEN Create(AsInt(request))
                  ELSE IF status = "NOMEM" THEN NullCache ELSE kv
  /\ UNCHANGED <<path, scratch, pass>>

KvReserve(request, mem) ==
  /\ ~Running
  /\ LET status == KvReserveStatus(request, kv.capacity, mem) IN
       /\ Answer(status, <<>>)
       /\ kv' = IF status = "OK" /\ KvReserveReplaces(request, kv.capacity)
                THEN Create(AsInt(request)) ELSE kv
  /\ UNCHANGED <<path, scratch, pass>>

KvSetLength(n) ==
  /\ ~Running
  /\ Answer(KvSetLengthStatus(n, kv.capacity), <<>>)
  /\ kv' = SetLength(kv, n)
  /\ UNCHANGED <<path, scratch, pass>>
-----------------------------------------------------------------------------
(* model_reserve.  `grown` is the set of buffers whose realloc succeeds;   *)
(* those stay grown when another one fails, and scratch_tokens moves only  *)
(* when all six did.                                                       *)
\* Mutant: scratch_tokens moves when only some buffers grew.
ScratchAfterAny(T, grown) ==
  IF AtLeastOne(T) <= scratch.tokens THEN scratch
  ELSE [tokens |-> RoomAfter(T, scratch.tokens, grown # {}),
        room   |-> [b \in Buffers |-> IF b \in grown THEN AtLeastOne(T)
                                      ELSE scratch.room[b]]]

ScratchAfter(T, grown) ==
  IF AtLeastOne(T) <= scratch.tokens THEN scratch
  ELSE [tokens |-> RoomAfter(T, scratch.tokens, grown = Buffers),
        room   |-> [b \in Buffers |-> IF b \in grown THEN AtLeastOne(T)
                                      ELSE scratch.room[b]]]

ScratchStatus(T, grown) == ReserveStatus(T, scratch.tokens, grown = Buffers)

Reserve(T, grown) ==
  /\ ~Running
  /\ Answer(ScratchStatus(T, grown), <<>>)
  /\ scratch' = ScratchAfter(T, grown)
  /\ UNCHANGED <<path, kv, pass>>
-----------------------------------------------------------------------------
(* Entering a forward pass: the early refusals, the growth of the scratch, *)
(* the late refusals, and then the pass runs.                              *)
Enter(ids, early, late, grown, next) ==
  LET status == IF early # "OK" THEN early
                ELSE IF ScratchStatus(Len(ids), grown) # "OK" THEN "NOMEM"
                ELSE late
  IN  /\ ~Running
      /\ scratch' = IF early = "OK" THEN ScratchAfter(Len(ids), grown) ELSE scratch
      /\ IF status = "OK"
         THEN pass' = next /\ UNCHANGED last
         ELSE Answer(status, <<>>) /\ UNCHANGED pass
      /\ UNCHANGED <<path, kv>>

\* forward_blocks for model_prefill (kind "prefill") or model_decode_step ("decode").
EnterBlocks(kind, ids, fits, grown) ==
  LET store == path = "cache" IN
  Enter(ids, BlocksEarlyStatus(fits), BlocksStatus(ids, store, kv.capacity), grown,
        [kind |-> kind, ids |-> ids, layer |-> 0, store |-> store, ctx |-> ids])

Prefill(ids, fits, grown) == EnterBlocks("prefill", ids, fits, grown)

(* The context the cached step's new position has if the rows below it are *)
(* those of one sequence.  The step reads no token but the last.           *)
OwnContext(ids) ==
  LET below == kv.rows[0][Len(ids) - 2] IN
  IF Len(ids) = 1 THEN <<LastOf(ids)>>
  ELSE IF below \in {Blank, Mixed} THEN Mixed
  ELSE Append(below, LastOf(ids))

DecodeStepCached(ids, fits, grown) ==
  LET early == CachedEarlyStatus(ids, fits, kv.capacity, kv.length) IN
  Enter(ids, early, IF early = "OK" THEN CachedStatus(ids) ELSE early, grown,
        [kind |-> "cached", ids |-> ids, layer |-> 0, store |-> TRUE,
         ctx |-> IF early = "OK" THEN OwnContext(ids) ELSE Mixed])

DecodeStep(ids, fits, grown) ==
  IF path = "cache" THEN DecodeStepCached(ids, fits, grown)
  ELSE EnterBlocks("decode", ids, fits, grown)
-----------------------------------------------------------------------------
(* One layer of the running pass.  forward_blocks stores every position of *)
(* the layer (when it stores at all) and attends over its own activations; *)
(* forward_one_cached stores row T-1 and THEN attends over rows 0 .. T-1   *)
(* of the cache.                                                           *)
\* Mutant: the rows below the length are kept.
StorePrefixTail(c, l, ids) ==
  [c EXCEPT !.rows[l] = [p \in DOMAIN c.rows[l] |->
                           IF p \in c.length .. Len(ids) - 1 THEN Take(ids, p + 1)
                           ELSE c.rows[l][p]]]

StorePrefix(c, l, ids) ==
  [c EXCEPT !.rows[l] = [p \in DOMAIN c.rows[l] |->
                           IF p < Len(ids) THEN Take(ids, p + 1) ELSE c.rows[l][p]]]

\* Mutant: the cached step stores every layer's row in the first layer.
StoredFirstLayer ==
  IF pass.kind = "cached" THEN Write(kv, 0, Len(pass.ids) - 1, pass.ctx)
  ELSE IF pass.store THEN StorePrefix(kv, pass.layer, pass.ids)
  ELSE kv

Stored ==
  IF pass.kind = "cached" THEN Write(kv, pass.layer, Len(pass.ids) - 1, pass.ctx)
  ELSE IF pass.store THEN StorePrefix(kv, pass.layer, pass.ids)
  ELSE kv

\* Attention over rows 0 .. T-1 of layer l of cache c, by the position with context ctx.
Attend(c, l, ctx, T) ==
  IF ctx # Mixed /\ \A p \in 0 .. T - 1 : c.rows[l][p] = Take(ctx, p + 1)
  THEN ctx ELSE Mixed

\* Mutant: the cached step attends before it stores its own row.
AttendedBeforeStore ==
  IF pass.kind = "cached" THEN Attend(kv, pass.layer, pass.ctx, Len(pass.ids))
  ELSE pass.ctx

Attended ==
  IF pass.kind = "cached" THEN Attend(Stored, pass.layer, pass.ctx, Len(pass.ids))
  ELSE pass.ctx

\* A store the cache refuses ends the pass with MODEL_ERR_CAPACITY, halfway through.
StoreRefused == pass.store /\ WriteStatus(kv, Len(pass.ids) - 1) # "OK"

LayerStep ==
  /\ Running
  /\ pass.layer < NLayer - 1
  /\ kv' = Stored
  /\ IF StoreRefused
     THEN pass' = Idle /\ Answer("CAPACITY", <<>>)
     ELSE pass' = [pass EXCEPT !.layer = @ + 1, !.ctx = Attended] /\ UNCHANGED last
  /\ UNCHANGED <<path, scratch>>

(* The last layer, the length counter, and the head: at every position for *)
(* a prefill, at the last one for a decode step.                           *)
LogitsOf(ctx) ==
  IF pass.kind = "prefill" THEN [t \in 1 .. Len(pass.ids) |-> Take(pass.ids, t)]
  ELSE <<ctx>>

\* Mutant: the pass does not set the length.
LastLayerKeepsLength ==
  /\ Running
  /\ pass.layer = NLayer - 1
  /\ kv' = Stored
  /\ IF StoreRefused THEN Answer("CAPACITY", <<>>) ELSE Answer("OK", LogitsOf(Attended))
  /\ pass' = Idle
  /\ UNCHANGED <<path, scratch>>

LastLayer ==
  /\ Running
  /\ pass.layer = NLayer - 1
  /\ kv' = IF pass.store /\ ~StoreRefused THEN SetLength(Stored, Len(pass.ids)) ELSE Stored
  /\ IF StoreRefused THEN Answer("CAPACITY", <<>>) ELSE Answer("OK", LogitsOf(Attended))
  /\ pass' = Idle
  /\ UNCHANGED <<path, scratch>>
-----------------------------------------------------------------------------
Call(ids, fits, grown) ==
  \/ Prefill(ids, fits, grown)
  \/ DecodeStep(ids, fits, grown)
  \/ DecodeStepCached(ids, fits, grown)

EngineNext ==
  \/ \E p \in Paths : SetDecodePath(p)
  \/ \E n \in CacheRequests, mem \in BOOLEAN : KvReserve(n, mem)
  \/ \E T \in TokenRequests, grown \in SUBSET Buffers : Reserve(T, grown)
  \/ \E ids \in Inputs, fits \in BOOLEAN, grown \in SUBSET Buffers : Call(ids, fits, grown)
  \/ LayerStep
  \/ LastLayer

\* Any caller at all.
Next == EngineNext \/ \E n \in LengthRequests : KvSetLength(n)

(* A caller that keeps to what the length counter is for, restoring an     *)
(* earlier context (kv_cache.h): it never raises the length over rows the  *)
(* cache was not filled to.                                                *)
RestoringNext ==
  EngineNext \/ \E n \in LengthRequests : (n <= kv.length \/ n > kv.capacity) /\ KvSetLength(n)

\* A pass that has begun is a C function that runs to its return.
Fairness == WF_vars(LayerStep \/ LastLayer)

Spec          == Init /\ [][Next]_vars /\ Fairness
RestoringSpec == Init /\ [][RestoringNext]_vars /\ Fairness
-----------------------------------------------------------------------------
\* A row at position p was computed from p + 1 tokens.
RowsPlaced ==
  \A l \in Layers, p \in 0 .. kv.capacity - 1 :
    kv.rows[l][p] \notin {Blank, Mixed} => Len(kv.rows[l][p]) = p + 1

(* Every variable has its type: in particular the length never exceeds the *)
(* capacity, and each layer has exactly `capacity` rows.                   *)
TypeOK ==
  /\ path \in Paths
  /\ CacheOK(kv, Rows)
  /\ RowsPlaced
  /\ scratch \in [tokens : Nat, room : [Buffers -> Nat]]
  /\ pass \in [kind : {"idle", "prefill", "decode", "cached"},
              ids : Seq(Tokens \cup {BadToken}), layer : Layers,
              store : BOOLEAN, ctx : Rows]
  /\ last \in [status : Statuses, logits : Seq(Rows)]

(* What holds of the running pass, and makes the invariants below          *)
(* inductive: it has accepted arguments, the cache it stores to is long    *)
(* enough, and a cached step starts where the cache ends.                  *)
PassInv ==
  Running =>
    /\ Len(pass.ids) \in 1 .. NCtx
    /\ Len(pass.ids) <= scratch.tokens
    /\ pass.store => Len(pass.ids) <= kv.capacity
    /\ pass.kind # "cached" => pass.ids \in Contexts /\ pass.ctx = pass.ids
    /\ pass.kind = "cached" =>
         /\ pass.store
         /\ kv.length = Len(pass.ids) - 1
         /\ LastOf(pass.ids) \in Tokens
         /\ pass.ctx # Mixed => pass.ctx \in Contexts /\ Len(pass.ctx) = Len(pass.ids)

(* However reallocs failed before, every activation buffer has room for    *)
(* scratch_tokens tokens, and for all the tokens of the running pass: no   *)
(* pass reads or writes past a buffer (model_reserve keeps the successful  *)
(* reallocs of a failed call).                                             *)
ScratchCovers ==
  \A b \in Buffers : /\ scratch.room[b] >= scratch.tokens
                     /\ Running => Len(pass.ids) <= scratch.room[b]

(* Between calls a position is present in every layer or in none, whatever *)
(* the caller did: the one length counter of kv_cache.h rests on it.       *)
EveryLayerOrNone ==
  ~Running => \A p \in 0 .. kv.capacity - 1 : \A l \in Layers :
                kv.rows[l][p] = Blank <=> kv.rows[0][p] = Blank

(* A refused call leaves the cache alone, whichever call it is: neither    *)
(* the rows nor the length nor the capacity changes.  A pass that has      *)
(* begun is not refused: every refusal comes before any arithmetic, never  *)
(* halfway through the layers.                                             *)
RefusedAtOnce ==
  [][/\ last' # last /\ last'.status # "OK" => kv' = kv
     /\ Running /\ ~Running' => last'.status = "OK"]_vars

(* For callers that only restore lengths: the cache holds the rows of one  *)
(* token sequence, the same in every layer, up to its length.              *)
HeldContext ==
  IF kv.length = 0 THEN <<>> ELSE kv.rows[NLayer - 1][kv.length - 1]

CacheCoherent ==
  ~Running => \A l \in Layers, p \in 0 .. kv.length - 1 :
                kv.rows[l][p] = Take(HeldContext, p + 1)

(* The agreement Stage 4 rests on: when the cache holds the tokens before  *)
(* the last one, a cached decode step answers exactly what the no-cache    *)
(* step answers for the same tokens.                                       *)
CachedMatchesUncached ==
  [][pass.kind = "cached" /\ ~Running' /\ Butlast(pass.ids) = HeldContext
       => last'.logits = <<pass.ids>>]_vars

(* A model_kv_reserve that succeeds leaves a cache of at least the number  *)
(* of positions asked for (model.h).                                       *)
ReserveCovers ==
  [][\A n \in CacheRequests, mem \in BOOLEAN :
       KvReserve(n, mem) /\ last'.status = "OK" => kv'.capacity >= n]_vars
=============================================================================
