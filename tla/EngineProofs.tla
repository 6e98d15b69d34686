---------------------------- MODULE EngineProofs ----------------------------
(***************************************************************************)
(* Proofs about the engine, for every vocabulary, context length, number   *)
(* of layers and set of buffers.                                           *)
(***************************************************************************)
EXTENDS EngineRefinement, SequenceTheorems, TLAPS

-----------------------------------------------------------------------------
(* Prefixes of token sequences.                                            *)

\* What Take returns: a sequence of the length asked for, with s's elements.
LEMMA TakeProperties ==
  ASSUME NEW S, NEW s \in Seq(S), NEW n \in 0 .. Len(s)
  PROVE  /\ Take(s, n) \in Seq(S)
         /\ Len(Take(s, n)) = n
         /\ \A i \in 1 .. n : Take(s, n)[i] = s[i]
  BY SubSeqProperties DEF Take

\* A prefix of a prefix is a prefix.
LEMMA TakeTake ==
  ASSUME NEW S, NEW s \in Seq(S), NEW m \in 0 .. Len(s), NEW n \in 0 .. m
  PROVE  Take(Take(s, m), n) = Take(s, n)
  <1>1. /\ Take(s, m) \in Seq(S) /\ Len(Take(s, m)) = m
        /\ \A i \in 1 .. m : Take(s, m)[i] = s[i]
    BY TakeProperties
  <1>2. /\ Take(Take(s, m), n) \in Seq(S) /\ Len(Take(Take(s, m), n)) = n
        /\ \A i \in 1 .. n : Take(Take(s, m), n)[i] = Take(s, m)[i]
    BY <1>1, TakeProperties
  <1>3. /\ Take(s, n) \in Seq(S) /\ Len(Take(s, n)) = n
        /\ \A i \in 1 .. n : Take(s, n)[i] = s[i]
    BY TakeProperties
  <1> QED BY <1>1, <1>2, <1>3, SeqEqual

\* All of a sequence is a prefix of it.
LEMMA TakeAll ==
  ASSUME NEW S, NEW s \in Seq(S)
  PROVE  Take(s, Len(s)) = s
  BY SubSeqFull DEF Take

\* Appending does not change the prefixes there were.
LEMMA TakeAppend ==
  ASSUME NEW S, NEW s \in Seq(S), NEW e \in S, NEW n \in 0 .. Len(s)
  PROVE  Take(Append(s, e), n) = Take(s, n)
  <1>1. /\ Append(s, e) \in Seq(S) /\ Len(Append(s, e)) = Len(s) + 1
        /\ \A i \in 1 .. Len(s) : Append(s, e)[i] = s[i]
    BY AppendProperties
  <1>a. Len(s) \in Nat /\ n \in 0 .. Len(Append(s, e))
    BY <1>1, LenProperties
  <1>2. /\ Take(Append(s, e), n) \in Seq(S) /\ Len(Take(Append(s, e), n)) = n
        /\ \A i \in 1 .. n : Take(Append(s, e), n)[i] = Append(s, e)[i]
    BY <1>1, <1>a, TakeProperties
  <1>3. /\ Take(s, n) \in Seq(S) /\ Len(Take(s, n)) = n
        /\ \A i \in 1 .. n : Take(s, n)[i] = s[i]
    BY TakeProperties
  <1> QED BY <1>1, <1>a, <1>2, <1>3, SeqEqual

\* A nonempty sequence is its last element appended to the rest.
LEMMA AppendLast ==
  ASSUME NEW S, NEW s \in Seq(S), Len(s) # 0
  PROVE  Append(Butlast(s), LastOf(s)) = s
  <1>0. Len(s) \in Nat /\ Len(s) - 1 \in 0 .. Len(s) /\ Butlast(s) = Take(s, Len(s) - 1)
    BY LenProperties DEF Butlast, Take
  <1>1. /\ Butlast(s) \in Seq(S) /\ Len(Butlast(s)) = Len(s) - 1
        /\ \A i \in 1 .. Len(s) - 1 : Butlast(s)[i] = s[i]
    BY <1>0, TakeProperties
  <1>2. LastOf(s) \in S
    BY <1>0, ElementOfSeq DEF LastOf
  <1>3. /\ Append(Butlast(s), LastOf(s)) \in Seq(S)
        /\ Len(Append(Butlast(s), LastOf(s))) = Len(s)
        /\ \A i \in 1 .. Len(s) - 1 : Append(Butlast(s), LastOf(s))[i] = s[i]
        /\ Append(Butlast(s), LastOf(s))[Len(s)] = LastOf(s)
    BY <1>0, <1>1, <1>2, AppendProperties
  <1>4. \A i \in 1 .. Len(s) : Append(Butlast(s), LastOf(s))[i] = s[i]
    BY <1>0, <1>3 DEF LastOf
  <1> QED BY <1>3, <1>4, SeqEqual
-----------------------------------------------------------------------------
(* The invariant every caller keeps: types, the running pass, the scratch. *)
SafeInv == TypeOK /\ PassInv /\ ScratchCovers

\* A position below the last one is a row of the cache.
LEMMA RowBelow ==
  ASSUME NEW n \in Nat, NEW m \in Nat, n # 0, n # 1, n <= m
  PROVE  n - 2 \in 0 .. m - 1
  OBVIOUS

\* The parts of the type invariant that speak of the cache.
LEMMA KvType ==
  ASSUME TypeOK
  PROVE  /\ kv.capacity \in Nat /\ kv.length \in 0 .. kv.capacity
         /\ kv.rows \in [Layers -> [0 .. kv.capacity - 1 -> Rows]]
         /\ \A l \in Layers, p \in 0 .. kv.capacity - 1 :
              /\ kv.rows[l][p] \in Rows
              /\ kv.rows[l][p] \notin {Blank, Mixed} => Len(kv.rows[l][p]) = p + 1
  BY DEF TypeOK, CacheOK, RowsPlaced

\* A prefix of an accepted array is a context.
LEMMA ContextPrefix ==
  ASSUME NEW s \in Contexts, NEW n \in 1 .. Len(s)
  PROVE  Take(s, n) \in Contexts
  <1>1. s \in Seq(Tokens) /\ Len(s) \in 1 .. NCtx /\ n \in 0 .. Len(s)
    BY DEF Contexts
  <1>2. Take(s, n) \in Seq(Tokens) /\ Len(Take(s, n)) = n
    BY <1>1, TakeProperties
  <1> QED BY <1>1, <1>2, ApiAssumption DEF Contexts

\* A longer cached context is a context when it still fits.
LEMMA ContextAppend ==
  ASSUME NEW s \in Contexts, NEW e \in Tokens, Len(s) + 1 <= NCtx
  PROVE  Append(s, e) \in Contexts
  <1>1. s \in Seq(Tokens) /\ Len(s) \in 1 .. NCtx
    BY DEF Contexts
  <1>2. Append(s, e) \in Seq(Tokens) /\ Len(Append(s, e)) = Len(s) + 1
    BY <1>1, AppendProperties
  <1> QED BY <1>1, <1>2, ApiAssumption DEF Contexts

LEMMA ContextOne == ASSUME NEW e \in Tokens PROVE <<e>> \in Contexts
  BY ApiAssumption DEF Contexts

\* What model_reserve leaves: typed, covering, and enough when it says so.
LEMMA ScratchStep ==
  ASSUME TypeOK, ScratchCovers, NEW T \in Nat, NEW grown \in SUBSET Buffers
  PROVE  /\ ScratchAfter(T, grown) \in [tokens : Nat, room : [Buffers -> Nat]]
         /\ \A b \in Buffers : ScratchAfter(T, grown).room[b] >= ScratchAfter(T, grown).tokens
         /\ ScratchStatus(T, grown) = "OK" => T <= ScratchAfter(T, grown).tokens
         /\ ScratchStatus(T, grown) \in {"OK", "NOMEM"}
         /\ ScratchAfter(T, grown).tokens = RoomAfter(T, scratch.tokens, grown = Buffers)
  <1> DEFINE n == AtLeastOne(T)
  <1>1. n \in Nat /\ T <= n
    BY DEF AtLeastOne
  <1>2. /\ scratch.tokens \in Nat /\ scratch.room \in [Buffers -> Nat]
        /\ \A b \in Buffers : scratch.room[b] >= scratch.tokens
        /\ scratch \in [tokens : Nat, room : [Buffers -> Nat]]
    BY DEF TypeOK, ScratchCovers
  <1>3. CASE n <= scratch.tokens
    <2>1. ScratchAfter(T, grown) = scratch
      BY <1>3 DEF ScratchAfter
    <2> QED BY <1>1, <1>2, <1>3, <2>1 DEF ScratchStatus, ReserveStatus, RoomAfter
  <1>4. CASE ~(n <= scratch.tokens)
    <2> DEFINE tk == RoomAfter(T, scratch.tokens, grown = Buffers)
               rm == [b \in Buffers |-> IF b \in grown THEN n ELSE scratch.room[b]]
    <2>1. ScratchAfter(T, grown) = [tokens |-> tk, room |-> rm]
      BY <1>4 DEF ScratchAfter
    <2>2. tk = IF grown = Buffers THEN n ELSE scratch.tokens
      BY <1>1, <1>2, <1>4 DEF RoomAfter
    <2>3. tk \in Nat /\ rm \in [Buffers -> Nat]
      BY <1>1, <1>2, <2>2
    <2>4. \A b \in Buffers : rm[b] >= tk
      BY <1>1, <1>2, <1>4, <2>2
    <2>5. ScratchStatus(T, grown) = "OK" => T <= tk
      BY <1>1, <1>2, <1>4, <2>2 DEF ScratchStatus, ReserveStatus
    <2>6. ScratchStatus(T, grown) \in {"OK", "NOMEM"}
      BY DEF ScratchStatus, ReserveStatus
    <2>7. tk = RoomAfter(T, scratch.tokens, grown = Buffers)
      OBVIOUS
    <2> HIDE DEF tk, rm
    <2> QED BY <2>1, <2>3, <2>4, <2>5, <2>6, <2>7
  <1> QED BY <1>3, <1>4

\* The passes a call may start on the present cache.
PassRecords ==
  [kind : {"idle", "prefill", "decode", "cached"}, ids : Seq(Tokens \cup {BadToken}),
   layer : Layers, store : BOOLEAN, ctx : Rows]

Startable(q) ==
  /\ q \in PassRecords
  /\ Len(q.ids) \in 1 .. NCtx
  /\ q.store => Len(q.ids) <= kv.capacity
  /\ q.kind # "cached" => q.ids \in Contexts /\ q.ctx = q.ids
  /\ q.kind = "cached" =>
       /\ q.store
       /\ kv.length = Len(q.ids) - 1
       /\ LastOf(q.ids) \in Tokens
       /\ q.ctx # Mixed => q.ctx \in Contexts /\ Len(q.ctx) = Len(q.ids)

\* Entering a pass keeps the invariant when the pass it starts is startable.
LEMMA EnterSafe ==
  ASSUME SafeInv, NEW ids \in Inputs, NEW grown \in SUBSET Buffers, NEW next,
         NEW early \in Statuses, NEW late \in Statuses,
         early = "OK" /\ late = "OK" => Startable(next) /\ next.ids = ids,
         Enter(ids, early, late, grown, next)
  PROVE  SafeInv'
  <1> USE DEF SafeInv
  <1>1. ids \in Seq(Tokens \cup {BadToken}) /\ Len(ids) \in Nat
    BY ApiAssumption, LenProperties
  <1>2. /\ ScratchAfter(Len(ids), grown) \in [tokens : Nat, room : [Buffers -> Nat]]
        /\ \A b \in Buffers : ScratchAfter(Len(ids), grown).room[b]
                                >= ScratchAfter(Len(ids), grown).tokens
        /\ ScratchStatus(Len(ids), grown) = "OK" =>
             Len(ids) <= ScratchAfter(Len(ids), grown).tokens
        /\ ScratchStatus(Len(ids), grown) \in {"OK", "NOMEM"}
    BY <1>1, ScratchStep
  <1>3. /\ ~Running /\ path' = path /\ kv' = kv
        /\ scratch' = IF early = "OK" THEN ScratchAfter(Len(ids), grown) ELSE scratch
    BY DEF Enter
  <1>4. /\ scratch' \in [tokens : Nat, room : [Buffers -> Nat]]
        /\ \A b \in Buffers : scratch'.room[b] >= scratch'.tokens
    BY <1>2, <1>3 DEF TypeOK, ScratchCovers
  <1>5. CASE early = "OK" /\ ScratchStatus(Len(ids), grown) = "OK" /\ late = "OK"
    <2>1. pass' = next /\ last' = last
      BY <1>5 DEF Enter
    <2>2. Startable(next) /\ next.ids = ids
      BY <1>5
    <2>3. TypeOK'
      BY <1>3, <1>4, <2>1, <2>2 DEF TypeOK, CacheOK, RowsPlaced, Startable, PassRecords
    <2>4. /\ Len(ids) <= scratch'.tokens /\ scratch'.tokens \in Nat
          /\ \A b \in Buffers : scratch'.room[b] \in Nat
      BY <1>2, <1>3, <1>4, <1>5
    <2>5. PassInv'
      BY <1>3, <2>1, <2>2, <2>4 DEF PassInv, Startable, Running
    <2>6. ScratchCovers'
      BY <1>1, <1>4, <2>1, <2>2, <2>4 DEF ScratchCovers
    <2> QED BY <2>3, <2>5, <2>6
  <1>6. CASE ~(early = "OK" /\ ScratchStatus(Len(ids), grown) = "OK" /\ late = "OK")
    <2>1. /\ pass' = pass
          /\ \E st \in Statuses : last' = [status |-> st, logits |-> <<>>]
      BY <1>2, <1>6 DEF Enter, Answer, Statuses
    <2>2. TypeOK'
      BY <1>3, <1>4, <2>1 DEF TypeOK, CacheOK, RowsPlaced
    <2>3. PassInv' /\ ScratchCovers'
      BY <1>3, <1>4, <2>1 DEF PassInv, ScratchCovers, Running
    <2> QED BY <2>2, <2>3
  <1> QED BY <1>5, <1>6

\* forward_blocks is entered with an accepted array, and with room in the cache.
LEMMA BlocksSafe ==
  ASSUME SafeInv, NEW ids \in Inputs, NEW fits \in BOOLEAN, NEW grown \in SUBSET Buffers,
         NEW kind \in {"prefill", "decode"}, EnterBlocks(kind, ids, fits, grown)
  PROVE  SafeInv'
  <1> DEFINE store == path = "cache"
             late  == BlocksStatus(ids, store, kv.capacity)
             next  == [kind |-> kind, ids |-> ids, layer |-> 0, store |-> store, ctx |-> ids]
  <1>1. BlocksEarlyStatus(fits) \in Statuses /\ late \in Statuses
    BY DEF BlocksEarlyStatus, BlocksStatus, Statuses
  <1>2. ids \in Seq(Tokens \cup {BadToken}) /\ Len(ids) \in Nat
    BY ApiAssumption, LenProperties
  <1>3. ASSUME late = "OK" PROVE Startable(next)
    <2>1. /\ Len(ids) \in 1 .. NCtx
          /\ \A t \in 1 .. Len(ids) : ids[t] \in Tokens
          /\ store => Len(ids) <= kv.capacity
      BY <1>2, <1>3, ApiAssumption DEF BlocksStatus, SafeInv, TypeOK, CacheOK
    <2>2. ids \in Contexts
      BY <1>2, <2>1, IsASeq DEF Contexts
    <2>3. next \in PassRecords
      BY <1>2, <2>2, NLayerAssumption DEF PassRecords, Layers, Rows
    <2> QED BY <2>1, <2>2, <2>3 DEF Startable
  <1>4. next.ids = ids
    OBVIOUS
  <1>5. Enter(ids, BlocksEarlyStatus(fits), late, grown, next)
    BY DEF EnterBlocks
  <1> HIDE DEF late, next
  <1> QED BY <1>1, <1>3, <1>4, <1>5, EnterSafe

\* The cached step is entered where the cache ends, with a known last token.
LEMMA CachedSafe ==
  ASSUME SafeInv, NEW ids \in Inputs, NEW fits \in BOOLEAN, NEW grown \in SUBSET Buffers,
         DecodeStepCached(ids, fits, grown)
  PROVE  SafeInv'
  <1> DEFINE early == CachedEarlyStatus(ids, fits, kv.capacity, kv.length)
             late  == IF early = "OK" THEN CachedStatus(ids) ELSE early
             own   == IF early = "OK" THEN OwnContext(ids) ELSE Mixed
             next  == [kind |-> "cached", ids |-> ids, layer |-> 0, store |-> TRUE,
                       ctx |-> own]
  <1>1. early \in Statuses /\ late \in Statuses
    BY DEF CachedEarlyStatus, CachedStatus, Statuses
  <1>2. ids \in Seq(Tokens \cup {BadToken}) /\ Len(ids) \in Nat
    BY ApiAssumption, LenProperties
  <1>3. ASSUME early = "OK", late = "OK" PROVE Startable(next)
    <2>1. /\ Len(ids) \in 1 .. NCtx /\ Len(ids) # 0 /\ Len(ids) <= kv.capacity
          /\ kv.length = Len(ids) - 1
      BY <1>2, <1>3, ApiAssumption DEF CachedEarlyStatus, SafeInv, TypeOK, CacheOK
    <2>2. LastOf(ids) \in Tokens
      BY <1>3 DEF CachedStatus
    <2>3. own \in Rows /\ (own # Mixed => own \in Contexts /\ Len(own) = Len(ids))
      <3>1. CASE Len(ids) = 1
        <4>1. <<LastOf(ids)>> \in Contexts /\ Len(<<LastOf(ids)>>) = 1
          BY <2>2, ContextOne
        <4> QED BY <1>3, <3>1, <4>1 DEF OwnContext, Rows
      <3>2. CASE Len(ids) # 1
        <4> DEFINE below == kv.rows[0][Len(ids) - 2]
        <4>1. 0 \in Layers /\ Len(ids) - 2 \in 0 .. kv.capacity - 1
          <5>1. kv.capacity \in Nat
            BY KvType DEF SafeInv
          <5>2. Len(ids) - 2 \in 0 .. kv.capacity - 1
            BY <5>1, <2>1, <3>2, <1>2, RowBelow
          <5>3. 0 \in Layers
            BY NLayerAssumption DEF Layers
          <5> QED BY <5>2, <5>3
        <4>2. below \in Rows /\ (below \notin {Blank, Mixed} => Len(below) = Len(ids) - 1)
          <5>1. Len(ids) - 2 + 1 = Len(ids) - 1
            BY <1>2
          <5> QED BY <4>1, <5>1, KvType DEF SafeInv
        <4>3. CASE below \in {Blank, Mixed}
          BY <1>3, <3>2, <4>3 DEF OwnContext, Rows
        <4>4. CASE below \notin {Blank, Mixed}
          <5>1. below \in Contexts /\ Len(below) = Len(ids) - 1 /\ Len(below) + 1 <= NCtx
            BY <2>1, <4>2, <4>4, <1>2, ApiAssumption DEF Rows
          <5> HIDE DEF below
          <5>2. Append(below, LastOf(ids)) \in Contexts
            BY <5>1, <2>2, ContextAppend
          <5>3. below \in Seq(Tokens) /\ Len(Append(below, LastOf(ids))) = Len(below) + 1
            BY <5>1, <2>2, AppendProperties DEF Contexts
          <5>4. own = Append(below, LastOf(ids))
            BY <1>3, <3>2, <4>4 DEF OwnContext, below
          <5> HIDE DEF own
          <5> QED BY <5>1, <5>2, <5>3, <5>4, <1>2 DEF Rows
        <4> QED BY <4>3, <4>4
      <3> QED BY <3>1, <3>2
    <2>4. next \in PassRecords
      BY <1>2, <2>3, NLayerAssumption DEF PassRecords, Layers
    <2> HIDE DEF own, early, late
    <2> QED BY <2>1, <2>2, <2>3, <2>4 DEF Startable
  <1>4. next.ids = ids
    OBVIOUS
  <1>5. Enter(ids, early, late, grown, next)
    BY DEF DecodeStepCached
  <1> HIDE DEF early, late, next
  <1> QED BY <1>1, <1>3, <1>4, <1>5, EnterSafe
-----------------------------------------------------------------------------
(* The calls that do not run the layers.                                   *)

\* A status with no logits is a reply.
LEMMA ReplyType ==
  ASSUME NEW st \in Statuses, Answer(st, <<>>)
  PROVE  last' \in [status : Statuses, logits : Seq(Rows)]
  BY EmptySeq DEF Answer

LEMMA SetDecodePathSafe ==
  ASSUME SafeInv, NEW p \in Paths, SetDecodePath(p)
  PROVE  SafeInv'
  BY DEF SafeInv, SetDecodePath, TypeOK, CacheOK, RowsPlaced, PassInv, ScratchCovers, Running

\* A fresh cache is well typed.
LEMMA CreateType ==
  ASSUME NEW n \in Nat, n # 0
  PROVE  /\ CacheOK(Create(n), Rows)
         /\ Create(n).capacity = n /\ Create(n).length = 0
         /\ \A l \in Layers, p \in 0 .. n - 1 : Create(n).rows[l][p] = Blank
  BY DEF CacheOK, Create, Rows

LEMMA KvReserveSafe ==
  ASSUME SafeInv, NEW n \in CacheRequests, NEW mem \in BOOLEAN, KvReserve(n, mem)
  PROVE  SafeInv'
  <1> DEFINE st == KvReserveStatus(n, kv.capacity, mem)
  <1>1. st \in Statuses
    BY DEF KvReserveStatus, Statuses
  <1>2. Answer(st, <<>>) /\ ~Running /\ UNCHANGED <<path, scratch, pass>>
    BY DEF KvReserve
  <1>3. AsInt(n) \in Int
    BY ApiAssumption DEF AsInt
  <1>4. CASE kv' = kv
    BY <1>1, <1>2, <1>4, ReplyType
       DEF SafeInv, TypeOK, CacheOK, RowsPlaced, PassInv, ScratchCovers, Running
  <1>5. CASE kv' # kv
    <2>1. /\ st = "OK" /\ KvReserveReplaces(n, kv.capacity)
          /\ kv' = Create(AsInt(n))
      BY <1>5 DEF KvReserve
    <2>2. kv.capacity \in Nat
      BY KvType DEF SafeInv
    <2>3. AsInt(n) \in Nat /\ AsInt(n) # 0
      BY <1>3, <2>1, <2>2 DEF KvReserveStatus, KvReserveReplaces
    <2> DEFINE a == AsInt(n)
    <2> HIDE DEF a, st
    <2>4. /\ CacheOK(kv', Rows) /\ kv'.capacity = a
          /\ \A l \in Layers, p \in 0 .. a - 1 : kv'.rows[l][p] = Blank
      BY <2>1, <2>3, CreateType DEF a
    <2>5. TypeOK'
      BY <1>1, <1>2, <2>4, ReplyType DEF SafeInv, TypeOK, RowsPlaced, CacheOK
    <2> QED BY <1>2, <2>5 DEF SafeInv, PassInv, ScratchCovers, Running
  <1> QED BY <1>4, <1>5

LEMMA KvSetLengthSafe ==
  ASSUME SafeInv, NEW n \in LengthRequests, KvSetLength(n)
  PROVE  SafeInv'
  <1>1. KvSetLengthStatus(n, kv.capacity) \in Statuses
    BY DEF KvSetLengthStatus, Statuses
  <1>2. Answer(KvSetLengthStatus(n, kv.capacity), <<>>) /\ ~Running
        /\ UNCHANGED <<path, scratch, pass>> /\ kv' = SetLength(kv, n)
    BY DEF KvSetLength
  <1>3. n \in Int
    BY ApiAssumption
  <1>4. /\ CacheOK(kv', Rows) /\ kv'.capacity = kv.capacity /\ kv'.rows = kv.rows
    <2>1. CASE SetLengthStatus(kv.capacity, n) = "OK"
      <3>1. n \in 0 .. kv.capacity
        BY <1>3, <2>1, KvType DEF SafeInv, SetLengthStatus
      <3> QED BY <1>2, <2>1, <3>1 DEF SafeInv, TypeOK, CacheOK, SetLength
    <2>2. CASE SetLengthStatus(kv.capacity, n) # "OK"
      BY <1>2, <2>2 DEF SafeInv, TypeOK, SetLength
    <2> QED BY <2>1, <2>2
  <1>5. TypeOK'
    BY <1>1, <1>2, <1>4, ReplyType DEF SafeInv, TypeOK, RowsPlaced
  <1> QED BY <1>2, <1>5 DEF SafeInv, PassInv, ScratchCovers, Running

LEMMA ReserveSafe ==
  ASSUME SafeInv, NEW T \in TokenRequests, NEW grown \in SUBSET Buffers, Reserve(T, grown)
  PROVE  SafeInv'
  <1>1. T \in Nat
    BY ApiAssumption
  <1>2. ScratchStatus(T, grown) \in Statuses
    BY DEF ScratchStatus, ReserveStatus, Statuses
  <1>3. /\ Answer(ScratchStatus(T, grown), <<>>) /\ ~Running
        /\ scratch' = ScratchAfter(T, grown) /\ UNCHANGED <<path, kv, pass>>
    BY DEF Reserve
  <1>4. /\ scratch' \in [tokens : Nat, room : [Buffers -> Nat]]
        /\ \A b \in Buffers : scratch'.room[b] >= scratch'.tokens
    BY <1>1, <1>3, ScratchStep DEF SafeInv
  <1>5. TypeOK'
    BY <1>2, <1>3, <1>4, ReplyType DEF SafeInv, TypeOK, RowsPlaced, CacheOK
  <1> QED BY <1>3, <1>4, <1>5 DEF SafeInv, PassInv, ScratchCovers, Running
-----------------------------------------------------------------------------
(* The layers of a running pass.                                           *)

\* Plain facts about the running pass, for the arithmetic below.
LEMMA PassFacts ==
  ASSUME SafeInv, Running
  PROVE  /\ Len(pass.ids) \in Nat /\ Len(pass.ids) # 0 /\ Len(pass.ids) <= NCtx
         /\ kv.capacity \in Nat /\ kv.length \in Nat /\ kv.length <= kv.capacity
         /\ pass.layer \in Layers /\ pass.layer \in Int /\ pass.ctx \in Rows
         /\ pass.store => Len(pass.ids) <= kv.capacity
         /\ pass.kind = "cached" => pass.store
  <1>1. Len(pass.ids) \in 1 .. NCtx /\ NCtx \in Nat
    BY ApiAssumption DEF SafeInv, PassInv
  <1>2. /\ pass.store => Len(pass.ids) <= kv.capacity
        /\ pass.kind = "cached" => pass.store
    BY DEF SafeInv, PassInv
  <1>3. kv.capacity \in Nat /\ kv.length \in Nat /\ kv.length <= kv.capacity
    BY KvType DEF SafeInv
  <1>4. pass.layer \in Layers /\ pass.layer \in Int /\ pass.ctx \in Rows
    BY NLayerAssumption DEF SafeInv, TypeOK, Layers
  <1> QED BY <1>1, <1>2, <1>3, <1>4

\* The refusal halfway through the layers is unreachable.
LEMMA NotRefused ==
  ASSUME SafeInv, Running
  PROVE  ~StoreRefused
  BY PassFacts DEF StoreRefused, WriteStatus

\* What the layer stores: nothing but rows below T of this layer changes.
LEMMA StoredType ==
  ASSUME SafeInv, Running
  PROVE  /\ CacheOK(Stored, Rows)
         /\ Stored.capacity = kv.capacity /\ Stored.length = kv.length
         /\ \A l \in Layers, p \in 0 .. kv.capacity - 1 :
              Stored.rows[l][p] =
                IF l # pass.layer THEN kv.rows[l][p]
                ELSE IF pass.kind = "cached"
                     THEN IF p = Len(pass.ids) - 1 THEN pass.ctx ELSE kv.rows[l][p]
                ELSE IF pass.store /\ p < Len(pass.ids) THEN Take(pass.ids, p + 1)
                     ELSE kv.rows[l][p]
  <1> DEFINE T == Len(pass.ids)
             N == kv.capacity
             L == pass.layer
  <1>0. /\ T \in Nat /\ T # 0 /\ N \in Nat /\ L \in Layers /\ pass.ctx \in Rows
        /\ pass.store => T <= N
        /\ pass.kind = "cached" => pass.store
    BY PassFacts
  <1>1. kv.rows \in [Layers -> [0 .. N - 1 -> Rows]]
    BY KvType DEF SafeInv
  <1>2. /\ kv = [capacity |-> N, length |-> kv.length, rows |-> kv.rows]
        /\ kv.length \in 0 .. N
    BY DEF SafeInv, TypeOK, CacheOK
  <1>3. CASE pass.kind = "cached"
    <2> DEFINE R == [kv.rows EXCEPT ![L] = [@ EXCEPT ![T - 1] = pass.ctx]]
    <2>1. T - 1 \in 0 .. N - 1
      BY <1>0, <1>3
    <2>2. WriteStatus(kv, T - 1) = "OK"
      BY <1>0, <1>3, <2>1 DEF WriteStatus
    <2>3. Stored = [capacity |-> N, length |-> kv.length, rows |-> R]
      BY <1>2, <1>3, <2>2 DEF Stored, Write
    <2>4. /\ R \in [Layers -> [0 .. N - 1 -> Rows]]
          /\ \A l \in Layers, p \in 0 .. N - 1 :
               R[l][p] = IF l = L /\ p = T - 1 THEN pass.ctx ELSE kv.rows[l][p]
      BY <1>0, <1>1, <2>1
    <2> HIDE DEF R
    <2> QED BY <1>0, <1>2, <1>3, <2>3, <2>4 DEF CacheOK
  <1>4. CASE pass.kind # "cached" /\ pass.store
    <2> DEFINE row == [p \in 0 .. N - 1 |-> IF p < T THEN Take(pass.ids, p + 1)
                                                     ELSE kv.rows[L][p]]
               R   == [kv.rows EXCEPT ![L] = row]
    <2>1. \A p \in 0 .. N - 1 : p < T => Take(pass.ids, p + 1) \in Rows
      <3>1. pass.ids \in Contexts
        BY <1>4 DEF SafeInv, PassInv
      <3> QED BY <1>0, <3>1, ContextPrefix DEF Rows
    <2>2. row \in [0 .. N - 1 -> Rows]
      BY <1>0, <1>1, <2>1
    <2>3. DOMAIN kv.rows[L] = 0 .. N - 1
      BY <1>0, <1>1
    <2>4. Stored = [capacity |-> N, length |-> kv.length, rows |-> R]
      BY <1>2, <1>4, <2>3 DEF Stored, StorePrefix
    <2>5. /\ R \in [Layers -> [0 .. N - 1 -> Rows]]
          /\ \A l \in Layers : R[l] = IF l = L THEN row ELSE kv.rows[l]
      BY <1>0, <1>1, <2>2
    <2>6. \A p \in 0 .. N - 1 : row[p] = IF p < T THEN Take(pass.ids, p + 1)
                                         ELSE kv.rows[L][p]
      OBVIOUS
    <2> HIDE DEF R, row
    <2> QED BY <1>0, <1>2, <1>4, <2>4, <2>5, <2>6 DEF CacheOK
  <1>5. CASE pass.kind # "cached" /\ ~pass.store
    <2>1. Stored = kv
      BY <1>5 DEF Stored
    <2> QED BY <1>5, <2>1 DEF SafeInv, TypeOK
  <1> QED BY <1>3, <1>4, <1>5

\* What a layer stores at position p keeps the place of the rows.
LEMMA StoredPlaced ==
  ASSUME SafeInv, Running, NEW l \in Layers, NEW p \in 0 .. kv.capacity - 1
  PROVE  Stored.rows[l][p] \notin {Blank, Mixed} => Len(Stored.rows[l][p]) = p + 1
  <1> DEFINE T == Len(pass.ids)
  <1>1. /\ T \in Nat /\ kv.capacity \in Nat /\ p \in Nat
        /\ kv.rows[l][p] \notin {Blank, Mixed} => Len(kv.rows[l][p]) = p + 1
    BY PassFacts, KvType DEF SafeInv
  <1>2. CASE Stored.rows[l][p] = kv.rows[l][p]
    BY <1>1, <1>2
  <1>3. CASE pass.kind = "cached" /\ p = T - 1 /\ Stored.rows[l][p] = pass.ctx
    <2>1. pass.ctx # Mixed => Len(pass.ctx) = T
      BY <1>3 DEF SafeInv, PassInv
    <2> QED BY <1>1, <1>3, <2>1
  <1>4. CASE pass.kind # "cached" /\ p < T /\ Stored.rows[l][p] = Take(pass.ids, p + 1)
    <2>1. pass.ids \in Seq(Tokens) /\ p + 1 \in 0 .. Len(pass.ids)
      BY <1>1, <1>4 DEF SafeInv, PassInv, Contexts
    <2>2. Len(Take(pass.ids, p + 1)) = p + 1
      BY <2>1, TakeProperties
    <2> QED BY <1>4, <2>2
  <1> QED BY <1>2, <1>3, <1>4, StoredType

\* Attention answers the context of the position, or Mixed.
LEMMA AttendedType ==
  ASSUME SafeInv, Running
  PROVE  /\ Attended \in {pass.ctx, Mixed} /\ Attended \in Rows
         /\ pass.kind # "cached" => Attended = pass.ctx
  <1>1. pass.ctx \in Rows
    BY PassFacts
  <1> QED BY <1>1 DEF Attended, Attend, Rows

\* The cache a layer leaves behind is well typed.
LEMMA CacheStep ==
  ASSUME SafeInv, Running, kv' = Stored
  PROVE  CacheOK(kv, Rows)' /\ RowsPlaced' /\ kv'.capacity = kv.capacity /\ kv'.length = kv.length
  BY StoredType, StoredPlaced DEF CacheOK, RowsPlaced

LEMMA LayerStepSafe ==
  ASSUME SafeInv, LayerStep
  PROVE  SafeInv'
  <1>1. /\ Running /\ pass.layer < NLayer - 1 /\ kv' = Stored
        /\ pass' = [pass EXCEPT !.layer = @ + 1, !.ctx = Attended]
        /\ UNCHANGED <<path, scratch, last>>
    BY NotRefused DEF LayerStep
  <1>2. /\ pass \in PassRecords /\ pass.layer + 1 \in Layers
        /\ Attended \in {pass.ctx, Mixed} /\ Attended \in Rows
        /\ pass.kind # "cached" => Attended = pass.ctx
    BY <1>1, NLayerAssumption, AttendedType DEF SafeInv, TypeOK, PassRecords, Layers
  <1>3. /\ pass' \in PassRecords
        /\ pass'.kind = pass.kind /\ pass'.ids = pass.ids /\ pass'.store = pass.store
        /\ pass'.ctx = Attended
    BY <1>1, <1>2 DEF PassRecords
  <1>4. CacheOK(kv, Rows)' /\ RowsPlaced' /\ kv'.capacity = kv.capacity /\ kv'.length = kv.length
    BY <1>1, CacheStep
  <1>5. TypeOK'
    BY <1>1, <1>3, <1>4 DEF SafeInv, TypeOK, PassRecords
  <1>6. PassInv'
    BY <1>1, <1>2, <1>3, <1>4 DEF SafeInv, PassInv, Running
  <1>7. ScratchCovers'
    BY <1>1, <1>3 DEF SafeInv, ScratchCovers, Running
  <1> QED BY <1>5, <1>6, <1>7 DEF SafeInv

\* The logits of a finished pass are rows.
LEMMA LogitsType ==
  ASSUME SafeInv, Running
  PROVE  LogitsOf(Attended) \in Seq(Rows)
  <1>1. CASE pass.kind = "prefill"
    <2>1. pass.ids \in Contexts /\ Len(pass.ids) \in Nat
      BY <1>1, PassFacts DEF SafeInv, PassInv
    <2>2. \A t \in 1 .. Len(pass.ids) : Take(pass.ids, t) \in Rows
      BY <2>1, ContextPrefix DEF Rows
    <2>3. [t \in 1 .. Len(pass.ids) |-> Take(pass.ids, t)] \in Seq(Rows)
      BY <2>1, <2>2, IsASeq
    <2> QED BY <1>1, <2>3 DEF LogitsOf
  <1>2. CASE pass.kind # "prefill"
    BY <1>2, AttendedType DEF LogitsOf
  <1> QED BY <1>1, <1>2

LEMMA LastLayerSafe ==
  ASSUME SafeInv, LastLayer
  PROVE  SafeInv'
  <1>1. /\ Running
        /\ kv' = IF pass.store THEN SetLength(Stored, Len(pass.ids)) ELSE Stored
        /\ Answer("OK", LogitsOf(Attended))
        /\ pass' = Idle /\ UNCHANGED <<path, scratch>>
    BY NotRefused DEF LastLayer
  <1>2. /\ CacheOK(Stored, Rows) /\ Stored.capacity = kv.capacity
        /\ \A l \in Layers, p \in 0 .. kv.capacity - 1 :
              Stored.rows[l][p] \notin {Blank, Mixed} => Len(Stored.rows[l][p]) = p + 1
    BY <1>1, StoredType, StoredPlaced
  <1>3. pass.store => Len(pass.ids) \in 0 .. kv.capacity
    BY <1>1, PassFacts
  <1>4. CacheOK(kv, Rows)' /\ kv'.capacity = kv.capacity /\ kv'.rows = Stored.rows
    BY <1>1, <1>2, <1>3 DEF CacheOK, SetLength
  <1>5. Idle \in PassRecords
    BY NLayerAssumption DEF Idle, PassRecords, Layers, Rows, Blank
  <1>6. last' \in [status : Statuses, logits : Seq(Rows)]
    BY <1>1, LogitsType DEF Answer, Statuses
  <1>7. TypeOK'
    BY <1>1, <1>2, <1>4, <1>5, <1>6 DEF SafeInv, TypeOK, RowsPlaced, PassRecords
  <1>8. ~Running'
    BY <1>1 DEF Running, Idle
  <1> QED BY <1>1, <1>7, <1>8 DEF SafeInv, PassInv, ScratchCovers
-----------------------------------------------------------------------------
(* Together.                                                               *)

LEMMA InitSafe == Init => SafeInv
  <1> SUFFICES ASSUME Init PROVE SafeInv
    OBVIOUS
  <1>1. CacheOK(kv, Rows) /\ kv.capacity = 0
    BY DEF Init, NullCache, CacheOK, Layers
  <1>2. Idle \in PassRecords
    BY NLayerAssumption DEF Idle, PassRecords, Layers, Rows, Blank
  <1>3. TypeOK
    BY <1>1, <1>2, EmptySeq DEF Init, TypeOK, RowsPlaced, Paths, Statuses, PassRecords
  <1> QED BY <1>3 DEF Init, SafeInv, PassInv, ScratchCovers, Running, Idle

LEMMA NextSafe == SafeInv /\ [Next]_vars => SafeInv'
  <1> SUFFICES ASSUME SafeInv, [Next]_vars PROVE SafeInv'
    OBVIOUS
  <1>1. ASSUME NEW p \in Paths, SetDecodePath(p) PROVE SafeInv'
    BY <1>1, SetDecodePathSafe
  <1>2. ASSUME NEW n \in CacheRequests, NEW mem \in BOOLEAN, KvReserve(n, mem) PROVE SafeInv'
    BY <1>2, KvReserveSafe
  <1>3. ASSUME NEW T \in TokenRequests, NEW grown \in SUBSET Buffers, Reserve(T, grown)
        PROVE SafeInv'
    BY <1>3, ReserveSafe
  <1>4. ASSUME NEW ids \in Inputs, NEW fits \in BOOLEAN, NEW grown \in SUBSET Buffers,
               Call(ids, fits, grown)
        PROVE SafeInv'
    BY <1>4, BlocksSafe, CachedSafe DEF Call, Prefill, DecodeStep
  <1>5. ASSUME NEW n \in LengthRequests, KvSetLength(n) PROVE SafeInv'
    BY <1>5, KvSetLengthSafe
  <1>6. CASE LayerStep
    BY <1>6, LayerStepSafe
  <1>7. CASE LastLayer
    BY <1>7, LastLayerSafe
  <1>8. CASE UNCHANGED vars
    BY <1>8 DEF vars, SafeInv, TypeOK, CacheOK, RowsPlaced, PassInv, ScratchCovers, Running
  <1> QED BY <1>1, <1>2, <1>3, <1>4, <1>5, <1>6, <1>7, <1>8 DEF Next, EngineNext

(* Every caller keeps the types, the running pass and the scratch sound.   *)
THEOREM Safe == Spec => []SafeInv
  BY InitSafe, NextSafe, PTL DEF Spec

(* Whatever calls are made, in whatever order, the length never exceeds    *)
(* the capacity and every layer has exactly `capacity` well-typed rows.    *)
THEOREM TypeCorrect == Spec => []TypeOK
  <1>1. SafeInv => TypeOK
    BY DEF SafeInv
  <1> QED BY <1>1, Safe, PTL

(* Whichever reallocs of model_reserve ever failed, no pass runs on a      *)
(* buffer that is too small for its tokens.                                *)
THEOREM ScratchAlwaysCovers == Spec => []ScratchCovers
  <1>1. SafeInv => ScratchCovers
    BY DEF SafeInv
  <1> QED BY <1>1, Safe, PTL
-----------------------------------------------------------------------------
(* Refusals.                                                               *)

\* A pass ends in its last layer, which answers OK.
LEMMA PassEnds ==
  ASSUME SafeInv, [Next]_vars, Running, ~Running'
  PROVE  LastLayer /\ last'.status = "OK"
  <1>1. ~LayerStep
    <2>1. SUFFICES ASSUME LayerStep PROVE FALSE
      OBVIOUS
    <2>2. pass' = [pass EXCEPT !.layer = @ + 1, !.ctx = Attended] /\ pass \in PassRecords
      BY <2>1, NotRefused DEF LayerStep, SafeInv, TypeOK, PassRecords
    <2> QED BY <2>2 DEF Running, PassRecords
  <1>2. LastLayer
    BY <1>1 DEF Next, EngineNext, SetDecodePath, KvReserve, Reserve, Call, Prefill, DecodeStep,
            DecodeStepCached, EnterBlocks, Enter, KvSetLength, vars, Running
  <1>3. last'.status = "OK"
    BY <1>2, NotRefused DEF LastLayer, Answer
  <1> QED BY <1>2, <1>3

\* The engine changes the cache only in a step that answers OK or answers nothing.
LEMMA RefusalStep ==
  ASSUME SafeInv, [Next]_vars, last' # last, last'.status # "OK"
  PROVE  kv' = kv
  <1>1. ASSUME NEW n \in CacheRequests, NEW mem \in BOOLEAN, KvReserve(n, mem) PROVE kv' = kv
    BY <1>1 DEF KvReserve, Answer
  <1>2. ASSUME NEW n \in LengthRequests, KvSetLength(n) PROVE kv' = kv
    BY <1>2 DEF KvSetLength, Answer, SetLength, SetLengthStatus, KvSetLengthStatus
  <1>3. ~LayerStep
    BY NotRefused DEF LayerStep
  <1>4. ~LastLayer
    BY NotRefused DEF LastLayer, Answer
  <1>5. ASSUME NEW ids \in Inputs, NEW fits \in BOOLEAN, NEW grown \in SUBSET Buffers,
               Call(ids, fits, grown)
        PROVE kv' = kv
    BY <1>5 DEF Call, Prefill, DecodeStep, DecodeStepCached, EnterBlocks, Enter
  <1> QED BY <1>1, <1>2, <1>3, <1>4, <1>5
          DEF Next, EngineNext, SetDecodePath, Reserve, vars

(* A refused call changes nothing of the cache, and no caller ever sees a  *)
(* pass refused halfway through the layers.                                *)
THEOREM RefusalsComeFirst == Spec => RefusedAtOnce
  <1>1. SafeInv /\ [Next]_vars =>
          [/\ last' # last /\ last'.status # "OK" => kv' = kv
           /\ Running /\ ~Running' => last'.status = "OK"]_vars
    BY RefusalStep, PassEnds
  <1> QED BY <1>1, Safe, PTL DEF Spec, RefusedAtOnce
-----------------------------------------------------------------------------
(* Present in every layer or in none.                                      *)

\* The positions the running pass stores in each layer it has done.
Stores(p) ==
  pass.store /\ IF pass.kind = "cached" THEN p = Len(pass.ids) - 1 ELSE p < Len(pass.ids)

(* In the layers done so far the stored positions are present; every other *)
(* row is as present as the last layer's.                                  *)
PresenceInv ==
  \A l \in Layers, p \in 0 .. kv.capacity - 1 :
    IF Running /\ Stores(p) /\ l < pass.layer THEN kv.rows[l][p] # Blank
    ELSE kv.rows[l][p] = Blank <=> kv.rows[NLayer - 1][p] = Blank

\* The rows a layer stores are not blank.
LEMMA StoredPresent ==
  ASSUME SafeInv, Running, NEW p \in 0 .. kv.capacity - 1
  PROVE  /\ Stores(p) => Stored.rows[pass.layer][p] # Blank
         /\ ~Stores(p) => Stored.rows[pass.layer][p] = kv.rows[pass.layer][p]
         /\ \A l \in Layers : l # pass.layer => Stored.rows[l][p] = kv.rows[l][p]
  <1>1. \A c \in Contexts \cup {Mixed} : c # Blank
    BY EngineAssumption DEF Contexts, Blank
  <1>2. pass.layer \in Layers /\ Len(pass.ids) \in Nat /\ p \in Nat
    BY PassFacts
  <1>3. CASE pass.kind = "cached"
    <2>1. pass.ctx \in Contexts \cup {Mixed}
      BY <1>3 DEF SafeInv, PassInv
    <2>2. Stored.rows[pass.layer][p] = IF p = Len(pass.ids) - 1 THEN pass.ctx
                                       ELSE kv.rows[pass.layer][p]
      BY <1>2, <1>3, StoredType
    <2>3. pass.store
      BY <1>3, PassFacts
    <2>4. \A l \in Layers : l # pass.layer => Stored.rows[l][p] = kv.rows[l][p]
      BY <1>2, StoredType
    <2> QED BY <1>1, <1>3, <2>1, <2>2, <2>3, <2>4 DEF Stores
  <1>4. CASE pass.kind # "cached"
    <2>1. pass.ids \in Contexts
      BY <1>4 DEF SafeInv, PassInv
    <2>2. p < Len(pass.ids) => Take(pass.ids, p + 1) # Blank
      BY <1>1, <1>2, <2>1, ContextPrefix
    <2>3. Stored.rows[pass.layer][p] =
            IF pass.store /\ p < Len(pass.ids) THEN Take(pass.ids, p + 1)
            ELSE kv.rows[pass.layer][p]
      BY <1>2, <1>4, StoredType
    <2>4. \A l \in Layers : l # pass.layer => Stored.rows[l][p] = kv.rows[l][p]
      BY <1>2, StoredType
    <2> QED BY <1>4, <2>2, <2>3, <2>4 DEF Stores
  <1> QED BY <1>3, <1>4

LEMMA LayerStepPresence ==
  ASSUME SafeInv, PresenceInv, LayerStep
  PROVE  PresenceInv'
  <1>1. /\ Running /\ pass.layer < NLayer - 1 /\ kv' = Stored
        /\ pass' = [pass EXCEPT !.layer = @ + 1, !.ctx = Attended]
    BY NotRefused DEF LayerStep
  <1>2. /\ pass \in PassRecords /\ pass.layer \in Layers /\ NLayer - 1 \in Layers
        /\ pass.layer \in Int /\ NLayer - 1 # pass.layer /\ NLayer \in Int
    BY <1>1, PassFacts, NLayerAssumption DEF SafeInv, TypeOK, PassRecords, Layers
  <1>3. /\ Running' /\ pass'.layer = pass.layer + 1
        /\ pass'.kind = pass.kind /\ pass'.ids = pass.ids /\ pass'.store = pass.store
    BY <1>1, <1>2 DEF Running, PassRecords
  <1>4. /\ \A p : Stores(p)' = Stores(p)
        /\ kv'.capacity = kv.capacity
    BY <1>1, <1>3, StoredType DEF Stores
  <1> SUFFICES ASSUME NEW l \in Layers, NEW p \in 0 .. kv.capacity - 1
               PROVE IF Stores(p) /\ l < pass.layer + 1 THEN Stored.rows[l][p] # Blank
                     ELSE Stored.rows[l][p] = Blank <=> Stored.rows[NLayer - 1][p] = Blank
    BY <1>1, <1>3, <1>4 DEF PresenceInv
  <1>5. Stored.rows[NLayer - 1][p] = kv.rows[NLayer - 1][p]
    BY <1>1, <1>2, StoredPresent
  <1>6. IF Stores(p) /\ l < pass.layer THEN kv.rows[l][p] # Blank
        ELSE kv.rows[l][p] = Blank <=> kv.rows[NLayer - 1][p] = Blank
    BY <1>1 DEF PresenceInv
  <1>7. CASE l = pass.layer
    BY <1>1, <1>2, <1>5, <1>6, <1>7, StoredPresent
  <1>8. CASE l # pass.layer
    <2>1. Stored.rows[l][p] = kv.rows[l][p]
      BY <1>1, <1>8, StoredPresent
    <2>2. l < pass.layer + 1 <=> l < pass.layer
      BY <1>2, <1>8 DEF Layers
    <2> QED BY <1>5, <1>6, <2>1, <2>2
  <1> QED BY <1>7, <1>8

LEMMA LastLayerPresence ==
  ASSUME SafeInv, PresenceInv, LastLayer
  PROVE  PresenceInv'
  <1>1. /\ Running /\ pass.layer = NLayer - 1 /\ pass' = Idle
        /\ kv' = IF pass.store THEN SetLength(Stored, Len(pass.ids)) ELSE Stored
    BY NotRefused DEF LastLayer
  <1>2. ~Running'
    BY <1>1 DEF Running, Idle
  <1>3. CacheOK(Stored, Rows) /\ Stored.capacity = kv.capacity
    BY <1>1, StoredType
  <1>4. kv'.rows = Stored.rows /\ kv'.capacity = kv.capacity
    BY <1>1, <1>3 DEF CacheOK, SetLength
  <1> SUFFICES ASSUME NEW l \in Layers, NEW p \in 0 .. kv.capacity - 1
               PROVE  Stored.rows[l][p] = Blank <=> Stored.rows[NLayer - 1][p] = Blank
    BY <1>2, <1>4 DEF PresenceInv
  <1>5. IF Stores(p) /\ l < NLayer - 1 THEN kv.rows[l][p] # Blank
        ELSE kv.rows[l][p] = Blank <=> kv.rows[NLayer - 1][p] = Blank
    BY <1>1 DEF PresenceInv
  <1>6. l = NLayer - 1 \/ l < NLayer - 1
    BY NLayerAssumption DEF Layers
  <1> QED BY <1>1, <1>5, <1>6, StoredPresent

LEMMA NextPresence == SafeInv /\ PresenceInv /\ [Next]_vars => PresenceInv'
  <1> SUFFICES ASSUME SafeInv, PresenceInv, [Next]_vars PROVE PresenceInv'
    OBVIOUS
  <1>0. NLayer - 1 \in Layers
    BY NLayerAssumption DEF Layers
  <1>1. ASSUME NEW n \in CacheRequests, NEW mem \in BOOLEAN, KvReserve(n, mem)
        PROVE PresenceInv'
    <2>1. ~Running /\ pass' = pass
      BY <1>1 DEF KvReserve
    <2>2. CASE kv' = kv
      BY <2>1, <2>2 DEF PresenceInv, Running
    <2>3. CASE kv' = Create(AsInt(n))
      BY <1>0, <2>1, <2>3 DEF PresenceInv, Running, Create
    <2> QED BY <1>1, <2>2, <2>3 DEF KvReserve
  <1>2. ASSUME NEW n \in LengthRequests, KvSetLength(n) PROVE PresenceInv'
    <2>1. ~Running /\ pass' = pass /\ kv' = SetLength(kv, n) /\ CacheOK(kv, Rows)
      BY <1>2 DEF KvSetLength, SafeInv, TypeOK
    <2>2. kv'.rows = kv.rows /\ kv'.capacity = kv.capacity
      BY <2>1 DEF SetLength, CacheOK
    <2> QED BY <2>1, <2>2 DEF PresenceInv, Running
  <1>3. ASSUME NEW ids \in Inputs, NEW fits \in BOOLEAN, NEW grown \in SUBSET Buffers,
               Call(ids, fits, grown)
        PROVE PresenceInv'
    <2>1. /\ ~Running /\ kv' = kv
          /\ pass' = pass \/ pass'.layer = 0
      BY <1>3 DEF Call, Prefill, DecodeStep, DecodeStepCached, EnterBlocks, Enter
    <2>2. \A l \in Layers : ~(l < 0)
      BY DEF Layers
    <2> QED BY <2>1, <2>2 DEF PresenceInv, Running
  <1>4. CASE LayerStep
    BY <1>4, LayerStepPresence
  <1>5. CASE LastLayer
    BY <1>5, LastLayerPresence
  <1>6. CASE UNCHANGED <<kv, pass>>
    BY <1>6 DEF PresenceInv, Running, Stores
  <1> QED BY <1>1, <1>2, <1>3, <1>4, <1>5, <1>6
          DEF Next, EngineNext, SetDecodePath, Reserve, vars

(* Between calls, whatever the caller did, a position is present in every  *)
(* layer or in none.                                                       *)
THEOREM EveryLayerOrNoneHolds == Spec => []EveryLayerOrNone
  <1>1. Init => PresenceInv
    BY DEF Init, NullCache, PresenceInv
  <1>2. PresenceInv => EveryLayerOrNone
    BY NLayerAssumption DEF PresenceInv, EveryLayerOrNone, Layers
  <1> QED BY <1>1, <1>2, NextPresence, Safe, PTL DEF Spec
-----------------------------------------------------------------------------
(* Callers that only restore lengths: what the cache holds.                *)

\* Every step of a restoring caller is a step of a caller.
LEMMA RestoringIsNext == [RestoringNext]_vars => [Next]_vars
  BY DEF RestoringNext, Next

(* The inductive form of CacheCoherent.  The context is read off the last  *)
(* layer, so a running pass leaves it alone until its last step.  The      *)
(* layers a pass has done hold the pass's tokens at the positions it       *)
(* stores; every other row below the length is a prefix of the context;    *)
(* and a cached step extends the context by its last token.                *)
HeldInv ==
  /\ HeldContext \in Seq(Tokens)
  /\ Len(HeldContext) = kv.length
  /\ \A l \in Layers, p \in 0 .. kv.capacity - 1 :
       IF Running /\ Stores(p) /\ l < pass.layer THEN kv.rows[l][p] = Take(pass.ctx, p + 1)
       ELSE p < kv.length => kv.rows[l][p] = Take(HeldContext, p + 1)
  /\ Running /\ pass.kind = "cached" => pass.ctx = Append(HeldContext, LastOf(pass.ids))

HoldInv == SafeInv /\ HeldInv

\* The context of the running pass, and how long it is.
LEMMA PassContext ==
  ASSUME HoldInv, Running
  PROVE  /\ pass.ctx \in Seq(Tokens) /\ pass.ctx \in Contexts
         /\ Len(pass.ctx) = Len(pass.ids)
         /\ pass.ctx # Mixed
  <1>1. CASE pass.kind = "cached"
    <2>1. /\ pass.ctx = Append(HeldContext, LastOf(pass.ids))
          /\ HeldContext \in Seq(Tokens) /\ Len(HeldContext) = kv.length
          /\ LastOf(pass.ids) \in Tokens /\ kv.length = Len(pass.ids) - 1
      BY <1>1 DEF HoldInv, SafeInv, HeldInv, PassInv
    <2>2. pass.ctx \in Seq(Tokens) /\ Len(pass.ctx) = kv.length + 1
      BY <2>1, AppendProperties
    <2>3. Len(pass.ctx) = Len(pass.ids) /\ Len(pass.ids) \in 1 .. NCtx
      BY <2>1, <2>2, PassFacts, ApiAssumption DEF HoldInv
    <2>4. pass.ctx \in Contexts
      BY <2>2, <2>3 DEF Contexts
    <2> QED BY <2>2, <2>3, <2>4, EngineAssumption
  <1>2. CASE pass.kind # "cached"
    BY <1>2, EngineAssumption DEF HoldInv, SafeInv, PassInv, Contexts
  <1> QED BY <1>1, <1>2

\* What a layer stores is the pass's context, position by position.
LEMMA StoredContext ==
  ASSUME HoldInv, Running, NEW p \in 0 .. kv.capacity - 1
  PROVE  /\ Stores(p) => Stored.rows[pass.layer][p] = Take(pass.ctx, p + 1)
         /\ ~Stores(p) => Stored.rows[pass.layer][p] = kv.rows[pass.layer][p]
         /\ \A l \in Layers : l # pass.layer => Stored.rows[l][p] = kv.rows[l][p]
  <1>1. pass.layer \in Layers /\ Len(pass.ids) \in Nat /\ SafeInv
    BY PassFacts DEF HoldInv
  <1>2. \A l \in Layers : l # pass.layer => Stored.rows[l][p] = kv.rows[l][p]
    BY <1>1, StoredPresent
  <1>3. ~Stores(p) => Stored.rows[pass.layer][p] = kv.rows[pass.layer][p]
    BY <1>1, StoredPresent
  <1>4. ASSUME Stores(p), pass.kind = "cached"
        PROVE  Stored.rows[pass.layer][p] = Take(pass.ctx, p + 1)
    <2>1. p + 1 = Len(pass.ctx) /\ pass.ctx \in Seq(Tokens)
      BY <1>1, <1>4, PassContext DEF Stores
    <2>2. Take(pass.ctx, p + 1) = pass.ctx
      BY <2>1, TakeAll
    <2>3. Stored.rows[pass.layer][p] = pass.ctx
      BY <1>1, <1>4, StoredType DEF Stores
    <2> QED BY <2>2, <2>3
  <1>5. ASSUME Stores(p), pass.kind # "cached"
        PROVE  Stored.rows[pass.layer][p] = Take(pass.ctx, p + 1)
    <2>1. pass.ctx = pass.ids
      BY <1>5 DEF HoldInv, SafeInv, PassInv
    <2> QED BY <1>1, <1>5, <2>1, StoredType DEF Stores
  <1> QED BY <1>2, <1>3, <1>4, <1>5

\* Attention never mixes contexts.
LEMMA AttendsOwn ==
  ASSUME HoldInv, Running
  PROVE  Attended = pass.ctx
  <1> DEFINE T == Len(pass.ids)
  <1>1. CASE pass.kind = "cached"
    <2>1. /\ T \in Nat /\ T # 0 /\ T <= kv.capacity /\ kv.capacity \in Nat
          /\ pass.layer \in Layers /\ pass.layer \in Int
          /\ pass.store /\ kv.length = T - 1
      BY <1>1, PassFacts DEF HoldInv, SafeInv, PassInv
    <2>2. /\ pass.ctx = Append(HeldContext, LastOf(pass.ids))
          /\ HeldContext \in Seq(Tokens) /\ Len(HeldContext) = T - 1
          /\ LastOf(pass.ids) \in Tokens
      BY <1>1, <2>1 DEF HoldInv, SafeInv, HeldInv, PassInv
    <2>3. ASSUME NEW p \in 0 .. T - 1
          PROVE  Stored.rows[pass.layer][p] = Take(pass.ctx, p + 1)
      <3>1. p \in 0 .. kv.capacity - 1 /\ p \in Nat
        BY <2>1
      <3>2. CASE p = T - 1
        BY <1>1, <2>1, <3>1, <3>2, StoredContext DEF Stores
      <3>3. CASE p # T - 1
        <4>1. p < kv.length /\ p + 1 \in 0 .. Len(HeldContext) /\ ~Stores(p)
          BY <1>1, <2>1, <2>2, <3>1, <3>3 DEF Stores
        <4>2. kv.rows[pass.layer][p] = Take(HeldContext, p + 1)
          BY <2>1, <3>1, <4>1 DEF HoldInv, HeldInv
        <4>3. Take(pass.ctx, p + 1) = Take(HeldContext, p + 1)
          BY <2>2, <4>1, TakeAppend
        <4> QED BY <3>1, <4>1, <4>2, <4>3, StoredContext
      <3> QED BY <3>2, <3>3
    <2> QED BY <1>1, <2>3, PassContext DEF Attended, Attend
  <1>2. CASE pass.kind # "cached"
    BY <1>2 DEF Attended
  <1> QED BY <1>1, <1>2

LEMMA LayerStepHeld ==
  ASSUME HoldInv, LayerStep
  PROVE  HeldInv' /\ HeldContext' = HeldContext
  <1>1. /\ Running /\ pass.layer < NLayer - 1 /\ kv' = Stored /\ SafeInv
        /\ pass' = [pass EXCEPT !.layer = @ + 1, !.ctx = pass.ctx]
    BY NotRefused, AttendsOwn DEF LayerStep, HoldInv
  <1>2. /\ pass \in PassRecords /\ pass.layer \in Layers /\ NLayer - 1 \in Layers
        /\ pass.layer \in Int /\ NLayer - 1 # pass.layer /\ NLayer \in Int
    BY <1>1, PassFacts, NLayerAssumption DEF SafeInv, TypeOK, PassRecords, Layers
  <1>3. /\ Running' /\ pass'.layer = pass.layer + 1 /\ pass'.ctx = pass.ctx
        /\ pass'.kind = pass.kind /\ pass'.ids = pass.ids /\ pass'.store = pass.store
    BY <1>1, <1>2 DEF Running, PassRecords
  <1>4. /\ \A p : Stores(p)' = Stores(p)
        /\ kv'.capacity = kv.capacity /\ kv'.length = kv.length
    BY <1>1, <1>3, StoredType DEF Stores
  <1>5. HeldContext' = HeldContext
    <2>1. CASE kv.length = 0
      BY <1>4, <2>1 DEF HeldContext
    <2>2. CASE kv.length # 0
      <3>1. kv.length - 1 \in 0 .. kv.capacity - 1
        BY <1>1, <2>2, PassFacts
      <3>2. Stored.rows[NLayer - 1][kv.length - 1] = kv.rows[NLayer - 1][kv.length - 1]
        BY <1>1, <1>2, <3>1, StoredPresent
      <3> QED BY <1>1, <1>4, <2>2, <3>2 DEF HeldContext
    <2> QED BY <2>1, <2>2
  <1>6. ASSUME NEW l \in Layers, NEW p \in 0 .. kv.capacity - 1
        PROVE  IF Stores(p) /\ l < pass.layer + 1
               THEN Stored.rows[l][p] = Take(pass.ctx, p + 1)
               ELSE p < kv.length => Stored.rows[l][p] = Take(HeldContext, p + 1)
    <2>1. IF Stores(p) /\ l < pass.layer THEN kv.rows[l][p] = Take(pass.ctx, p + 1)
          ELSE p < kv.length => kv.rows[l][p] = Take(HeldContext, p + 1)
      BY <1>1 DEF HoldInv, HeldInv
    <2>2. CASE l = pass.layer
      BY <1>1, <1>2, <2>1, <2>2, StoredContext
    <2>3. CASE l # pass.layer
      <3>1. Stored.rows[l][p] = kv.rows[l][p]
        BY <1>1, <2>3, StoredContext
      <3>2. l < pass.layer + 1 <=> l < pass.layer
        BY <1>2, <2>3 DEF Layers
      <3> QED BY <2>1, <3>1, <3>2
    <2> QED BY <2>2, <2>3
  <1>7. /\ HeldContext \in Seq(Tokens) /\ Len(HeldContext) = kv.length
        /\ pass.kind = "cached" => pass.ctx = Append(HeldContext, LastOf(pass.ids))
    BY <1>1 DEF HoldInv, HeldInv
  <1>8. HeldInv'
    <2>1. /\ HeldContext' \in Seq(Tokens) /\ Len(HeldContext') = kv'.length
          /\ pass'.kind = "cached" => pass'.ctx = Append(HeldContext', LastOf(pass'.ids))
      BY <1>3, <1>4, <1>5, <1>7
    <2>2. \A l \in Layers, p \in 0 .. kv'.capacity - 1 :
            IF Stores(p)' /\ l < pass'.layer THEN kv'.rows[l][p] = Take(pass'.ctx, p + 1)
            ELSE p < kv'.length => kv'.rows[l][p] = Take(HeldContext', p + 1)
      BY <1>1, <1>3, <1>4, <1>5, <1>6
    <2> QED BY <1>3, <2>1, <2>2 DEF HeldInv
  <1> QED BY <1>5, <1>8

LEMMA LastLayerHeld ==
  ASSUME HoldInv, LastLayer
  PROVE  /\ HeldInv'
         /\ HeldContext' = IF pass.store THEN pass.ctx ELSE HeldContext
  <1> DEFINE T == Len(pass.ids)
  <1>1. /\ Running /\ pass.layer = NLayer - 1 /\ pass' = Idle /\ SafeInv
        /\ kv' = IF pass.store THEN SetLength(Stored, T) ELSE Stored
    BY NotRefused DEF LastLayer, HoldInv
  <1>2. ~Running'
    BY <1>1 DEF Running, Idle
  <1>3. /\ CacheOK(Stored, Rows) /\ Stored.capacity = kv.capacity
        /\ Stored.length = kv.length
    BY <1>1, StoredType
  <1>4. kv'.rows = Stored.rows /\ kv'.capacity = kv.capacity
    BY <1>1, <1>3 DEF CacheOK, SetLength
  <1>5. /\ T \in Nat /\ T # 0 /\ kv.capacity \in Nat /\ NLayer - 1 \in Layers
        /\ kv.length \in Nat /\ kv.length <= kv.capacity
        /\ pass.store => T <= kv.capacity
    BY <1>1, PassFacts
  <1>6. /\ HeldContext \in Seq(Tokens) /\ Len(HeldContext) = kv.length
        /\ pass.kind = "cached" =>
             /\ pass.ctx = Append(HeldContext, LastOf(pass.ids))
             /\ LastOf(pass.ids) \in Tokens
             /\ T = kv.length + 1
    BY <1>1, <1>5 DEF HoldInv, HeldInv, PassInv, SafeInv
  <1>7. \A l \in Layers, p \in 0 .. kv.capacity - 1 :
          IF Stores(p) THEN Stored.rows[l][p] = Take(pass.ctx, p + 1)
          ELSE p < kv.length => Stored.rows[l][p] = Take(HeldContext, p + 1)
    <2>1. SUFFICES ASSUME NEW l \in Layers, NEW p \in 0 .. kv.capacity - 1
                   PROVE  IF Stores(p) THEN Stored.rows[l][p] = Take(pass.ctx, p + 1)
                          ELSE p < kv.length => Stored.rows[l][p] = Take(HeldContext, p + 1)
      OBVIOUS
    <2>2. IF Stores(p) /\ l < NLayer - 1 THEN kv.rows[l][p] = Take(pass.ctx, p + 1)
          ELSE p < kv.length => kv.rows[l][p] = Take(HeldContext, p + 1)
      BY <1>1 DEF HoldInv, HeldInv
    <2>3. l = NLayer - 1 \/ l < NLayer - 1
      BY NLayerAssumption DEF Layers
    <2> QED BY <1>1, <2>2, <2>3, StoredContext
  <1>8. CASE pass.store
    <2>1. kv'.length = T
      BY <1>1, <1>3, <1>5, <1>8 DEF CacheOK, SetLength, SetLengthStatus
    <2>2. /\ pass.ctx \in Seq(Tokens) /\ Len(pass.ctx) = T
      BY <1>1, PassContext
    <2>3. ASSUME NEW l \in Layers, NEW p \in 0 .. kv.capacity - 1, p < T
          PROVE  Stored.rows[l][p] = Take(pass.ctx, p + 1)
      <3>1. CASE Stores(p)
        BY <1>7, <3>1
      <3>2. CASE ~Stores(p)
        <4>1. pass.kind = "cached" /\ p < kv.length /\ p + 1 \in 0 .. Len(HeldContext)
          BY <1>5, <1>6, <1>8, <2>3, <3>2 DEF Stores
        <4>2. Stored.rows[l][p] = Take(HeldContext, p + 1)
          BY <1>7, <3>2, <4>1
        <4>3. Take(pass.ctx, p + 1) = Take(HeldContext, p + 1)
          <5>1. /\ pass.ctx = Append(HeldContext, LastOf(pass.ids))
                /\ HeldContext \in Seq(Tokens) /\ LastOf(pass.ids) \in Tokens
            BY <1>6, <4>1
          <5>2. p + 1 \in 0 .. Len(HeldContext)
            BY <4>1
          <5> QED BY <5>1, <5>2, TakeAppend
        <4> QED BY <4>2, <4>3
      <3> QED BY <3>1, <3>2
    <2>4. HeldContext' = pass.ctx
      <3>1. T - 1 \in 0 .. kv.capacity - 1 /\ T - 1 < T /\ T - 1 + 1 = T
        BY <1>5, <1>8
      <3>2. Stored.rows[NLayer - 1][T - 1] = Take(pass.ctx, T)
        BY <1>5, <2>3, <3>1
      <3>3. Take(pass.ctx, T) = pass.ctx
        BY <2>2, TakeAll
      <3> QED BY <1>4, <1>5, <2>1, <3>2, <3>3 DEF HeldContext
    <2> QED BY <1>2, <1>4, <1>8, <2>1, <2>2, <2>3, <2>4 DEF HeldInv
  <1>9. CASE ~pass.store
    <2>1. Stored = kv
      BY <1>1, <1>9, PassFacts DEF Stored
    <2>2. kv' = kv /\ HeldContext' = HeldContext
      BY <1>1, <1>9, <2>1 DEF HeldContext
    <2> QED BY <1>2, <1>6, <1>7, <1>9, <2>1, <2>2 DEF HeldInv, Stores
  <1> QED BY <1>8, <1>9

\* Restoring a length keeps a prefix of the context.
LEMMA KvSetLengthHeld ==
  ASSUME HoldInv, NEW n \in LengthRequests, n <= kv.length \/ n > kv.capacity, KvSetLength(n)
  PROVE  /\ HeldInv'
         /\ HeldContext' = IF KvSetLengthStatus(n, kv.capacity) = "OK"
                           THEN Take(HeldContext, n) ELSE HeldContext
  <1>1. ~Running /\ pass' = pass /\ kv' = SetLength(kv, n) /\ SafeInv
    BY DEF KvSetLength, HoldInv
  <1>2. ~Running'
    BY <1>1 DEF Running
  <1>3. n \in Int /\ kv.capacity \in Nat /\ kv.length \in Nat /\ kv.length <= kv.capacity
    BY <1>1, ApiAssumption, KvType DEF SafeInv
  <1>4. /\ HeldContext \in Seq(Tokens) /\ Len(HeldContext) = kv.length
        /\ \A l \in Layers, p \in 0 .. kv.capacity - 1 :
             p < kv.length => kv.rows[l][p] = Take(HeldContext, p + 1)
    BY <1>1 DEF HoldInv, HeldInv
  <1>5. CASE KvSetLengthStatus(n, kv.capacity) = "OK"
    <2>1. /\ n \in 0 .. kv.length
          /\ kv'.length = n /\ kv'.rows = kv.rows /\ kv'.capacity = kv.capacity
      BY <1>1, <1>3, <1>5
         DEF KvSetLengthStatus, SetLengthStatus, SetLength, SafeInv, TypeOK, CacheOK
    <2>2. HeldContext' = Take(HeldContext, n)
      <3>1. CASE n = 0
        <4>1. Take(HeldContext, 0) \in Seq(Tokens) /\ Len(Take(HeldContext, 0)) = 0
          BY <1>3, <1>4, TakeProperties
        <4>2. Take(HeldContext, 0) = <<>>
          BY <4>1, EmptySeq
        <4> QED BY <2>1, <3>1, <4>2 DEF HeldContext
      <3>2. CASE n # 0
        <4>1. n - 1 \in 0 .. kv.capacity - 1 /\ n - 1 < kv.length /\ n - 1 + 1 = n
          BY <1>3, <2>1, <3>2
        <4>2. NLayer - 1 \in Layers
          BY NLayerAssumption DEF Layers
        <4>3. kv.rows[NLayer - 1][n - 1] = Take(HeldContext, n)
          BY <1>4, <4>1, <4>2
        <4> QED BY <2>1, <3>2, <4>3 DEF HeldContext
      <3> QED BY <3>1, <3>2
    <2>3. Take(HeldContext, n) \in Seq(Tokens) /\ Len(Take(HeldContext, n)) = n
      BY <1>4, <2>1, TakeProperties
    <2>4. ASSUME NEW l \in Layers, NEW p \in 0 .. kv.capacity - 1, p < n
          PROVE  kv.rows[l][p] = Take(Take(HeldContext, n), p + 1)
      <3>1. p < kv.length /\ n \in 0 .. Len(HeldContext) /\ p + 1 \in 0 .. n
        BY <1>3, <1>4, <2>1, <2>4
      <3> QED BY <1>4, <3>1, TakeTake
    <2> QED BY <1>2, <1>5, <2>1, <2>2, <2>3, <2>4 DEF HeldInv
  <1>6. CASE KvSetLengthStatus(n, kv.capacity) # "OK"
    <2>1. kv' = kv
      BY <1>1, <1>6 DEF KvSetLengthStatus, SetLengthStatus, SetLength
    <2> QED BY <1>1, <1>2, <1>6, <2>1 DEF HoldInv, HeldInv, HeldContext, Stores, Running
  <1> QED BY <1>5, <1>6

\* A new cache holds nothing.
LEMMA KvReserveHeld ==
  ASSUME HoldInv, NEW n \in CacheRequests, NEW mem \in BOOLEAN, KvReserve(n, mem)
  PROVE  /\ HeldInv'
         /\ HeldContext' = IF /\ KvReserveStatus(n, kv.capacity, mem) = "OK"
                              /\ KvReserveReplaces(n, kv.capacity)
                           THEN <<>> ELSE HeldContext
  <1>1. /\ ~Running /\ pass' = pass
        /\ kv' = IF /\ KvReserveStatus(n, kv.capacity, mem) = "OK"
                    /\ KvReserveReplaces(n, kv.capacity)
                 THEN Create(AsInt(n)) ELSE kv
    BY DEF KvReserve
  <1>2. ~Running'
    BY <1>1 DEF Running
  <1>3. CASE kv' = Create(AsInt(n))
    <2>1. kv'.length = 0 /\ HeldContext' = <<>>
      BY <1>3 DEF HeldContext, Create
    <2>2. \A p \in 0 .. kv'.capacity - 1 : ~(p < 0)
      OBVIOUS
    <2>3. HeldInv'
      BY <1>2, <2>1, <2>2, EmptySeq DEF HeldInv
    <2>4. CASE /\ KvReserveStatus(n, kv.capacity, mem) = "OK"
               /\ KvReserveReplaces(n, kv.capacity)
      BY <2>1, <2>3, <2>4
    <2>5. CASE ~(/\ KvReserveStatus(n, kv.capacity, mem) = "OK"
                 /\ KvReserveReplaces(n, kv.capacity))
      BY <1>1, <2>3, <2>5 DEF HeldContext
    <2> QED BY <2>4, <2>5
  <1>4. CASE kv' = kv /\ kv' # Create(AsInt(n))
    BY <1>1, <1>4 DEF HoldInv, HeldInv, HeldContext, Stores, Running
  <1> QED BY <1>1, <1>3, <1>4

\* A cached step that is accepted extends what the cache holds.
LEMMA OwnContextHeld ==
  ASSUME HoldInv, ~Running, NEW ids \in Inputs, NEW fits \in BOOLEAN,
         CachedEarlyStatus(ids, fits, kv.capacity, kv.length) = "OK", CachedStatus(ids) = "OK"
  PROVE  OwnContext(ids) = Append(HeldContext, LastOf(ids))
  <1> DEFINE T == Len(ids)
  <1>1. T \in Nat
    BY ApiAssumption, LenProperties
  <1>2. /\ T # 0 /\ T <= kv.capacity /\ kv.length = T - 1 /\ kv.capacity \in Nat
    BY <1>1, KvType DEF CachedEarlyStatus, HoldInv, SafeInv
  <1>3. /\ HeldContext \in Seq(Tokens) /\ Len(HeldContext) = T - 1
        /\ \A l \in Layers, p \in 0 .. kv.capacity - 1 :
             p < T - 1 => kv.rows[l][p] = Take(HeldContext, p + 1)
    BY <1>2 DEF HoldInv, HeldInv
  <1>4. CASE T = 1
    <2>1. HeldContext = <<>>
      BY <1>2, <1>4 DEF HeldContext
    <2> QED BY <1>4, <2>1 DEF OwnContext
  <1>5. CASE T # 1
    <2>1. T - 2 \in 0 .. kv.capacity - 1 /\ T - 2 < T - 1 /\ T - 2 + 1 = T - 1 /\ 0 \in Layers
      <3>1. T - 2 \in 0 .. kv.capacity - 1
        BY <1>1, <1>2, <1>5, RowBelow
      <3>2. 0 \in Layers
        BY NLayerAssumption DEF Layers
      <3> HIDE DEF T
      <3>3. T - 2 < T - 1 /\ T - 2 + 1 = T - 1
        BY <1>1
      <3> QED BY <3>1, <3>2, <3>3
    <2>2. kv.rows[0][T - 2] = Take(HeldContext, T - 1)
      BY <1>3, <2>1
    <2>3. Take(HeldContext, T - 1) = HeldContext
      BY <1>3, TakeAll
    <2>4. HeldContext \in Contexts
      <3>1. T <= NCtx
        BY <1>1, ApiAssumption DEF CachedEarlyStatus
      <3> QED BY <1>1, <1>2, <1>3, <1>5, <3>1, ApiAssumption DEF Contexts
    <2>5. HeldContext \notin {Blank, Mixed}
      BY <2>4, EngineAssumption DEF Contexts, Blank
    <2> QED BY <1>5, <2>2, <2>3, <2>5 DEF OwnContext
  <1> QED BY <1>4, <1>5

\* Entering a pass leaves what the cache holds alone.
LEMMA CallHeld ==
  ASSUME HoldInv, NEW ids \in Inputs, NEW fits \in BOOLEAN, NEW grown \in SUBSET Buffers,
         Call(ids, fits, grown)
  PROVE  HeldInv' /\ HeldContext' = HeldContext
  <1>1. ~Running /\ kv' = kv /\ HeldContext' = HeldContext
    BY DEF Call, Prefill, DecodeStep, DecodeStepCached, EnterBlocks, Enter, HeldContext
  <1>2. /\ HeldContext \in Seq(Tokens) /\ Len(HeldContext) = kv.length
        /\ \A l \in Layers, p \in 0 .. kv.capacity - 1 :
             p < kv.length => kv.rows[l][p] = Take(HeldContext, p + 1)
    BY <1>1 DEF HoldInv, HeldInv
  <1>3. CASE pass' = pass
    BY <1>1, <1>2, <1>3 DEF HeldInv, Running
  <1>4. ASSUME NEW kind \in {"prefill", "decode"}, EnterBlocks(kind, ids, fits, grown),
               pass' # pass
        PROVE  HeldInv'
    <2>1. pass'.kind = kind /\ pass'.layer = 0
      BY <1>4 DEF EnterBlocks, Enter
    <2>2. \A l \in Layers : ~(l < 0)
      BY DEF Layers
    <2> QED BY <1>1, <1>2, <2>1, <2>2 DEF HeldInv
  <1>5. ASSUME DecodeStepCached(ids, fits, grown), pass' # pass
        PROVE  HeldInv'
    <2>1. /\ CachedEarlyStatus(ids, fits, kv.capacity, kv.length) = "OK"
          /\ CachedStatus(ids) = "OK"
          /\ pass'.ids = ids /\ pass'.layer = 0 /\ pass'.ctx = OwnContext(ids)
      BY <1>5 DEF DecodeStepCached, Enter
    <2>2. OwnContext(ids) = Append(HeldContext, LastOf(ids))
      BY <1>1, <2>1, OwnContextHeld
    <2>3. \A l \in Layers : ~(l < 0)
      BY DEF Layers
    <2> QED BY <1>1, <1>2, <2>1, <2>2, <2>3 DEF HeldInv
  <1> QED BY <1>1, <1>3, <1>4, <1>5 DEF Call, Prefill, DecodeStep

LEMMA InitHeld == Init => HeldInv
  BY EmptySeq DEF Init, NullCache, HeldInv, HeldContext, Running, Idle

LEMMA NextHeld == HoldInv /\ [RestoringNext]_vars => HoldInv'
  <1> SUFFICES ASSUME HoldInv, [RestoringNext]_vars PROVE HeldInv'
    BY RestoringIsNext, NextSafe DEF HoldInv
  <1>1. CASE UNCHANGED <<kv, pass>>
    BY <1>1 DEF HoldInv, HeldInv, HeldContext, Stores, Running
  <1> QED BY <1>1, KvReserveHeld, KvSetLengthHeld, CallHeld, LayerStepHeld, LastLayerHeld
          DEF RestoringNext, EngineNext, SetDecodePath, Reserve, vars

(* A caller that only restores lengths keeps the cache and the context.    *)
THEOREM Holds == RestoringSpec => []HoldInv
  <1>1. Init => HoldInv
    BY InitSafe, InitHeld DEF HoldInv
  <1> QED BY <1>1, NextHeld, PTL DEF RestoringSpec

(* Between calls the cache holds the rows of one token sequence, the same  *)
(* in every layer, for every mix of prefills, cached steps, restored       *)
(* lengths, path switches and replaced caches.                             *)
THEOREM CacheStaysCoherent == RestoringSpec => []CacheCoherent
  <1>1. HoldInv => CacheCoherent
    <2> SUFFICES ASSUME HoldInv, ~Running, NEW l \in Layers, NEW p \in 0 .. kv.length - 1
                 PROVE  kv.rows[l][p] = Take(HeldContext, p + 1)
      BY DEF CacheCoherent
    <2>1. p \in 0 .. kv.capacity - 1 /\ p < kv.length
      BY KvType DEF HoldInv, SafeInv
    <2> QED BY <2>1 DEF HoldInv, HeldInv
  <1> QED BY <1>1, Holds, PTL

\* The last step of a cached pass answers the context extended by the token.
LEMMA CachedStepAnswers ==
  ASSUME HoldInv, [Next]_vars, pass.kind = "cached", ~Running', Butlast(pass.ids) = HeldContext
  PROVE  last'.logits = <<pass.ids>>
  <1>1. SafeInv /\ Running
    BY DEF HoldInv, Running
  <1>2. LastLayer
    BY <1>1, PassEnds
  <1>3. last'.logits = <<pass.ctx>>
    BY <1>1, <1>2, NotRefused, AttendsOwn DEF LastLayer, Answer, LogitsOf
  <1>4. pass.ctx = Append(Butlast(pass.ids), LastOf(pass.ids))
    BY <1>1 DEF HoldInv, HeldInv
  <1>5. pass.ids \in Seq(Tokens \cup {BadToken}) /\ Len(pass.ids) # 0
    BY <1>1, PassFacts DEF SafeInv, TypeOK
  <1>6. pass.ctx = pass.ids
    BY <1>4, <1>5, AppendLast
  <1> QED BY <1>3, <1>6

(* The cached path answers what the no-cache path answers, for the same    *)
(* tokens, however long the context and however many steps it took.        *)
THEOREM CachedIsUncached == RestoringSpec => CachedMatchesUncached
  <1>1. HoldInv /\ [RestoringNext]_vars =>
          [pass.kind = "cached" /\ ~Running' /\ Butlast(pass.ids) = HeldContext
             => last'.logits = <<pass.ids>>]_vars
    BY RestoringIsNext, CachedStepAnswers
  <1> QED BY <1>1, Holds, PTL DEF RestoringSpec, CachedMatchesUncached
-----------------------------------------------------------------------------
(* The engine implements its contract.                                     *)

\* Which call the running pass serves.
CallInv ==
  Running =>
    /\ pass.ids \in Inputs
    /\ pass.kind = "prefill" => (pass.store <=> path = "cache")
    /\ pass.kind = "decode" => ~pass.store /\ path # "cache"

LEMMA NextCall == SafeInv /\ CallInv /\ [Next]_vars => CallInv'
  <1> SUFFICES ASSUME SafeInv, CallInv, [Next]_vars PROVE CallInv'
    OBVIOUS
  <1>1. CASE UNCHANGED <<path, pass>>
    BY <1>1 DEF CallInv, Running
  <1>2. CASE ~Running'
    BY <1>2 DEF CallInv
  <1>3. CASE LayerStep
    <2>1. /\ Running /\ path' = path /\ pass \in PassRecords
          /\ pass' = [pass EXCEPT !.layer = @ + 1, !.ctx = Attended]
      BY <1>3, NotRefused DEF LayerStep, SafeInv, TypeOK, PassRecords
    <2>2. pass'.kind = pass.kind /\ pass'.ids = pass.ids /\ pass'.store = pass.store
      BY <2>1 DEF PassRecords
    <2> QED BY <2>1, <2>2 DEF CallInv
  <1>4. ASSUME NEW ids \in Inputs, NEW fits \in BOOLEAN, NEW grown \in SUBSET Buffers,
               Call(ids, fits, grown)
        PROVE  CallInv'
    <2>0. CASE pass' = pass
      BY <1>1, <1>4, <2>0 DEF Call, Prefill, DecodeStep, DecodeStepCached, EnterBlocks, Enter
    <2>1. CASE EnterBlocks("prefill", ids, fits, grown) /\ pass' # pass
      <3>1. /\ path' = path
            /\ pass' = [kind |-> "prefill", ids |-> ids, layer |-> 0,
                        store |-> path = "cache", ctx |-> ids]
        BY <2>1 DEF EnterBlocks, Enter
      <3> QED BY <3>1 DEF CallInv
    <2>2. CASE EnterBlocks("decode", ids, fits, grown) /\ path # "cache" /\ pass' # pass
      <3>1. /\ path' = path
            /\ pass' = [kind |-> "decode", ids |-> ids, layer |-> 0,
                        store |-> path = "cache", ctx |-> ids]
        BY <2>2 DEF EnterBlocks, Enter
      <3> QED BY <2>2, <3>1 DEF CallInv
    <2>3. CASE DecodeStepCached(ids, fits, grown) /\ pass' # pass
      <3>1. pass'.kind = "cached" /\ pass'.ids = ids
        BY <2>3 DEF DecodeStepCached, Enter
      <3> QED BY <3>1 DEF CallInv
    <2> QED BY <1>4, <2>0, <2>1, <2>2, <2>3 DEF Call, Prefill, DecodeStep
  <1>5. CASE LastLayer
    BY <1>2, <1>5 DEF LastLayer, Running, Idle
  <1>6. ASSUME NEW p \in Paths, SetDecodePath(p) PROVE CallInv'
    BY <1>2, <1>6 DEF SetDecodePath, Running
  <1> QED BY <1>1, <1>3, <1>4, <1>5, <1>6
          DEF Next, EngineNext, KvReserve, Reserve, KvSetLength, vars

RefineInv == HoldInv /\ CallInv

\* Entering a pass either begins it, having grown the scratch, or refuses the call.
LEMMA EnterCases ==
  ASSUME SafeInv, NEW ids \in Inputs, NEW grown \in SUBSET Buffers, NEW next,
         NEW early, NEW late, Enter(ids, early, late, grown, next)
  PROVE  /\ path' = path /\ kv' = kv
         /\ \/ /\ last' = last
               /\ scratch'.tokens = RoomAfter(Len(ids), scratch.tokens, TRUE)
            \/ /\ early # "OK" /\ last' = [status |-> early, logits |-> <<>>]
               /\ scratch'.tokens = scratch.tokens
            \/ /\ early = "OK" /\ ScratchStatus(Len(ids), grown) # "OK"
               /\ last' = [status |-> "NOMEM", logits |-> <<>>]
               /\ scratch'.tokens = RoomAfter(Len(ids), scratch.tokens, grown = Buffers)
            \/ /\ early = "OK" /\ ScratchStatus(Len(ids), grown) = "OK"
               /\ late # "OK" /\ last' = [status |-> late, logits |-> <<>>]
               /\ scratch'.tokens = RoomAfter(Len(ids), scratch.tokens, grown = Buffers)
  <1>1. Len(ids) \in Nat /\ scratch.tokens \in Nat
    BY ApiAssumption, LenProperties DEF SafeInv, TypeOK
  <1>2. ScratchAfter(Len(ids), grown).tokens
          = RoomAfter(Len(ids), scratch.tokens, grown = Buffers)
    BY <1>1, ScratchStep DEF SafeInv
  <1>3. AtLeastOne(Len(ids)) \in Nat
    BY <1>1 DEF AtLeastOne
  <1>4. CASE early = "OK" /\ ScratchStatus(Len(ids), grown) = "OK" /\ late = "OK"
    <2>1. RoomAfter(Len(ids), scratch.tokens, grown = Buffers)
            = RoomAfter(Len(ids), scratch.tokens, TRUE)
      BY <1>1, <1>3, <1>4 DEF ScratchStatus, ReserveStatus, RoomAfter
    <2> QED BY <1>2, <1>4, <2>1 DEF Enter
  <1>5. CASE ~(early = "OK" /\ ScratchStatus(Len(ids), grown) = "OK" /\ late = "OK")
    BY <1>2, <1>5 DEF Enter, Answer
  <1> QED BY <1>4, <1>5

\* A call the engine refuses is one the contract refuses, with the same status.
LEMMA CallImplements ==
  ASSUME HoldInv, NEW ids \in Inputs, NEW fits \in BOOLEAN, NEW grown \in SUBSET Buffers,
         Call(ids, fits, grown)
  PROVE  Contract!ContractNext
  <1>1. HeldContext' = HeldContext /\ Len(HeldContext) = kv.length /\ SafeInv
    BY CallHeld DEF HoldInv, HeldInv
  <1>2. CASE /\ last' = last /\ kv' = kv /\ path' = path
             /\ scratch'.tokens = RoomAfter(Len(ids), scratch.tokens, TRUE)
    <2>1. Contract!Begin(Len(ids))
      BY <1>1, <1>2
         DEF Contract!Begin, Contract!RoomAfter, Contract!AtLeastOne, RoomAfter, AtLeastOne
    <2> QED BY <2>1 DEF Contract!ContractNext
  <1>3. CASE EnterBlocks("prefill", ids, fits, grown)
    <2> DEFINE early == BlocksEarlyStatus(fits)
               late  == BlocksStatus(ids, path = "cache", kv.capacity)
               next  == [kind |-> "prefill", ids |-> ids, layer |-> 0,
                         store |-> path = "cache", ctx |-> ids]
    <2>1. Enter(ids, early, late, grown, next)
      BY <1>3 DEF EnterBlocks
    <2>2. CASE /\ path' = path /\ kv' = kv
               /\ \/ /\ early # "OK" /\ last' = [status |-> early, logits |-> <<>>]
                     /\ scratch'.tokens = scratch.tokens
                  \/ /\ early = "OK" /\ ScratchStatus(Len(ids), grown) # "OK"
                     /\ last' = [status |-> "NOMEM", logits |-> <<>>]
                     /\ scratch'.tokens = RoomAfter(Len(ids), scratch.tokens, grown = Buffers)
                  \/ /\ early = "OK" /\ ScratchStatus(Len(ids), grown) = "OK"
                     /\ late # "OK" /\ last' = [status |-> late, logits |-> <<>>]
                     /\ scratch'.tokens = RoomAfter(Len(ids), scratch.tokens, grown = Buffers)
      <3>1. Contract!Prefill(ids, fits, grown = Buffers)
        BY <1>1, <2>2
           DEF Contract!Prefill, Contract!Reply, Contract!PassStatus, Contract!Grow,
               Contract!BlocksStatus, Contract!BlocksEarlyStatus, Contract!ReserveStatus,
               Contract!RoomAfter, Contract!AtLeastOne, ScratchStatus, BlocksStatus,
               BlocksEarlyStatus, ReserveStatus, RoomAfter, AtLeastOne
      <3> QED BY <3>1 DEF Contract!ContractNext
    <2> HIDE DEF early, late, next
    <2> QED BY <1>1, <1>2, <2>1, <2>2, EnterCases
  <1>4. CASE EnterBlocks("decode", ids, fits, grown) /\ path # "cache"
    <2> DEFINE early == BlocksEarlyStatus(fits)
               late  == BlocksStatus(ids, path = "cache", kv.capacity)
               next  == [kind |-> "decode", ids |-> ids, layer |-> 0,
                         store |-> path = "cache", ctx |-> ids]
    <2>1. Enter(ids, early, late, grown, next)
      BY <1>4 DEF EnterBlocks
    <2>2. CASE /\ path' = path /\ kv' = kv
               /\ \/ /\ early # "OK" /\ last' = [status |-> early, logits |-> <<>>]
                     /\ scratch'.tokens = scratch.tokens
                  \/ /\ early = "OK" /\ ScratchStatus(Len(ids), grown) # "OK"
                     /\ last' = [status |-> "NOMEM", logits |-> <<>>]
                     /\ scratch'.tokens = RoomAfter(Len(ids), scratch.tokens, grown = Buffers)
                  \/ /\ early = "OK" /\ ScratchStatus(Len(ids), grown) = "OK"
                     /\ late # "OK" /\ last' = [status |-> late, logits |-> <<>>]
                     /\ scratch'.tokens = RoomAfter(Len(ids), scratch.tokens, grown = Buffers)
      <3>1. Contract!DecodeStep(ids, fits, grown = Buffers)
        BY <1>1, <1>4, <2>2
           DEF Contract!DecodeStep, Contract!DecodeStepUncached, Contract!Reply,
               Contract!PassStatus, Contract!Grow, Contract!BlocksStatus,
               Contract!BlocksEarlyStatus, Contract!ReserveStatus, Contract!RoomAfter,
               Contract!AtLeastOne, ScratchStatus, BlocksStatus, BlocksEarlyStatus,
               ReserveStatus, RoomAfter, AtLeastOne
      <3> QED BY <3>1 DEF Contract!ContractNext
    <2> HIDE DEF early, late, next
    <2> QED BY <1>1, <1>2, <2>1, <2>2, EnterCases
  <1>5. CASE DecodeStepCached(ids, fits, grown)
    <2> DEFINE early == CachedEarlyStatus(ids, fits, kv.capacity, kv.length)
               late  == IF early = "OK" THEN CachedStatus(ids) ELSE early
               next  == [kind |-> "cached", ids |-> ids, layer |-> 0, store |-> TRUE,
                         ctx |-> IF early = "OK" THEN OwnContext(ids) ELSE Mixed]
    <2>1. Enter(ids, early, late, grown, next)
      BY <1>5 DEF DecodeStepCached
    <2>2. CASE /\ path' = path /\ kv' = kv
               /\ \/ /\ early # "OK" /\ last' = [status |-> early, logits |-> <<>>]
                     /\ scratch'.tokens = scratch.tokens
                  \/ /\ early = "OK" /\ ScratchStatus(Len(ids), grown) # "OK"
                     /\ last' = [status |-> "NOMEM", logits |-> <<>>]
                     /\ scratch'.tokens = RoomAfter(Len(ids), scratch.tokens, grown = Buffers)
                  \/ /\ early = "OK" /\ ScratchStatus(Len(ids), grown) = "OK"
                     /\ late # "OK" /\ last' = [status |-> late, logits |-> <<>>]
                     /\ scratch'.tokens = RoomAfter(Len(ids), scratch.tokens, grown = Buffers)
      <3>1. Contract!DecodeStepCached(ids, fits, grown = Buffers)
        BY <1>1, <2>2
           DEF Contract!DecodeStepCached, Contract!Reply, Contract!PassStatus, Contract!Grow,
               Contract!CachedEarlyStatus, Contract!CachedStatus, Contract!LastOf,
               Contract!ReserveStatus, Contract!RoomAfter, Contract!AtLeastOne, ScratchStatus,
               CachedEarlyStatus, CachedStatus, LastOf, ReserveStatus, RoomAfter, AtLeastOne
      <3> QED BY <3>1 DEF Contract!ContractNext
    <2> HIDE DEF early, late, next
    <2> QED BY <1>1, <1>2, <2>1, <2>2, EnterCases
  <1> QED BY <1>3, <1>4, <1>5 DEF Call, Prefill, DecodeStep

\* The last layer is where a call that succeeds takes effect.
LEMMA LastLayerImplements ==
  ASSUME RefineInv, LastLayer
  PROVE  Contract!ContractNext
  <1>1. HoldInv /\ SafeInv /\ CallInv /\ Running
    BY DEF RefineInv, HoldInv, LastLayer
  <1>2. /\ last' = [status |-> "OK", logits |-> LogitsOf(pass.ctx)]
        /\ path' = path /\ scratch' = scratch /\ pass.ids \in Inputs
    BY <1>1, NotRefused, AttendsOwn DEF LastLayer, Answer, CallInv
  <1>3. kv'.capacity = kv.capacity
    BY <1>1, StoredType, NotRefused DEF LastLayer, SetLength, CacheOK
  <1>4. HeldContext' = IF pass.store THEN pass.ctx ELSE HeldContext
    BY <1>1, LastLayerHeld
  <1>5. /\ Len(pass.ids) \in Nat /\ Len(pass.ids) # 0 /\ Len(pass.ids) <= NCtx
        /\ kv.capacity \in Nat /\ NCtx \in Nat
        /\ pass.store => Len(pass.ids) <= kv.capacity
    BY <1>1, PassFacts, ApiAssumption
  <1>9. /\ ReserveStatus(Len(pass.ids), scratch.tokens, TRUE) = "OK"
        /\ RoomAfter(Len(pass.ids), scratch.tokens, TRUE) = scratch.tokens
    <2>1. Len(pass.ids) <= scratch.tokens /\ scratch.tokens \in Nat
      BY <1>1 DEF SafeInv, PassInv, TypeOK
    <2> QED BY <1>5, <2>1 DEF ReserveStatus, RoomAfter, AtLeastOne
  <1>6. CASE pass.kind = "prefill"
    <2>1. /\ pass.store <=> path = "cache"
          /\ pass.ctx = pass.ids /\ pass.ids \in Contexts
      BY <1>1, <1>6 DEF CallInv, SafeInv, PassInv
    <2>2. BlocksStatus(pass.ids, path = "cache", kv.capacity) = "OK"
      BY <1>5, <2>1 DEF BlocksStatus, Contexts
    <2>3. Contract!Prefill(pass.ids, TRUE, TRUE)
      BY <1>2, <1>3, <1>4, <1>6, <1>9, <2>1, <2>2
         DEF Contract!Prefill, Contract!Reply, Contract!PassStatus, Contract!Grow,
             Contract!ReserveStatus, Contract!RoomAfter, Contract!AtLeastOne,
             ReserveStatus, RoomAfter, AtLeastOne, Contract!BlocksStatus,
             Contract!BlocksEarlyStatus, BlocksStatus, LogitsOf, Contract!Take, Take
    <2> QED BY <1>2, <2>3 DEF Contract!ContractNext
  <1>7. CASE pass.kind = "decode"
    <2>1. ~pass.store /\ path # "cache" /\ pass.ctx = pass.ids /\ pass.ids \in Contexts
      BY <1>1, <1>7 DEF CallInv, SafeInv, PassInv
    <2>2. BlocksStatus(pass.ids, FALSE, kv.capacity) = "OK"
      BY <1>5, <2>1 DEF BlocksStatus, Contexts
    <2>3. Contract!DecodeStep(pass.ids, TRUE, TRUE)
      BY <1>2, <1>3, <1>4, <1>7, <1>9, <2>1, <2>2
         DEF Contract!DecodeStep, Contract!DecodeStepUncached, Contract!Reply,
             Contract!PassStatus, Contract!Grow,
             Contract!ReserveStatus, Contract!RoomAfter, Contract!AtLeastOne,
             ReserveStatus, RoomAfter, AtLeastOne, Contract!BlocksStatus, Contract!BlocksEarlyStatus,
             BlocksStatus, LogitsOf
    <2> QED BY <1>2, <2>3 DEF Contract!ContractNext
  <1>8. CASE pass.kind = "cached"
    <2>1. /\ pass.store /\ pass.ctx = Append(HeldContext, LastOf(pass.ids))
          /\ Len(HeldContext) = Len(pass.ids) - 1 /\ LastOf(pass.ids) \in Tokens
      BY <1>1, <1>8 DEF HoldInv, HeldInv, SafeInv, PassInv
    <2>2. /\ CachedEarlyStatus(pass.ids, TRUE, kv.capacity, Len(HeldContext)) = "OK"
          /\ CachedStatus(pass.ids) = "OK"
      BY <1>5, <2>1 DEF CachedEarlyStatus, CachedStatus
    <2>3. Contract!DecodeStepCached(pass.ids, TRUE, TRUE)
      BY <1>2, <1>3, <1>4, <1>8, <1>9, <2>1, <2>2
         DEF Contract!DecodeStepCached, Contract!Reply, Contract!PassStatus, Contract!Grow,
             Contract!ReserveStatus, Contract!RoomAfter, Contract!AtLeastOne,
             ReserveStatus, RoomAfter, AtLeastOne,
             Contract!CachedEarlyStatus, Contract!CachedStatus, CachedEarlyStatus,
             CachedStatus, Contract!LastOf, LastOf, LogitsOf
    <2> QED BY <1>2, <2>3 DEF Contract!ContractNext
  <1> QED BY <1>1, <1>6, <1>7, <1>8 DEF SafeInv, TypeOK, Running

LEMMA KvReserveImplements ==
  ASSUME HoldInv, NEW n \in CacheRequests, NEW mem \in BOOLEAN, KvReserve(n, mem)
  PROVE  Contract!KvReserve(n, mem)
  <1> DEFINE replaced == /\ KvReserveStatus(n, kv.capacity, mem) = "OK"
                         /\ KvReserveReplaces(n, kv.capacity)
  <1>1. HeldContext' = IF replaced THEN <<>> ELSE HeldContext
    BY KvReserveHeld
  <1>2. /\ last' = [status |-> KvReserveStatus(n, kv.capacity, mem), logits |-> <<>>]
        /\ kv'.capacity = IF replaced THEN AsInt(n) ELSE kv.capacity
        /\ path' = path /\ scratch' = scratch
    BY DEF KvReserve, Answer, Create
  <1> QED BY <1>1, <1>2
          DEF Contract!KvReserve, Contract!Reply, Contract!KvReserveStatus,
              Contract!KvReserveReplaces, Contract!AsInt, KvReserveStatus,
              KvReserveReplaces, AsInt

LEMMA KvSetLengthImplements ==
  ASSUME HoldInv, NEW n \in LengthRequests, n <= kv.length \/ n > kv.capacity, KvSetLength(n)
  PROVE  Contract!KvSetLength(n)
  <1> DEFINE status == KvSetLengthStatus(n, kv.capacity)
             raised == [i \in 1 .. n |-> IF i <= Len(HeldContext) THEN HeldContext[i]
                                         ELSE Unknown]
  <1>1. /\ last' = [status |-> status, logits |-> <<>>] /\ path' = path
        /\ kv'.capacity = kv.capacity /\ scratch' = scratch
    BY DEF KvSetLength, Answer, SetLength, HoldInv, SafeInv, TypeOK, CacheOK
  <1>2. HeldContext' = IF status = "OK" THEN Take(HeldContext, n) ELSE HeldContext
    BY KvSetLengthHeld
  <1>3. ASSUME status = "OK" PROVE Take(HeldContext, n) = raised
    <2>1. n \in Int /\ kv.capacity \in Nat /\ kv.length \in Nat /\ kv.length <= kv.capacity
      BY ApiAssumption, KvType DEF HoldInv, SafeInv
    <2>2. /\ HeldContext \in Seq(Tokens) /\ Len(HeldContext) = kv.length
      BY DEF HoldInv, HeldInv
    <2>3. n \in 0 .. Len(HeldContext) /\ n \in Nat
      BY <1>3, <2>1, <2>2 DEF KvSetLengthStatus
    <2>4. /\ Take(HeldContext, n) \in Seq(Tokens) /\ Len(Take(HeldContext, n)) = n
          /\ \A i \in 1 .. n : Take(HeldContext, n)[i] = HeldContext[i]
      BY <2>2, <2>3, TakeProperties
    <2>5. \A i \in 1 .. n : i <= Len(HeldContext) /\ HeldContext[i] \in Tokens
      BY <2>2, <2>3, ElementOfSeq
    <2>6. raised \in Seq(Tokens) /\ Len(raised) = n
      BY <2>3, <2>5, IsASeq
    <2>7. \A i \in 1 .. n : raised[i] = HeldContext[i]
      BY <2>5
    <2> HIDE DEF raised
    <2> QED BY <2>4, <2>6, <2>7, SeqEqual
  <1> HIDE DEF raised
  <1> QED BY <1>1, <1>2, <1>3
          DEF Contract!KvSetLength, Contract!Reply, Contract!KvSetLengthStatus,
              KvSetLengthStatus, raised

\* Every step of the engine is a step of the contract or invisible to it.
LEMMA NextImplements ==
  RefineInv /\ [RestoringNext]_vars => [Contract!ContractNext]_(Contract!contractVars)
  <1> SUFFICES ASSUME RefineInv, [RestoringNext]_vars
               PROVE  Contract!ContractNext \/ UNCHANGED Contract!contractVars
    OBVIOUS
  <1>0. HoldInv /\ Len(HeldContext) = kv.length
    BY DEF RefineInv, HoldInv, HeldInv
  <1>1. ASSUME NEW p \in Paths, SetDecodePath(p) PROVE Contract!ContractNext
    BY <1>1 DEF SetDecodePath, Contract!ContractNext, Contract!SetDecodePath, HeldContext,
                Contract!Paths, Paths
  <1>2. ASSUME NEW n \in CacheRequests, NEW mem \in BOOLEAN, KvReserve(n, mem)
        PROVE  Contract!ContractNext
    BY <1>0, <1>2, KvReserveImplements DEF Contract!ContractNext
  <1>3. ASSUME NEW n \in LengthRequests, n <= kv.length \/ n > kv.capacity, KvSetLength(n)
        PROVE  Contract!ContractNext
    BY <1>0, <1>3, KvSetLengthImplements DEF Contract!ContractNext
  <1>4. ASSUME NEW T \in TokenRequests, NEW grown \in SUBSET Buffers, Reserve(T, grown)
        PROVE  Contract!ContractNext
    <2> DEFINE mem == grown = Buffers
    <2>1. /\ scratch'.tokens = RoomAfter(T, scratch.tokens, mem)
          /\ UNCHANGED <<path, kv>>
          /\ last' = [status |-> ReserveStatus(T, scratch.tokens, mem), logits |-> <<>>]
      BY <1>0, <1>4, ApiAssumption, ScratchStep DEF Reserve, Answer, ScratchStatus, HoldInv, SafeInv
    <2>2. Contract!Reserve(T, mem) /\ mem \in BOOLEAN
      BY <2>1 DEF Contract!Reserve, Contract!Reply, Contract!Grow, Contract!ReserveStatus,
                  Contract!RoomAfter, Contract!AtLeastOne, ReserveStatus, RoomAfter,
                  AtLeastOne, HeldContext
    <2> QED BY <2>2 DEF Contract!ContractNext
  <1>5. ASSUME NEW ids \in Inputs, NEW fits \in BOOLEAN, NEW grown \in SUBSET Buffers,
               Call(ids, fits, grown)
        PROVE  Contract!ContractNext \/ UNCHANGED Contract!contractVars
    BY <1>0, <1>5, CallImplements
  <1>6. CASE LayerStep
    <2>1. /\ HeldContext' = HeldContext /\ kv' = Stored /\ path' = path /\ last' = last
          /\ Stored.capacity = kv.capacity /\ scratch' = scratch
      BY <1>0, <1>6, LayerStepHeld, NotRefused, StoredType DEF LayerStep, HoldInv
    <2> QED BY <2>1 DEF Contract!contractVars
  <1>7. CASE LastLayer
    BY <1>7, LastLayerImplements
  <1>8. CASE UNCHANGED vars
    BY <1>8 DEF vars, Contract!contractVars, HeldContext
  <1> QED BY <1>1, <1>2, <1>3, <1>4, <1>5, <1>6, <1>7, <1>8 DEF RestoringNext, EngineNext

LEMMA InitImplements == Init => Contract!ContractInit
  BY DEF Init, NullCache, HeldContext, Contract!ContractInit

(* The engine, with its layers, its one length counter and its scratch,    *)
(* implements the contract of model.h, in which the cache IS one token     *)
(* sequence: for every caller that only restores lengths.                  *)
THEOREM Implements == RestoringSpec => ContractHolds
  <1>1. Init => RefineInv
    BY InitSafe, InitHeld DEF RefineInv, HoldInv, CallInv, Init, Running, Idle
  <1>2. RefineInv /\ [RestoringNext]_vars => RefineInv'
    BY NextHeld, NextCall, NextSafe, RestoringIsNext DEF RefineInv, HoldInv
  <1> QED BY <1>1, <1>2, InitImplements, NextImplements, PTL
          DEF RestoringSpec, ContractHolds, Contract!ContractSpec
=============================================================================
