---------------------------- MODULE GenerateProofs ----------------------------
(***************************************************************************)
(* Proofs about the program of src/main.c over the engine's contract, for  *)
(* every vocabulary, context length, prompt, argmax and number of tokens   *)
(* asked for.                                                              *)
(***************************************************************************)
EXTENDS Generate, SequenceLemmas

-----------------------------------------------------------------------------
(* What the calls of the contract answer.                                  *)

ContractTypes ==
  /\ path \in Paths /\ capacity \in 0 .. NCtx
  /\ held \in Seq(Tokens) /\ Len(held) <= capacity
  /\ room \in Nat
  /\ last \in [status : Statuses, logits : Seq(Contexts)]

\* A request of at most one position more than the context is not converted.
LEMMA AsIntSmall ==
  ASSUME NEW n \in Nat, n <= NCtx + 1
  PROVE  AsInt(n) = n
  <1>1. n % IntModulus = n
    BY ApiAssumption
  <1> QED BY <1>1, ApiAssumption DEF AsInt

\* Every prefix of an accepted array is a context.
LEMMA PrefixContext ==
  ASSUME NEW s \in Contexts, NEW n \in 1 .. Len(s)
  PROVE  Take(s, n) \in Contexts
  <1>1. s \in Seq(Tokens) /\ Len(s) \in 1 .. NCtx /\ n \in 0 .. Len(s)
    BY DEF Contexts
  <1>2. Take(s, n) \in Seq(Tokens) /\ Len(Take(s, n)) = n
    BY <1>1, PrefixProperties DEF Take
  <1> QED BY <1>1, <1>2, ApiAssumption DEF Contexts

\* The argmax of a row of logits is a token.
LEMMA ArgmaxToken ==
  ASSUME NEW c \in Contexts
  PROVE  Argmax[c] \in Tokens
  <1>1. c \in [1 .. Len(c) -> Tokens] /\ Len(c) \in 1 .. NCtx
    BY LenProperties DEF Contexts
  <1> QED BY <1>1, GenerateAssumption

\* model_reserve: what it answers and how far it leaves the scratch.
LEMMA GrowResult ==
  ASSUME ContractTypes, NEW T \in Nat, NEW mem \in BOOLEAN
  PROVE  /\ RoomAfter(T, room, mem) \in Nat /\ RoomAfter(T, room, mem) >= room
         /\ ReserveStatus(T, room, mem) \in {"OK", "NOMEM"}
         /\ ReserveStatus(T, room, mem) = "NOMEM" =>
              RoomAfter(T, room, mem) < AtLeastOne(T) /\ AtLeastOne(T) \in Nat
  BY DEF ContractTypes, RoomAfter, ReserveStatus, AtLeastOne

\* model_prefill.
LEMMA PrefillResult ==
  ASSUME ContractTypes, NEW s \in Seq(Tokens \cup {BadToken}), NEW mem \in BOOLEAN,
         Prefill(s, TRUE, mem)
  PROVE  /\ ContractTypes' /\ path' = path /\ capacity' = capacity
         /\ last'.status = "OK" =>
              /\ s \in Contexts
              /\ path = "cache" => Len(s) <= capacity
              /\ last'.logits = [t \in 1 .. Len(s) |-> Take(s, t)]
              /\ held' = IF path = "cache" THEN s ELSE held
         /\ last'.status # "OK" => held' = held
         /\ last'.status = "NOMEM" => room' < AtLeastOne(Len(s))
         /\ s \in Contexts /\ (path = "cache" => capacity # 0 /\ Len(s) <= capacity)
              => last'.status \in {"OK", "NOMEM"}
  <1> DEFINE store  == path = "cache"
             late   == BlocksStatus(s, store, capacity)
             status == PassStatus("OK", Len(s), mem, late)
             rows   == [t \in 1 .. Len(s) |-> Take(s, t)]
  <1>0. Len(s) \in Nat /\ \A t \in 1 .. Len(s) : s[t] \in Tokens \cup {BadToken}
    BY LenProperties, ElementOfSeq
  <1>1. /\ last' = [status |-> status, logits |-> IF status = "OK" THEN rows ELSE <<>>]
        /\ held' = IF status = "OK" /\ store THEN s ELSE held
        /\ room' = RoomAfter(Len(s), room, mem)
        /\ path' = path /\ capacity' = capacity
    BY DEF Prefill, Reply, Grow, BlocksEarlyStatus
  <1>2. /\ room' \in Nat
        /\ ReserveStatus(Len(s), room, mem) \in {"OK", "NOMEM"}
        /\ ReserveStatus(Len(s), room, mem) = "NOMEM" => room' < AtLeastOne(Len(s))
    BY <1>0, <1>1, GrowResult
  <1>3. late \in {"OK", "ARG", "RANGE", "CAPACITY"}
    BY DEF BlocksStatus
  <1>4. status = IF ReserveStatus(Len(s), room, mem) # "OK" THEN "NOMEM" ELSE late
    BY DEF PassStatus
  <1>5. late = "OK" => s \in Contexts /\ (store => Len(s) <= capacity)
    <2> SUFFICES ASSUME late = "OK" PROVE s \in Contexts /\ (store => Len(s) <= capacity)
      OBVIOUS
    <2>1. Len(s) \in 1 .. NCtx /\ \A t \in 1 .. Len(s) : s[t] \in Tokens
      BY <1>0, ApiAssumption DEF BlocksStatus
    <2>2. s \in Seq(Tokens)
      BY <2>1, SeqOfElements
    <2>3. store => Len(s) <= capacity
      BY <1>0 DEF BlocksStatus, ContractTypes
    <2> QED BY <2>1, <2>2, <2>3 DEF Contexts
  <1>6. s \in Contexts /\ (store => capacity # 0 /\ Len(s) <= capacity) => late = "OK"
    BY ApiAssumption DEF BlocksStatus, Contexts, ContractTypes
  <1> HIDE DEF late, status
  <1>7. s \in Contexts => rows \in Seq(Contexts)
    <2> SUFFICES ASSUME s \in Contexts PROVE rows \in Seq(Contexts)
      OBVIOUS
    <2>1. rows \in [1 .. Len(s) -> Contexts]
      BY PrefixContext
    <2> HIDE DEF rows
    <2> QED BY <1>0, <2>1, FunctionIsSeq, Zenon
  <1>8. <<>> \in Seq(Contexts)
    BY EmptySeq
  <1>9. last' \in [status : Statuses, logits : Seq(Contexts)]
    BY <1>1, <1>3, <1>4, <1>5, <1>7, <1>8 DEF Statuses
  <1>10. held' \in Seq(Tokens) /\ Len(held') <= capacity'
    BY <1>1, <1>3, <1>4, <1>5 DEF ContractTypes, Contexts
  <1>11. ContractTypes'
    BY <1>1, <1>2, <1>9, <1>10 DEF ContractTypes
  <1> QED BY <1>1, <1>2, <1>3, <1>4, <1>5, <1>6, <1>11

\* model_decode_step_cached: it extends what the cache holds by the last token.
LEMMA DecodeCachedResult ==
  ASSUME ContractTypes, NEW s \in Seq(Tokens), NEW mem \in BOOLEAN,
         DecodeStepCached(s, TRUE, mem)
  PROVE  /\ ContractTypes' /\ path' = path /\ capacity' = capacity
         /\ last'.status = "OK" =>
              /\ Len(s) \in 1 .. NCtx /\ Len(s) <= capacity /\ Len(held) = Len(s) - 1
              /\ last'.logits = << Append(held, LastOf(s)) >>
              /\ held' = Append(held, LastOf(s))
         /\ last'.status # "OK" => held' = held
         /\ last'.status = "NOMEM" => room' < AtLeastOne(Len(s))
         /\ /\ Len(s) \in 1 .. NCtx /\ capacity # 0 /\ Len(s) <= capacity
            /\ Len(held) = Len(s) - 1
            => last'.status \in {"OK", "NOMEM"}
  <1> DEFINE early  == CachedEarlyStatus(s, TRUE, capacity, Len(held))
             late   == IF early = "OK" THEN CachedStatus(s) ELSE early
             status == PassStatus(early, Len(s), mem, late)
             longer == Append(held, LastOf(s))
  <1>0. Len(s) \in Nat /\ \A t \in 1 .. Len(s) : s[t] \in Tokens
    BY LenProperties, ElementOfSeq
  <1>1. /\ last' = [status |-> status, logits |-> IF status = "OK" THEN <<longer>> ELSE <<>>]
        /\ held' = IF status = "OK" THEN longer ELSE held
        /\ room' = IF early = "OK" THEN RoomAfter(Len(s), room, mem) ELSE room
        /\ path' = path /\ capacity' = capacity
    BY DEF DecodeStepCached, Reply, Grow
  <1>2. /\ room' \in Nat
        /\ ReserveStatus(Len(s), room, mem) \in {"OK", "NOMEM"}
        /\ early = "OK" /\ ReserveStatus(Len(s), room, mem) = "NOMEM" => room' < AtLeastOne(Len(s))
    BY <1>0, <1>1, GrowResult DEF ContractTypes
  <1>3. early \in {"OK", "ARG", "RANGE", "CAPACITY"}
    BY DEF CachedEarlyStatus
  <1>4. early = "OK" <=> /\ Len(s) \in 1 .. NCtx /\ capacity # 0 /\ Len(s) <= capacity
                         /\ Len(held) = Len(s) - 1
    BY <1>0, ApiAssumption DEF CachedEarlyStatus, ContractTypes
  <1> HIDE DEF early
  <1>5. early = "OK" => CachedStatus(s) = "OK"
    <2>1. early = "OK" => LastOf(s) \in Tokens
      BY <1>0, <1>4 DEF LastOf
    <2> QED BY <2>1 DEF CachedStatus
  <1>6. status = IF early # "OK" THEN early
                 ELSE IF ReserveStatus(Len(s), room, mem) # "OK" THEN "NOMEM" ELSE "OK"
    BY <1>5 DEF PassStatus
  <1> HIDE DEF status
  <1>7. status = "OK" => /\ longer \in Seq(Tokens) /\ Len(longer) = Len(s)
                         /\ longer \in Contexts
    <2> SUFFICES ASSUME status = "OK"
                 PROVE  longer \in Seq(Tokens) /\ Len(longer) = Len(s) /\ longer \in Contexts
      OBVIOUS
    <2>1. Len(s) \in 1 .. NCtx /\ Len(held) = Len(s) - 1 /\ LastOf(s) \in Tokens
      BY <1>0, <1>3, <1>4, <1>6 DEF LastOf
    <2>2. held \in Seq(Tokens)
      BY DEF ContractTypes
    <2>3. longer \in Seq(Tokens) /\ Len(longer) = Len(held) + 1
      BY <2>1, <2>2, PrefixOfAppend
    <2> QED BY <1>0, <2>1, <2>3 DEF Contexts
  <1> HIDE DEF longer
  <1>8. <<>> \in Seq(Contexts) /\ (status = "OK" => <<longer>> \in Seq(Contexts))
    BY <1>7, EmptySeq
  <1>9. last' \in [status : Statuses, logits : Seq(Contexts)]
    BY <1>1, <1>3, <1>6, <1>8 DEF Statuses
  <1>10. held' \in Seq(Tokens) /\ Len(held') <= capacity'
    BY <1>1, <1>3, <1>4, <1>6, <1>7 DEF ContractTypes
  <1>11. ContractTypes'
    BY <1>1, <1>2, <1>9, <1>10 DEF ContractTypes
  <1> QED BY <1>1, <1>2, <1>3, <1>4, <1>6, <1>11 DEF longer

\* model_decode_step: on the cache path the step above, else a pass over all
\* of the tokens that stores nothing.
LEMMA DecodeResult ==
  ASSUME ContractTypes, NEW s \in Seq(Tokens), NEW mem \in BOOLEAN,
         DecodeStep(s, TRUE, mem)
  PROVE  /\ ContractTypes' /\ path' = path /\ capacity' = capacity
         /\ last'.status = "OK" =>
              /\ Len(s) \in 1 .. NCtx
              /\ last'.logits = << IF path = "cache" THEN Append(held, LastOf(s)) ELSE s >>
              /\ IF path = "cache"
                 THEN /\ Len(s) <= capacity /\ Len(held) = Len(s) - 1
                      /\ held' = Append(held, LastOf(s))
                 ELSE held' = held
         /\ path # "cache" => held' = held
         /\ last'.status = "NOMEM" => room' < AtLeastOne(Len(s))
         /\ /\ Len(s) \in 1 .. NCtx
            /\ path = "cache" => capacity # 0 /\ Len(s) <= capacity /\ Len(held) = Len(s) - 1
            => last'.status \in {"OK", "NOMEM"}
  <1>1. CASE path = "cache"
    <2>1. DecodeStepCached(s, TRUE, mem)
      BY <1>1 DEF DecodeStep
    <2> QED BY <1>1, <2>1, DecodeCachedResult
  <1>2. CASE path # "cache"
    <2> DEFINE late   == BlocksStatus(s, FALSE, capacity)
               status == PassStatus("OK", Len(s), mem, late)
    <2>0. Len(s) \in Nat /\ \A t \in 1 .. Len(s) : s[t] \in Tokens
      BY LenProperties, ElementOfSeq
    <2>1. /\ last' = [status |-> status, logits |-> IF status = "OK" THEN <<s>> ELSE <<>>]
          /\ held' = held /\ room' = RoomAfter(Len(s), room, mem)
          /\ path' = path /\ capacity' = capacity
      BY <1>2 DEF DecodeStep, DecodeStepUncached, Reply, Grow, BlocksEarlyStatus
    <2>2. /\ room' \in Nat
          /\ ReserveStatus(Len(s), room, mem) \in {"OK", "NOMEM"}
          /\ ReserveStatus(Len(s), room, mem) = "NOMEM" => room' < AtLeastOne(Len(s))
      BY <2>0, <2>1, GrowResult
    <2>3. late \in {"OK", "ARG", "RANGE"} /\ (late = "OK" <=> Len(s) \in 1 .. NCtx)
      BY <2>0, ApiAssumption DEF BlocksStatus
    <2>4. status = IF ReserveStatus(Len(s), room, mem) # "OK" THEN "NOMEM" ELSE late
      BY DEF PassStatus
    <2> HIDE DEF late, status
    <2>5. <<>> \in Seq(Contexts) /\ (Len(s) \in 1 .. NCtx => <<s>> \in Seq(Contexts))
      BY EmptySeq DEF Contexts
    <2>6. last' \in [status : Statuses, logits : Seq(Contexts)]
      BY <2>1, <2>3, <2>4, <2>5 DEF Statuses
    <2>7. ContractTypes'
      BY <2>1, <2>2, <2>6 DEF ContractTypes
    <2> QED BY <1>2, <2>1, <2>2, <2>3, <2>4, <2>7
  <1> QED BY <1>1, <1>2

\* model_kv_reserve on an engine without a cache.
LEMMA KvReserveResult ==
  ASSUME ContractTypes, capacity = 0, held = <<>>, NEW n \in Nat, NEW mem \in BOOLEAN,
         KvReserve(n, mem)
  PROVE  /\ ContractTypes' /\ path' = path /\ room' = room /\ held' = <<>>
         /\ last'.status = "OK" => capacity' = AsInt(n) /\ capacity' # 0
         /\ last'.status = "NOMEM" => capacity' = 0
         /\ n \in 1 .. NCtx => last'.status \in {"OK", "NOMEM"}
         /\ n = NCtx + 1 => last'.status = "RANGE"
  <1> DEFINE status == KvReserveStatus(n, capacity, mem)
  <1>1. AsInt(n) \in Int
    <2>1. n % IntModulus \in Int /\ IntModulus \in Int
      BY ApiAssumption
    <2> QED BY <2>1 DEF AsInt
  <1>2. /\ status \in {"OK", "ARG", "RANGE", "NOMEM"}
        /\ status = "OK" => AsInt(n) \in 1 .. NCtx
        /\ n \in 1 .. NCtx => status \in {"OK", "NOMEM"}
        /\ n = NCtx + 1 => status = "RANGE"
    BY <1>1, AsIntSmall, ApiAssumption DEF KvReserveStatus
  <1>3. /\ last' = [status |-> status, logits |-> <<>>]
        /\ capacity' = IF status = "OK" THEN AsInt(n) ELSE 0
        /\ held' = <<>> /\ path' = path /\ room' = room
    BY DEF KvReserve, KvReserveReplaces, Reply
  <1> HIDE DEF status
  <1>4. <<>> \in Seq(Contexts) /\ <<>> \in Seq(Tokens) /\ Len(<<>>) = 0
    BY EmptySeq
  <1>5. ContractTypes'
    BY <1>2, <1>3, <1>4, ApiAssumption DEF ContractTypes, Statuses
  <1> QED BY <1>2, <1>3, <1>5

-----------------------------------------------------------------------------
(* The greedy continuation.                                                *)

\* The texts of 0 to n greedy tokens after base, by the equation of Greedy.
IsContinuation(g, base, n) ==
  g = [i \in 0 .. n |-> IF i = 0 THEN base ELSE Append(g[i - 1], Argmax[g[i - 1]])]

\* The equation has a solution for every number of tokens ...
LEMMA ContinuationExists ==
  ASSUME NEW base, NEW n \in Nat
  PROVE  \E g : IsContinuation(g, base, n)
  <1> DEFINE S == { m \in Nat : \E g : IsContinuation(g, base, m) }
  <1>1. 0 \in S
    <2> DEFINE g == [i \in 0 .. 0 |-> base]
    <2>1. \A i \in 0 .. 0 : i = 0
      OBVIOUS
    <2>2. g = [i \in 0 .. 0 |-> IF i = 0 THEN base ELSE Append(g[i - 1], Argmax[g[i - 1]])]
      BY <2>1
    <2>3. IsContinuation(g, base, 0)
      BY <2>2 DEF IsContinuation
    <2> QED BY <2>3
  <1>2. ASSUME NEW m \in Nat, m \in S PROVE m + 1 \in S
    <2>1. PICK g : IsContinuation(g, base, m)
      BY <1>2
    <2> DEFINE h == [i \in 0 .. m + 1 |-> IF i = m + 1 THEN Append(g[m], Argmax[g[m]]) ELSE g[i]]
    <2>2. \A i \in 0 .. m : h[i] = g[i]
      OBVIOUS
    <2>3. h = [i \in 0 .. m + 1 |-> IF i = 0 THEN base ELSE Append(h[i - 1], Argmax[h[i - 1]])]
      <3> SUFFICES ASSUME NEW i \in 0 .. m + 1
                   PROVE  h[i] = IF i = 0 THEN base ELSE Append(h[i - 1], Argmax[h[i - 1]])
        OBVIOUS
      <3>1. CASE i = m + 1
        <4>1. h[i] = Append(g[m], Argmax[g[m]]) /\ i - 1 = m /\ i # 0 /\ h[m] = g[m]
          BY <3>1
        <4> QED BY <4>1
      <3>2. CASE i # m + 1 /\ i = 0
        BY <2>1, <2>2, <3>2 DEF IsContinuation
      <3>3. CASE i # m + 1 /\ i # 0
        <4>1. i \in 0 .. m /\ i - 1 \in 0 .. m
          BY <3>3
        <4>2. h[i] = g[i] /\ h[i - 1] = g[i - 1]
          BY <2>2, <4>1
        <4>3. g[i] = Append(g[i - 1], Argmax[g[i - 1]])
          BY <2>1, <3>3, <4>1 DEF IsContinuation
        <4> HIDE DEF h
        <4> QED BY <3>3, <4>2, <4>3
      <3> QED BY <3>1, <3>2, <3>3
    <2> HIDE DEF h
    <2>4. IsContinuation(h, base, m + 1)
      BY <2>3 DEF IsContinuation
    <2> QED BY <2>4
  <1> HIDE DEF S
  <1>3. n \in S
    BY <1>1, <1>2, Induction
  <1> QED BY <1>3 DEF S

\* ... and two solutions agree where both are defined.
LEMMA ContinuationUnique ==
  ASSUME NEW base, NEW m \in Nat, NEW n \in Nat, NEW g, NEW h,
         IsContinuation(g, base, m), IsContinuation(h, base, n)
  PROVE  \A i \in Nat : i <= m /\ i <= n => g[i] = h[i]
  <1> DEFINE S == { i \in Nat : i <= m /\ i <= n => g[i] = h[i] }
  <1>1. 0 \in S
    BY DEF IsContinuation
  <1>2. ASSUME NEW i \in Nat, i \in S PROVE i + 1 \in S
    <2> SUFFICES ASSUME i + 1 <= m, i + 1 <= n PROVE g[i + 1] = h[i + 1]
      OBVIOUS
    <2>1. g[i] = h[i] /\ (i + 1) - 1 = i /\ i + 1 \in 0 .. m /\ i + 1 \in 0 .. n /\ i + 1 # 0
      BY <1>2
    <2>2. g[i + 1] = Append(g[i], Argmax[g[i]])
      BY <2>1 DEF IsContinuation
    <2>3. h[i + 1] = Append(h[i], Argmax[h[i]])
      BY <2>1 DEF IsContinuation
    <2> QED BY <2>1, <2>2, <2>3
  <1> HIDE DEF S
  <1>3. Nat \subseteq S
    BY <1>1, <1>2, Induction
  <1> QED BY <1>3 DEF S

LEMMA GreedyDef ==
  ASSUME NEW n \in Nat
  PROVE  \E g : IsContinuation(g, Kept, n) /\ Greedy(n) = g[n]
  <1> DEFINE extended == CHOOSE g : g = [i \in 0 .. n |-> IF i = 0 THEN Kept
                                                         ELSE Append(g[i - 1], Argmax[g[i - 1]])]
  <1>1. \E g : g = [i \in 0 .. n |-> IF i = 0 THEN Kept ELSE Append(g[i - 1], Argmax[g[i - 1]])]
    BY ContinuationExists DEF IsContinuation
  <1>2. extended = [i \in 0 .. n |-> IF i = 0 THEN Kept
                                     ELSE Append(extended[i - 1], Argmax[extended[i - 1]])]
    BY <1>1
  <1>3. Greedy(n) = extended[n]
    BY DEF Greedy
  <1> HIDE DEF extended
  <1>4. IsContinuation(extended, Kept, n)
    BY <1>2 DEF IsContinuation
  <1> QED BY <1>3, <1>4

\* No token: what is kept of the prompt.  One more: the argmax, appended.
LEMMA GreedySteps ==
  /\ Greedy(0) = Kept
  /\ \A n \in Nat : Greedy(n + 1) = Append(Greedy(n), Argmax[Greedy(n)])
  <1>1. Greedy(0) = Kept
    <2>1. PICK g : IsContinuation(g, Kept, 0) /\ Greedy(0) = g[0]
      BY GreedyDef
    <2> QED BY <2>1 DEF IsContinuation
  <1>2. ASSUME NEW n \in Nat PROVE Greedy(n + 1) = Append(Greedy(n), Argmax[Greedy(n)])
    <2>1. PICK g : IsContinuation(g, Kept, n) /\ Greedy(n) = g[n]
      BY GreedyDef
    <2>2. PICK h : IsContinuation(h, Kept, n + 1) /\ Greedy(n + 1) = h[n + 1]
      BY GreedyDef
    <2>3. h[n] = g[n]
      BY <2>1, <2>2, ContinuationUnique
    <2>4. h[n + 1] = Append(h[n], Argmax[h[n]])
      <3>1. n + 1 \in 0 .. n + 1 /\ (n + 1) - 1 = n /\ n + 1 # 0
        OBVIOUS
      <3> QED BY <2>2, <3>1 DEF IsContinuation
    <2> QED BY <2>1, <2>2, <2>3, <2>4
  <1> QED BY <1>1, <1>2

-----------------------------------------------------------------------------
(* The inductive invariant.                                                *)

Labels == {"args", "load", "path", "reserve", "kv", "prefill", "assemble", "dump",
           "generate", "decode", "print", "exit"}

MainTypes ==
  /\ opts \in Options /\ pc \in Labels
  /\ ids \in Seq(Tokens) /\ logits \in Seq(Contexts)
  /\ next \in Tokens \cup {"none"} /\ steps \in Nat /\ code \in 0 .. 2

Started == {"args", "load"}
Working == {"prefill", "assemble", "dump", "generate", "decode", "print"}

(* Which cache there is at each place, and what a call has already left.    *)
PlaceInv ==
  /\ path = "nocache" => capacity = 0 /\ held = <<>>
  /\ pc \in Started \cup {"path"} => path = "nocache"
  /\ pc \in {"reserve", "kv"} => capacity = 0 /\ held = <<>>
  /\ pc \in Started => ids = <<>>
  /\ pc \in Started \cup {"path", "assemble", "dump", "generate", "decode", "print"} =>
       last.status = "OK"
  /\ pc \in {"path", "reserve", "kv", "prefill", "assemble", "dump"} => ids = Kept
  /\ pc \in {"kv", "assemble"} => path = "cache"
  /\ pc = "assemble" => Kept # <<>>
  /\ pc \in Working /\ path = "cache" => capacity = AsInt(Want) /\ capacity # 0
  /\ pc \in {"reserve", "prefill"} /\ opts.viaDecode => path = "cache"
  /\ pc \in {"assemble", "dump", "generate", "decode"} => logits # <<>>
  /\ pc = "generate" => next \in Tokens
  /\ pc \notin {"generate", "decode", "print", "exit"} => steps = 0 /\ dump = <<>>
  /\ pc \notin {"exit"} => code = 0

(* What the prefill would have written of the first n tokens.               *)
Matrix(n) == [t \in 1 .. n |-> Take(Kept, t)]

(* The text and the cache, for a prompt that is not empty.                  *)
TextInv ==
  Kept # <<>> =>
    /\ pc = "assemble" =>
         /\ Len(logits) \in 1 .. Len(Kept) - 1 /\ logits = Matrix(Len(logits))
         /\ held = Take(Kept, Len(logits))
    /\ pc = "dump" =>
         /\ Len(Kept) <= NCtx /\ logits = Matrix(Len(Kept))
         /\ path = "cache" => held = Kept
    /\ pc = "generate" =>
         /\ steps < opts.generate \/ steps = 0
         /\ ids = Greedy(steps) /\ Len(ids) = Len(Kept) + steps /\ Len(ids) <= NCtx
         /\ next = Argmax[ids] /\ (path = "cache" => held = ids)
    /\ pc = "decode" =>
         /\ steps + 1 < opts.generate
         /\ ids = Greedy(steps + 1) /\ Len(ids) = Len(Kept) + steps + 1
         /\ path = "cache" => held = Butlast(ids)

(* What is printed, also when the program ended.                            *)
PrintInv ==
  Kept # <<>> /\ (pc = "print" \/ (pc = "exit" /\ code = 0)) =>
    /\ ids = Greedy(opts.generate) /\ Fits
    /\ path = "cache" => held = IF opts.generate = 0 THEN ids ELSE Butlast(ids)

(* Why it ended.                                                           *)
ExitInv ==
  pc = "exit" /\ Kept # <<>> =>
    /\ Fits => last.status \in {"OK", "NOMEM"}
    /\ room >= Want /\ last.status = "NOMEM" => path = "cache" /\ capacity = 0

DumpInv == dump # <<>> => dump = Matrix(Len(Kept))

GenerateInv ==
  ContractTypes /\ MainTypes /\ PlaceInv /\ TextInv /\ PrintInv /\ ExitInv /\ DumpInv

LEMMA KeptType ==
  ASSUME opts \in Options
  PROVE  /\ Kept \in Seq(Tokens) /\ Len(Kept) \in Nat /\ (Kept # <<>> => Len(Kept) # 0)
         /\ opts.generate \in Nat /\ Want \in Nat /\ Want = Len(Kept) + opts.generate
         /\ opts.viaDecode \in BOOLEAN
  <1>1. /\ opts.prompt \in Seq(Tokens) /\ opts.generate \in Nat /\ opts.truncate \in Nat
        /\ opts.viaDecode \in BOOLEAN
    BY GenerateAssumption DEF Options
  <1>2. Kept \in Seq(Tokens)
    <2>1. CASE opts.truncate \in 1 .. Len(opts.prompt) - 1
      <3>1. opts.truncate \in 0 .. Len(opts.prompt)
        BY <1>1, <2>1, LenProperties
      <3> QED BY <1>1, <2>1, <3>1, PrefixProperties DEF Kept, Take
    <2> QED BY <1>1, <2>1 DEF Kept
  <1> QED BY <1>1, <1>2, EmptySeq, LenProperties DEF Want

\* The command line does not change, so neither does what it asks for.
LEMMA OptionsStay ==
  ASSUME opts' = opts
  PROVE  /\ Kept' = Kept /\ Want' = Want
         /\ \A n : Matrix(n)' = Matrix(n) /\ Greedy(n)' = Greedy(n)
  BY DEF Kept, Want, Matrix, Greedy

LEMMA GenerateInitial == GenerateInit => GenerateInv
  <1> SUFFICES ASSUME GenerateInit PROVE GenerateInv
    OBVIOUS
  <1>1. <<>> \in Seq(Tokens) /\ <<>> \in Seq(Contexts) /\ Len(<<>>) = 0
    BY EmptySeq
  <1>2. ContractTypes
    BY <1>1, ApiAssumption DEF GenerateInit, ContractInit, ContractTypes, Paths, Statuses
  <1>3. MainTypes
    BY <1>1 DEF GenerateInit, MainTypes, Labels
  <1>4. PlaceInv /\ TextInv /\ PrintInv /\ ExitInv /\ DumpInv
    BY DEF GenerateInit, ContractInit, PlaceInv, TextInv, PrintInv, ExitInv, DumpInv,
           Started, Working
  <1> QED BY <1>2, <1>3, <1>4 DEF GenerateInv

-----------------------------------------------------------------------------
(* The actions up to the prefill.                                          *)

LEMMA ParseArgsStep == GenerateInv /\ ParseArgs => GenerateInv'
  <1> SUFFICES ASSUME GenerateInv, ParseArgs PROVE GenerateInv'
    OBVIOUS
  <1>1. /\ pc = "args" /\ last' = last /\ path' = path /\ capacity' = capacity
        /\ held' = held /\ room' = room /\ opts' = opts /\ ids' = ids /\ logits' = logits
        /\ next' = next /\ steps' = steps /\ dump' = dump
        /\ \/ pc' = "exit" /\ code' = 2 
           \/ pc' = "load" /\ code' = code
    BY DEF ParseArgs, Exit, Goto, contractVars
  <1>2. ContractTypes' /\ MainTypes'
    BY <1>1 DEF GenerateInv, ContractTypes, MainTypes, Labels
  <1>3. PlaceInv'
    BY <1>1 DEF GenerateInv, PlaceInv, Started, Working
  <1>4. TextInv' /\ PrintInv' /\ ExitInv' /\ DumpInv'
    BY <1>1 DEF GenerateInv, PlaceInv, TextInv, PrintInv, ExitInv, DumpInv, Started
  <1> QED BY <1>2, <1>3, <1>4 DEF GenerateInv

LEMMA LoadStep == GenerateInv /\ (\E ok \in BOOLEAN : LoadAndEncode(ok)) => GenerateInv'
  <1> SUFFICES ASSUME GenerateInv, NEW ok \in BOOLEAN, LoadAndEncode(ok) PROVE GenerateInv'
    OBVIOUS
  <1>1. /\ pc = "load" /\ last' = last /\ path' = path /\ capacity' = capacity
        /\ held' = held /\ room' = room /\ opts' = opts /\ logits' = logits
        /\ next' = next /\ steps' = steps /\ dump' = dump
        /\ \/ pc' = "exit" /\ code' = 1 /\ ids' = ids
           \/ pc' = "path" /\ code' = code /\ ids' = Kept
    BY DEF LoadAndEncode, Unless1, Exit, Goto, Kept, contractVars
  <1>2. Kept \in Seq(Tokens) /\ Kept' = Kept
    BY <1>1, KeptType, OptionsStay DEF GenerateInv, MainTypes
  <1>3. ContractTypes' /\ MainTypes'
    BY <1>1, <1>2 DEF GenerateInv, ContractTypes, MainTypes, Labels
  <1>4. PlaceInv'
    BY <1>1, <1>2 DEF GenerateInv, PlaceInv, Started, Working
  <1>5. TextInv' /\ PrintInv' /\ ExitInv' /\ DumpInv'
    BY <1>1 DEF GenerateInv, PlaceInv, TextInv, PrintInv, ExitInv, DumpInv, Started
  <1> QED BY <1>3, <1>4, <1>5 DEF GenerateInv

LEMMA SelectStep == GenerateInv /\ SelectPath => GenerateInv'
  <1> SUFFICES ASSUME GenerateInv, SelectPath PROVE GenerateInv'
    OBVIOUS
  <1>1. /\ pc = "path" /\ pc' = "reserve" /\ last' = last /\ capacity' = capacity
        /\ held' = held /\ room' = room /\ opts' = opts /\ logits' = logits /\ ids' = ids
        /\ next' = next /\ steps' = steps /\ dump' = dump /\ code' = code
        /\ path' \in Paths /\ (opts.viaDecode => path' = "cache")
    BY DEF SelectPath, SetDecodePath, Goto, Paths
  <1>2. Kept' = Kept
    BY <1>1, OptionsStay
  <1>3. ContractTypes' /\ MainTypes'
    BY <1>1 DEF GenerateInv, ContractTypes, MainTypes, Labels
  <1>4. PlaceInv'
    BY <1>1, <1>2 DEF GenerateInv, PlaceInv, Started, Working
  <1>5. TextInv' /\ PrintInv' /\ ExitInv' /\ DumpInv'
    BY <1>1 DEF GenerateInv, PlaceInv, TextInv, PrintInv, ExitInv, DumpInv, Started
  <1> QED BY <1>3, <1>4, <1>5 DEF GenerateInv

LEMMA ReserveStep == GenerateInv /\ (\E mem \in BOOLEAN : ReserveScratch(mem)) => GenerateInv'
  <1> SUFFICES ASSUME GenerateInv, NEW mem \in BOOLEAN, ReserveScratch(mem) PROVE GenerateInv'
    OBVIOUS
  <1>0. opts \in Options /\ ContractTypes /\ MainTypes /\ ids = Kept
    BY DEF GenerateInv, MainTypes, PlaceInv, ReserveScratch
  <1>1. /\ WantCtx = Want /\ Want \in Nat
    BY <1>0, KeptType DEF WantCtx, Want
  <1>2. /\ pc = "reserve" /\ pc' = (IF path = "cache" THEN "kv" ELSE "prefill")
        /\ path' = path /\ capacity' = capacity
        /\ held' = held /\ opts' = opts /\ logits' = logits /\ ids' = ids
        /\ next' = next /\ steps' = steps /\ dump' = dump /\ code' = code
        /\ room' = RoomAfter(Want, room, mem)
        /\ last' = [status |-> ReserveStatus(Want, room, mem), logits |-> <<>>]
    BY <1>1 DEF ReserveScratch, Reserve, Reply, Grow, Goto
  <1>3. Kept' = Kept
    BY <1>2, OptionsStay
  <1>4. /\ room' \in Nat /\ last' \in [status : Statuses, logits : Seq(Contexts)]
    BY <1>0, <1>1, <1>2, GrowResult, EmptySeq DEF Statuses
  <1>5. ContractTypes' /\ MainTypes'
    BY <1>0, <1>2, <1>4 DEF ContractTypes, MainTypes, Labels
  <1>6. PlaceInv'
    BY <1>2, <1>3, <1>5 DEF GenerateInv, PlaceInv, Started, Working, ContractTypes, Paths
  <1>7. TextInv' /\ PrintInv' /\ ExitInv' /\ DumpInv'
    BY <1>2 DEF GenerateInv, PlaceInv, TextInv, PrintInv, ExitInv, DumpInv, Started
  <1> QED BY <1>5, <1>6, <1>7 DEF GenerateInv

LEMMA KvStep == GenerateInv /\ (\E mem \in BOOLEAN : ReserveCache(mem)) => GenerateInv'
  <1> SUFFICES ASSUME GenerateInv, NEW mem \in BOOLEAN, ReserveCache(mem) PROVE GenerateInv'
    OBVIOUS
  <1>0. /\ opts \in Options /\ ContractTypes /\ MainTypes /\ ids = Kept /\ path = "cache"
        /\ capacity = 0 /\ held = <<>> /\ pc = "kv" /\ steps = 0 /\ dump = <<>> /\ code = 0
    BY DEF GenerateInv, MainTypes, PlaceInv, ReserveCache
  <1>1. /\ WantCtx = Want /\ Want \in Nat /\ Want = Len(Kept) + opts.generate
        /\ Len(Kept) \in Nat /\ (Kept # <<>> => Len(Kept) # 0) /\ opts.generate \in Nat
    BY <1>0, KeptType DEF WantCtx, Want
  <1>2. /\ KvReserve(Want, mem)
        /\ opts' = opts /\ logits' = logits /\ ids' = ids
        /\ next' = next /\ steps' = steps /\ dump' = dump
        /\ IF last'.status # "OK" THEN pc' = "exit" /\ code' = 1
                                  ELSE pc' = "prefill" /\ code' = code
    BY <1>1 DEF ReserveCache, Unless1, Exit, Goto
  <1>3. Kept' = Kept /\ Want' = Want
    BY <1>2, OptionsStay
  <1>4. /\ ContractTypes' /\ path' = path /\ room' = room /\ held' = <<>>
        /\ last'.status = "OK" => capacity' = AsInt(Want) /\ capacity' # 0
        /\ last'.status = "NOMEM" => capacity' = 0
        /\ Want \in 1 .. NCtx => last'.status \in {"OK", "NOMEM"}
    BY <1>0, <1>1, <1>2, KvReserveResult
  <1>5. MainTypes'
    BY <1>0, <1>2 DEF MainTypes, Labels
  <1>6. PlaceInv'
    BY <1>0, <1>2, <1>3, <1>4 DEF PlaceInv, Started, Working
  <1>7. ExitInv'
    <2>1. Fits' /\ Kept # <<>> => Want \in 1 .. NCtx
      BY <1>0, <1>1, <1>2, <1>3, <1>4 DEF Fits
    <2> QED BY <1>0, <1>2, <1>3, <1>4, <2>1 DEF ExitInv
  <1>8. TextInv' /\ PrintInv' /\ DumpInv'
    BY <1>0, <1>2 DEF TextInv, PrintInv, DumpInv
  <1> QED BY <1>4, <1>5, <1>6, <1>7, <1>8 DEF GenerateInv

-----------------------------------------------------------------------------
(* The prefill and the matrix assembled from the cached path.              *)

\* On the cache path a run that fits has a cache for all it prints.
LEMMA FitsInCache ==
  ASSUME ContractTypes, opts \in Options, Kept # <<>>, Fits,
         path = "cache" => capacity = AsInt(Want) /\ capacity # 0
  PROVE  /\ Len(Kept) \in 1 .. NCtx
         /\ IF path = "cache" \/ opts.generate = 0 THEN Want <= NCtx ELSE Want - 1 <= NCtx
         /\ path = "cache" => capacity = Want
  <1>1. /\ Len(Kept) \in Nat \ {0} /\ opts.generate \in Nat /\ Want \in Nat
        /\ Want = Len(Kept) + opts.generate /\ NCtx \in Nat
    BY KeptType, ApiAssumption
  <1>2. IF path = "cache" \/ opts.generate = 0 THEN Want <= NCtx ELSE Want - 1 <= NCtx
    BY DEF Fits
  <1>3. path = "cache" => AsInt(Want) = Want
    BY <1>1, <1>2, AsIntSmall
  <1> QED BY <1>1, <1>2, <1>3

LEMMA PrefillWholeStep ==
  GenerateInv /\ (\E mem \in BOOLEAN : PrefillWhole(mem)) => GenerateInv'
  <1> SUFFICES ASSUME GenerateInv, NEW mem \in BOOLEAN, PrefillWhole(mem) PROVE GenerateInv'
    OBVIOUS
  <1>0. /\ opts \in Options /\ ContractTypes /\ MainTypes /\ ids = Kept
        /\ pc = "prefill" /\ steps = 0 /\ dump = <<>> /\ code = 0 /\ ~ opts.viaDecode
        /\ path = "nocache" => capacity = 0 /\ held = <<>>
        /\ path = "cache" => capacity = AsInt(Want) /\ capacity # 0
        /\ path \in Paths
    BY DEF GenerateInv, MainTypes, PlaceInv, PrefillWhole, Started, Working, ContractTypes
  <1>1. /\ Kept \in Seq(Tokens) /\ Len(Kept) \in Nat /\ (Kept # <<>> => Len(Kept) # 0)
        /\ opts.generate \in Nat /\ Want \in Nat /\ Want = Len(Kept) + opts.generate
    BY <1>0, KeptType
  <1>2. /\ Prefill(Kept, TRUE, mem)
        /\ opts' = opts /\ ids' = ids /\ next' = next /\ steps' = steps /\ dump' = dump
        /\ IF last'.status # "OK" THEN pc' = "exit" /\ code' = 1 /\ logits' = logits
           ELSE pc' = "dump" /\ code' = code /\ logits' = last'.logits
    BY <1>0 DEF PrefillWhole, Unless1, Exit, Goto
  <1>3. Kept' = Kept /\ Want' = Want /\ \A n : Matrix(n)' = Matrix(n)
    BY <1>2, OptionsStay
  <1>4. /\ ContractTypes' /\ path' = path /\ capacity' = capacity
        /\ last'.status = "OK" =>
              /\ Kept \in Contexts
              /\ path = "cache" => Len(Kept) <= capacity
              /\ last'.logits = Matrix(Len(Kept))
              /\ held' = IF path = "cache" THEN Kept ELSE held
        /\ last'.status # "OK" => held' = held
        /\ last'.status = "NOMEM" => room' < AtLeastOne(Len(Kept))
        /\ Kept \in Contexts /\ (path = "cache" => capacity # 0 /\ Len(Kept) <= capacity)
              => last'.status \in {"OK", "NOMEM"}
    <2>1. Kept \in Seq(Tokens \cup {BadToken})
      BY <1>1, SeqMonotonic, Zenon
    <2> QED BY <1>0, <1>2, <2>1, PrefillResult DEF Matrix
  <1>5. MainTypes'
    BY <1>0, <1>2, <1>4 DEF MainTypes, Labels, ContractTypes
  <1>6. last'.status = "OK" => Len(Kept) \in 1 .. NCtx /\ Matrix(Len(Kept)) # <<>>
    <2>1. last'.status = "OK" => Len(Kept) \in 1 .. NCtx
      BY <1>4 DEF Contexts
    <2>2. \A n \in Nat : n # 0 => 1 \in DOMAIN Matrix(n)
      BY DEF Matrix
    <2> QED BY <1>1, <2>1, <2>2
  <1>7. PlaceInv'
    BY <1>0, <1>2, <1>3, <1>4, <1>6 DEF PlaceInv, Started, Working
  <1>8. TextInv'
    BY <1>2, <1>3, <1>4, <1>6 DEF TextInv
  <1>9. ExitInv'
    <2> SUFFICES ASSUME pc' = "exit", Kept # <<>>
                 PROVE  /\ Fits' => last'.status \in {"OK", "NOMEM"}
                        /\ ~ (room' >= Want /\ last'.status = "NOMEM")
      BY <1>3 DEF ExitInv
    <2>1. Fits' => last'.status \in {"OK", "NOMEM"}
      <3> SUFFICES ASSUME Fits' PROVE last'.status \in {"OK", "NOMEM"}
        OBVIOUS
      <3>1. Fits
        BY <1>2, <1>3, <1>4 DEF Fits
      <3>2. /\ Len(Kept) \in 1 .. NCtx
            /\ path = "cache" => capacity = Want
        BY <1>0, <3>1, FitsInCache
      <3>3. Kept \in Contexts
        BY <1>1, <3>2 DEF Contexts
      <3> QED BY <1>0, <1>1, <1>4, <3>2, <3>3
    <2>2. ~ (room' >= Want /\ last'.status = "NOMEM")
      BY <1>1, <1>4 DEF AtLeastOne, ContractTypes
    <2> QED BY <2>1, <2>2
  <1>10. PrintInv' /\ DumpInv'
    BY <1>0, <1>2 DEF PrintInv, DumpInv
  <1> QED BY <1>4, <1>5, <1>7, <1>8, <1>9, <1>10 DEF GenerateInv

\* The prefill of the first token alone; ids[0] is garbage for an empty prompt.
LEMMA PrefillFirstStep ==
  GenerateInv /\ (\E first \in Tokens \cup {BadToken}, mem \in BOOLEAN : PrefillFirst(first, mem))
    => GenerateInv'
  <1> SUFFICES ASSUME GenerateInv, NEW first \in Tokens \cup {BadToken}, NEW mem \in BOOLEAN,
                      PrefillFirst(first, mem)
               PROVE  GenerateInv'
    OBVIOUS
  <1>0. /\ opts \in Options /\ ContractTypes /\ MainTypes /\ ids = Kept
        /\ pc = "prefill" /\ steps = 0 /\ dump = <<>> /\ code = 0 /\ opts.viaDecode
        /\ path = "cache" /\ capacity = AsInt(Want) /\ capacity # 0
    BY DEF GenerateInv, MainTypes, PlaceInv, PrefillFirst, Started, Working, ContractTypes
  <1>1. /\ Kept \in Seq(Tokens) /\ Len(Kept) \in Nat /\ (Kept # <<>> => Len(Kept) # 0)
        /\ opts.generate \in Nat /\ Want \in Nat /\ Want = Len(Kept) + opts.generate
    BY <1>0, KeptType
  <1>2. /\ Prefill(<<first>>, TRUE, mem) /\ (Kept # <<>> => first = Kept[1])
        /\ opts' = opts /\ ids' = ids /\ next' = next /\ steps' = steps /\ dump' = dump
        /\ IF last'.status # "OK" THEN pc' = "exit" /\ code' = 1 /\ logits' = logits
           ELSE /\ pc' = (IF Len(Kept) > 1 THEN "assemble" ELSE "dump")
                /\ code' = code /\ logits' = last'.logits
    BY <1>0 DEF PrefillFirst, Unless1, Exit, Goto
  <1>3. Kept' = Kept /\ Want' = Want /\ \A n : Matrix(n)' = Matrix(n)
    BY <1>2, OptionsStay
  <1>a. <<first>> \in Seq(Tokens \cup {BadToken}) /\ Len(<<first>>) = 1
    OBVIOUS
  <1>4. /\ ContractTypes' /\ path' = path /\ capacity' = capacity
        /\ last'.status = "OK" =>
              /\ <<first>> \in Contexts
              /\ last'.logits = [t \in 1 .. 1 |-> Take(<<first>>, t)]
              /\ held' = <<first>>
        /\ last'.status # "OK" => held' = held
        /\ last'.status = "NOMEM" => room' < 1
        /\ <<first>> \in Contexts /\ capacity # 0 /\ 1 <= capacity
              => last'.status \in {"OK", "NOMEM"}
    BY <1>0, <1>2, <1>a, PrefillResult DEF AtLeastOne
  <1>5. MainTypes'
    BY <1>0, <1>2, <1>4 DEF MainTypes, Labels, ContractTypes
  <1>6. last'.status = "OK" => last'.logits # <<>> /\ Len(last'.logits) = 1
    BY <1>4, SMTT(30)
  <1>7. PlaceInv'
    BY <1>0, <1>2, <1>3, <1>4, <1>6 DEF PlaceInv, Started, Working
  <1>b. Kept # <<>> => <<first>> = Take(Kept, 1) /\ (Len(Kept) = 1 => Take(Kept, 1) = Kept)
    <2> SUFFICES ASSUME Kept # <<>>
                 PROVE  <<first>> = Take(Kept, 1) /\ (Len(Kept) = 1 => Take(Kept, 1) = Kept)
      OBVIOUS
    <2>1. 1 \in 0 .. Len(Kept) /\ first = Kept[1] /\ first \in Tokens
      BY <1>1, <1>2, ElementOfSeq
    <2>2. Take(Kept, 1) \in Seq(Tokens) /\ Len(Take(Kept, 1)) = 1 /\ Take(Kept, 1)[1] = first
      BY <1>1, <2>1, PrefixProperties DEF Take
    <2>3. <<first>> = Take(Kept, 1)
      BY <2>1, <2>2
    <2>4. Len(Kept) = 1 => Kept = <<first>>
      BY <1>1, <2>1
    <2> QED BY <2>3, <2>4
  <1>8. TextInv'
    <2> SUFFICES ASSUME Kept # <<>>, last'.status = "OK"
                 PROVE  TextInv'
      BY <1>2, <1>3 DEF TextInv
    <2>1. <<first>> \in Contexts /\ NCtx \in Nat \ {0} /\ Len(Kept) >= 1
      BY <1>1, <1>4, ApiAssumption
    <2>2. Take(<<first>>, 1) = Take(Kept, 1)
      <3>1. Take(<<first>>, 1) = <<first>>
        BY <1>a, SubSeqFull DEF Take
      <3> QED BY <1>b, <3>1
    <2>3. logits' = Matrix(1) /\ Len(logits') = 1
      BY <1>2, <1>4, <1>6, <2>2 DEF Matrix
    <2>4. CASE Len(Kept) > 1
      <3>1. pc' = "assemble" /\ held' = Take(Kept, 1)
        BY <1>2, <1>4, <1>b, <2>4
      <3>2. 1 \in 1 .. Len(Kept) - 1 /\ Len(logits') \in 1 .. Len(Kept) - 1
        <4>1. 1 \in 1 .. Len(Kept) - 1
          BY <1>1, <2>4
        <4>2. Len(logits') = 1
          BY <2>3
        <4> QED BY <4>1, <4>2
      <3> QED BY <1>3, <2>3, <3>1, <3>2 DEF TextInv
    <2>5. CASE Len(Kept) = 1
      BY <1>2, <1>3, <1>4, <1>b, <2>1, <2>3, <2>5 DEF TextInv
    <2> QED BY <1>1, <2>1, <2>4, <2>5
  <1>9. ExitInv'
    <2> SUFFICES ASSUME pc' = "exit", Kept # <<>>
                 PROVE  /\ Fits' => last'.status \in {"OK", "NOMEM"}
                        /\ ~ (room' >= Want /\ last'.status = "NOMEM")
      BY <1>3 DEF ExitInv
    <2>1. <<first>> \in Contexts /\ 1 <= capacity
      BY <1>0, <1>1, <1>2, <1>a, ApiAssumption, ElementOfSeq DEF Contexts, ContractTypes
    <2>2. last'.status \in {"OK", "NOMEM"}
      BY <1>0, <1>4, <2>1
    <2>3. ~ (room' >= Want /\ last'.status = "NOMEM")
      BY <1>1, <1>4 DEF ContractTypes
    <2> QED BY <2>2, <2>3
  <1>10. PrintInv' /\ DumpInv'
    BY <1>0, <1>2 DEF PrintInv, DumpInv
  <1> QED BY <1>4, <1>5, <1>7, <1>8, <1>9, <1>10 DEF GenerateInv

\* One more row.
LEMMA MatrixNext ==
  ASSUME Kept \in Seq(Tokens), NEW n \in Nat, n + 1 <= Len(Kept)
  PROVE  Matrix(n) \o << Take(Kept, n + 1) >> = Matrix(n + 1)
  <1>1. \A m \in 0 .. n + 1 : Matrix(m) \in Seq(Seq(Tokens)) /\ Len(Matrix(m)) = m
    <2> TAKE m \in 0 .. n + 1
    <2>1. \A t \in 1 .. m : t \in 0 .. Len(Kept)
      BY LenProperties
    <2>2. Matrix(m) \in [1 .. m -> Seq(Tokens)]
      BY <2>1, PrefixProperties DEF Matrix, Take
    <2>3. m \in Nat
      OBVIOUS
    <2> QED BY <2>2, <2>3, FunctionIsSeq, Zenon
  <1>2. Take(Kept, n + 1) \in Seq(Tokens)
    <2>1. n + 1 \in 0 .. Len(Kept)
      BY LenProperties
    <2> QED BY <2>1, PrefixProperties DEF Take
  <1>3. \A t \in 1 .. n + 1 : Matrix(n + 1)[t] = IF t <= n THEN Matrix(n)[t] ELSE Take(Kept, n + 1)
    BY DEF Matrix
  <1>4. n \in 0 .. n + 1 /\ n + 1 \in 0 .. n + 1
    OBVIOUS
  <1> DEFINE a == Matrix(n)
             b == << Take(Kept, n + 1) >>
             c == Matrix(n + 1)
  <1>5. /\ a \in Seq(Seq(Tokens)) /\ Len(a) = n /\ c \in Seq(Seq(Tokens)) /\ Len(c) = n + 1
        /\ b \in Seq(Seq(Tokens)) /\ Len(b) = 1 /\ b[1] = Take(Kept, n + 1)
    BY <1>1, <1>2, <1>4
  <1>6. \A t \in 1 .. n + 1 : c[t] = IF t <= n THEN a[t] ELSE b[1]
    BY <1>3, <1>5
  <1> HIDE DEF a, b, c
  <1>7. /\ a \o b \in Seq(Seq(Tokens)) /\ Len(a \o b) = n + 1
        /\ \A t \in 1 .. n + 1 : (a \o b)[t] = IF t <= n THEN a[t] ELSE b[t - n]
    <2>1. /\ a \o b \in Seq(Seq(Tokens)) /\ Len(a \o b) = Len(a) + Len(b)
          /\ \A t \in 1 .. Len(a) + Len(b) :
               (a \o b)[t] = IF t <= Len(a) THEN a[t] ELSE b[t - Len(a)]
      BY <1>5, ConcatProperties, Zenon
    <2>2. Len(a) = n /\ Len(b) = 1
      BY <1>5
    <2> QED BY <2>1, <2>2, Zenon
  <1>8. \A t \in 1 .. n + 1 : (a \o b)[t] = c[t]
    BY <1>6, <1>7
  <1>9. a \o b = c
    BY <1>5, <1>7, <1>8, SeqEqual
  <1> QED BY <1>9 DEF a, b, c

\* One cached step writes the next row of the matrix.
LEMMA AssembleStep ==
  GenerateInv /\ (\E mem \in BOOLEAN : AssembleRow(mem)) => GenerateInv'
  <1> SUFFICES ASSUME GenerateInv, NEW mem \in BOOLEAN, AssembleRow(mem) PROVE GenerateInv'
    OBVIOUS
  <1>0. /\ opts \in Options /\ ContractTypes /\ MainTypes /\ ids = Kept
        /\ pc = "assemble" /\ steps = 0 /\ dump = <<>> /\ code = 0 /\ logits # <<>>
        /\ path = "cache" /\ capacity = AsInt(Want) /\ capacity # 0 /\ Kept # <<>>
    BY DEF GenerateInv, MainTypes, PlaceInv, AssembleRow, Started, Working, ContractTypes
  <1> DEFINE n == Len(logits)
             s == Take(Kept, n + 1)
  <1>1. /\ Kept \in Seq(Tokens) /\ Len(Kept) \in Nat \ {0}
        /\ opts.generate \in Nat /\ Want \in Nat /\ Want = Len(Kept) + opts.generate
    BY <1>0, KeptType
  <1>2. /\ DecodeStepCached(s, TRUE, mem)
        /\ opts' = opts /\ ids' = ids /\ next' = next /\ steps' = steps /\ dump' = dump
        /\ IF last'.status # "OK" THEN pc' = "exit" /\ code' = 1 /\ logits' = logits
           ELSE /\ pc' = (IF n + 1 < Len(Kept) THEN "assemble" ELSE "dump")
                /\ code' = code /\ logits' = logits \o last'.logits
    BY <1>0 DEF AssembleRow, Unless1, Exit, Goto
  <1>3. Kept' = Kept /\ Want' = Want /\ \A m : Matrix(m)' = Matrix(m)
    BY <1>2, OptionsStay
  <1>4. n \in 1 .. Len(Kept) - 1 /\ logits = Matrix(n) /\ held = Take(Kept, n)
    BY <1>0 DEF GenerateInv, TextInv
  <1> HIDE DEF n
  <1>5. n \in Nat /\ n + 1 <= Len(Kept) /\ n + 1 \in 0 .. Len(Kept) /\ n \in 0 .. Len(Kept)
    BY <1>1, <1>4
  <1>6. /\ s \in Seq(Tokens) /\ Len(s) = n + 1 /\ LastOf(s) = Kept[n + 1]
        /\ Len(held) = n
    BY <1>1, <1>4, <1>5, PrefixProperties DEF Take, LastOf
  <1>7. Append(held, LastOf(s)) = s
    BY <1>1, <1>4, <1>5, <1>6, PrefixNext DEF Take
  <1>8. Matrix(n) \o << s >> = Matrix(n + 1)
    BY <1>1, <1>5, MatrixNext
  <1> HIDE DEF s
  <1>9. /\ ContractTypes' /\ path' = path /\ capacity' = capacity
        /\ last'.status = "OK" => /\ n + 1 <= NCtx /\ n + 1 <= capacity
                                  /\ last'.logits = << s >> /\ held' = s
        /\ last'.status # "OK" => held' = held
        /\ last'.status = "NOMEM" => room' < n + 1
        /\ n + 1 <= NCtx /\ n + 1 <= capacity => last'.status \in {"OK", "NOMEM"}
    <2>1. /\ ContractTypes' /\ path' = path /\ capacity' = capacity
          /\ last'.status = "OK" =>
              /\ Len(s) \in 1 .. NCtx /\ Len(s) <= capacity /\ Len(held) = Len(s) - 1
              /\ last'.logits = << Append(held, LastOf(s)) >>
              /\ held' = Append(held, LastOf(s))
          /\ last'.status # "OK" => held' = held
          /\ last'.status = "NOMEM" => room' < AtLeastOne(Len(s))
          /\ /\ Len(s) \in 1 .. NCtx /\ capacity # 0 /\ Len(s) <= capacity
             /\ Len(held) = Len(s) - 1
             => last'.status \in {"OK", "NOMEM"}
      BY <1>0, <1>2, <1>6, DecodeCachedResult
    <2> QED BY <1>0, <1>5, <1>6, <1>7, <2>1, ApiAssumption DEF AtLeastOne
  <1>10. last'.status = "OK" => /\ logits' = Matrix(n + 1) /\ Len(logits') = n + 1
                                /\ logits' \in Seq(Contexts) /\ logits' # <<>>
    <2> SUFFICES ASSUME last'.status = "OK"
                 PROVE  /\ logits' = Matrix(n + 1) /\ Len(logits') = n + 1
                        /\ logits' \in Seq(Contexts) /\ logits' # <<>>
      OBVIOUS
    <2>1. logits' = Matrix(n + 1)
      BY <1>2, <1>4, <1>8, <1>9
    <2>2. last'.logits \in Seq(Contexts) /\ logits \in Seq(Contexts)
      BY <1>0, <1>9 DEF MainTypes, ContractTypes
    <2>3. logits' \in Seq(Contexts)
      BY <1>2, <2>2, ConcatProperties
    <2>4. Len(logits') = n + 1
      <3>1. Len(logits \o last'.logits) = Len(logits) + Len(last'.logits)
        BY <2>2, ConcatProperties
      <3>2. Len(last'.logits) = 1
        BY <1>9
      <3> QED BY <1>2, <3>1, <3>2 DEF n
    <2> QED BY <1>5, <2>1, <2>3, <2>4
  <1>11. MainTypes'
    BY <1>0, <1>2, <1>10 DEF MainTypes, Labels
  <1>12. PlaceInv'
    BY <1>0, <1>2, <1>3, <1>9, <1>10 DEF PlaceInv, Started, Working
  <1>13. TextInv'
    <2> SUFFICES ASSUME last'.status = "OK" PROVE TextInv'
      BY <1>2 DEF TextInv
    <2>1. CASE n + 1 < Len(Kept)
      BY <1>1, <1>2, <1>3, <1>5, <1>9, <1>10, <2>1 DEF TextInv, s
    <2>2. CASE n + 1 = Len(Kept)
      <3>1. s = Kept
        BY <1>1, <2>2, SubSeqFull DEF s, Take
      <3> QED BY <1>1, <1>2, <1>3, <1>5, <1>9, <1>10, <2>2, <3>1 DEF TextInv
    <2> QED BY <1>1, <1>5, <2>1, <2>2
  <1>14. ExitInv'
    <2> SUFFICES ASSUME pc' = "exit"
                 PROVE  /\ Fits' => last'.status \in {"OK", "NOMEM"}
                        /\ ~ (room' >= Want /\ last'.status = "NOMEM")
      BY <1>3 DEF ExitInv
    <2>1. Fits' => last'.status \in {"OK", "NOMEM"}
      <3> SUFFICES ASSUME Fits' PROVE last'.status \in {"OK", "NOMEM"}
        OBVIOUS
      <3>1. Fits
        BY <1>2, <1>3, <1>9 DEF Fits
      <3>2. Len(Kept) \in 1 .. NCtx /\ capacity = Want
        BY <1>0, <3>1, FitsInCache
      <3> QED BY <1>1, <1>5, <1>9, <3>2, ApiAssumption
    <2>2. ~ (room' >= Want /\ last'.status = "NOMEM")
      BY <1>1, <1>5, <1>9 DEF ContractTypes
    <2> QED BY <2>1, <2>2
  <1>15. PrintInv' /\ DumpInv'
    BY <1>0, <1>2 DEF PrintInv, DumpInv
  <1> QED BY <1>9, <1>11, <1>12, <1>13, <1>14, <1>15 DEF GenerateInv

-----------------------------------------------------------------------------
(* The dump, the greedy loop and the text.                                 *)

LEMMA DumpStep ==
  GenerateInv /\ (\E ok \in BOOLEAN, garbage \in Tokens : DumpAndPick(ok, garbage))
    => GenerateInv'
  <1> SUFFICES ASSUME GenerateInv, NEW ok \in BOOLEAN, NEW garbage \in Tokens,
                      DumpAndPick(ok, garbage)
               PROVE  GenerateInv'
    OBVIOUS
  <1>0. /\ opts \in Options /\ ContractTypes /\ MainTypes /\ ids = Kept
        /\ pc = "dump" /\ steps = 0 /\ dump = <<>> /\ code = 0 /\ logits # <<>>
        /\ last.status = "OK" /\ logits \in Seq(Contexts)
    BY DEF GenerateInv, MainTypes, PlaceInv, DumpAndPick
  <1>1. /\ Kept \in Seq(Tokens) /\ Len(Kept) \in Nat /\ (Kept # <<>> => Len(Kept) # 0)
        /\ opts.generate \in Nat
    BY <1>0, KeptType
  <1>2. /\ last' = last /\ path' = path /\ capacity' = capacity /\ held' = held /\ room' = room
        /\ opts' = opts /\ ids' = ids /\ logits' = logits /\ steps' = steps
        /\ dump' = (IF opts.dump /\ ok THEN Take(logits, Len(Kept)) ELSE dump)
        /\ next' = (IF Kept = <<>> THEN garbage ELSE Argmax[logits[Len(Kept)]])
        /\ \/ pc' = "exit" /\ code' = 1
           \/ pc' = "generate" /\ code' = code
    BY <1>0 DEF DumpAndPick, Unless1, Exit, Goto, contractVars
  <1>3. Kept' = Kept /\ Want' = Want /\ \A m : Matrix(m)' = Matrix(m) /\ Greedy(m)' = Greedy(m)
    BY <1>2, OptionsStay
  <1>4. ASSUME Kept # <<>>
        PROVE  /\ Len(Kept) <= NCtx /\ logits = Matrix(Len(Kept)) /\ Len(logits) = Len(Kept)
               /\ next' = Argmax[Kept] /\ next' \in Tokens
               /\ path = "cache" => held = Kept
    <2>1. /\ Len(Kept) <= NCtx /\ logits = Matrix(Len(Kept))
          /\ path = "cache" => held = Kept
      BY <1>0, <1>4 DEF GenerateInv, TextInv
    <2>2. Len(logits) = Len(Kept)
      <3>1. DOMAIN logits = 1 .. Len(Kept)
        BY <2>1 DEF Matrix
      <3> QED BY <1>0, <1>1, <3>1, LenProperties
    <2>3. logits[Len(Kept)] = Kept
      <3>1. Take(Kept, Len(Kept)) = Kept
        BY <1>1, SubSeqFull DEF Take
      <3>2. Len(Kept) \in 1 .. Len(Kept)
        BY <1>1, <1>4
      <3> QED BY <2>1, <3>1, <3>2 DEF Matrix
    <2>4. Argmax[Kept] \in Tokens
      BY <1>1, <1>4, <2>1, ArgmaxToken DEF Contexts
    <2> QED BY <1>2, <1>4, <2>1, <2>2, <2>3, <2>4
  <1>5. next' \in Tokens
    BY <1>2, <1>4
  <1>6. dump' # <<>> => Kept # <<>> /\ dump' = Matrix(Len(Kept))
    <2> SUFFICES ASSUME dump' # <<>> PROVE Kept # <<>> /\ dump' = Matrix(Len(Kept))
      OBVIOUS
    <2>1. dump' = Take(logits, Len(Kept))
      BY <1>0, <1>2
    <2>2. Kept # <<>>
      <3>1. Take(logits, 0) = <<>>
        BY <1>0, SubSeqEmpty DEF Take
      <3> QED BY <2>1, <3>1
    <2>3. Take(logits, Len(logits)) = logits
      BY <1>0, SubSeqFull DEF Take
    <2> QED BY <1>4, <2>1, <2>2, <2>3
  <1>7. ContractTypes' /\ MainTypes'
    BY <1>0, <1>2, <1>5 DEF ContractTypes, MainTypes, Labels
  <1>8. PlaceInv'
    BY <1>0, <1>2, <1>3, <1>5 DEF GenerateInv, PlaceInv, Started, Working
  <1>9. TextInv'
    <2> SUFFICES ASSUME Kept # <<>>, pc' = "generate" PROVE TextInv'
      BY <1>2, <1>3 DEF TextInv
    <2>1. ids' = Greedy(steps)' /\ steps' = 0
      BY <1>0, <1>2, <1>3, GreedySteps
    <2> QED BY <1>0, <1>1, <1>2, <1>3, <1>4, <2>1 DEF TextInv
  <1>10. PrintInv' /\ ExitInv' /\ DumpInv'
    BY <1>0, <1>2, <1>3, <1>6 DEF PrintInv, ExitInv, DumpInv
  <1> QED BY <1>7, <1>8, <1>9, <1>10 DEF GenerateInv

LEMMA PushStep == GenerateInv /\ PushToken => GenerateInv'
  <1> SUFFICES ASSUME GenerateInv, PushToken PROVE GenerateInv'
    OBVIOUS
  <1>0. /\ opts \in Options /\ ContractTypes /\ MainTypes /\ capacity \in 0 .. NCtx
        /\ pc = "generate" /\ code = 0 /\ logits # <<>> /\ last.status = "OK"
        /\ next \in Tokens /\ ids \in Seq(Tokens) /\ steps \in Nat
        /\ path = "cache" => capacity = AsInt(Want) /\ capacity # 0
    BY DEF GenerateInv, MainTypes, ContractTypes, PlaceInv, PushToken, Started, Working
  <1>1. /\ Kept \in Seq(Tokens) /\ Len(Kept) \in Nat
        /\ opts.generate \in Nat /\ Want \in Nat /\ Want = Len(Kept) + opts.generate
    BY <1>0, KeptType
  <1>2. /\ last' = last /\ path' = path /\ capacity' = capacity /\ held' = held /\ room' = room
        /\ opts' = opts /\ logits' = logits /\ steps' = steps /\ next' = next
        /\ dump' = dump /\ code' = code
        /\ ids' = (IF steps < opts.generate THEN Append(ids, next) ELSE ids)
        /\ pc' = (IF steps + 1 < opts.generate THEN "decode" ELSE "print")
    BY <1>0 DEF PushToken, Goto, contractVars
  <1>3. Kept' = Kept /\ Want' = Want /\ \A m : Matrix(m)' = Matrix(m) /\ Greedy(m)' = Greedy(m)
    BY <1>2, OptionsStay
  <1>4. /\ Append(ids, next) \in Seq(Tokens) /\ Len(Append(ids, next)) = Len(ids) + 1
        /\ Butlast(Append(ids, next)) = ids
    <2>1. /\ Append(ids, next) \in Seq(Tokens) /\ Len(Append(ids, next)) = Len(ids) + 1
          /\ SubSeq(Append(ids, next), 1, Len(ids)) = ids
      BY <1>0, PrefixOfAppend
    <2>2. Len(ids) + 1 - 1 = Len(ids)
      BY <1>0, LenProperties
    <2> QED BY <2>1, <2>2 DEF Butlast
  <1>5. ASSUME Kept # <<>>
        PROVE  /\ steps < opts.generate \/ steps = 0
               /\ ids = Greedy(steps) /\ Len(ids) = Len(Kept) + steps /\ Len(ids) <= NCtx
               /\ next = Argmax[ids] /\ (path = "cache" => held = ids)
    BY <1>0, <1>5 DEF GenerateInv, TextInv
  <1>6. Kept # <<>> => Append(ids, next) = Greedy(steps + 1)
    BY <1>0, <1>5, GreedySteps
  <1>7. ContractTypes' /\ MainTypes'
    BY <1>0, <1>2, <1>4 DEF ContractTypes, MainTypes, Labels
  <1>8. PlaceInv'
    BY <1>0, <1>2, <1>3 DEF GenerateInv, PlaceInv, Started, Working
  <1>9. TextInv'
    <2> SUFFICES ASSUME Kept # <<>>, pc' = "decode" PROVE TextInv'
      BY <1>2, <1>3 DEF TextInv
    <2>1. steps < opts.generate /\ steps + 1 < opts.generate
      BY <1>0, <1>1, <1>2
    <2>2. ids' = Greedy(steps + 1)' /\ Len(ids') = Len(Kept) + steps + 1
      BY <1>0, <1>1, <1>2, <1>3, <1>4, <1>5, <1>6, <2>1
    <2>3. path' = "cache" => held' = Butlast(ids')
      BY <1>2, <1>4, <1>5, <2>1
    <2> QED BY <1>2, <1>3, <2>1, <2>2, <2>3 DEF TextInv, Butlast
  <1>10. PrintInv'
    <2> SUFFICES ASSUME Kept # <<>>, pc' = "print"
                 PROVE  /\ ids' = Greedy(opts.generate) /\ Fits'
                        /\ path = "cache" =>
                             held = IF opts.generate = 0 THEN ids' ELSE Butlast(ids')
      BY <1>0, <1>2, <1>3 DEF PrintInv, Butlast
    <2>1. opts.generate <= steps + 1 /\ (steps < opts.generate \/ steps = 0)
      BY <1>0, <1>1, <1>2, <1>5
    <2>2. CASE opts.generate = 0
      <3>1. ids' = ids /\ steps = 0 /\ Want = Len(ids)
        BY <1>0, <1>1, <1>2, <1>5, <2>1, <2>2
      <3> QED BY <1>1, <1>2, <1>3, <1>5, <2>2, <3>1 DEF Fits
    <2>3. CASE opts.generate # 0
      <3>1. /\ opts.generate = steps + 1 /\ ids' = Append(ids, next)
            /\ Want = Len(ids) + 1 /\ Len(ids) \in Nat
        BY <1>0, <1>1, <1>2, <1>5, <2>1, <2>3, SMTT(30)
      <3>2. path = "cache" => Want <= NCtx
        <4> SUFFICES ASSUME path = "cache" PROVE Want <= NCtx
          OBVIOUS
        <4>1. Want <= NCtx + 1
          BY <1>5, <3>1, ApiAssumption
        <4>2. AsInt(Want) = Want
          BY <1>1, <4>1, AsIntSmall
        <4> QED BY <1>0, <4>2
      <3>3. Fits'
        BY <1>1, <1>2, <1>3, <1>5, <2>3, <3>1, <3>2, ApiAssumption DEF Fits
      <3> QED BY <1>4, <1>5, <1>6, <2>3, <3>1, <3>3
    <2> QED BY <2>2, <2>3
  <1>11. ExitInv' /\ DumpInv'
    BY <1>0, <1>2, <1>3 DEF GenerateInv, ExitInv, DumpInv
  <1> QED BY <1>7, <1>8, <1>9, <1>10, <1>11 DEF GenerateInv

LEMMA DecodeNextStep == GenerateInv /\ (\E mem \in BOOLEAN : DecodeNext(mem)) => GenerateInv'
  <1> SUFFICES ASSUME GenerateInv, NEW mem \in BOOLEAN, DecodeNext(mem) PROVE GenerateInv'
    OBVIOUS
  <1>0. /\ opts \in Options /\ ContractTypes /\ MainTypes
        /\ pc = "decode" /\ code = 0 /\ logits # <<>>
        /\ ids \in Seq(Tokens) /\ steps \in Nat /\ logits \in Seq(Contexts)
        /\ path = "cache" => capacity = AsInt(Want) /\ capacity # 0
        /\ path \in Paths
    BY DEF GenerateInv, MainTypes, ContractTypes, PlaceInv, DecodeNext, Started, Working
  <1>1. /\ Kept \in Seq(Tokens) /\ Len(Kept) \in Nat /\ (Kept # <<>> => Len(Kept) # 0)
        /\ opts.generate \in Nat /\ Want \in Nat /\ Want = Len(Kept) + opts.generate
    BY <1>0, KeptType
  <1>2. /\ DecodeStep(ids, TRUE, mem)
        /\ opts' = opts /\ ids' = ids /\ dump' = dump
        /\ IF last'.status # "OK"
           THEN /\ pc' = "exit" /\ code' = 1 /\ logits' = logits /\ next' = next /\ steps' = steps
           ELSE /\ pc' = "generate" /\ code' = code /\ steps' = steps + 1
                /\ logits' = [logits EXCEPT ![1] = last'.logits[1]]
                /\ next' = Argmax[logits'[1]]
    BY <1>0 DEF DecodeNext, Unless1, Exit, Goto
  <1>3. Kept' = Kept /\ Want' = Want /\ \A m : Matrix(m)' = Matrix(m) /\ Greedy(m)' = Greedy(m)
    BY <1>2, OptionsStay
  <1> DEFINE row == IF path = "cache" THEN Append(held, LastOf(ids)) ELSE ids
  <1>4. /\ ContractTypes' /\ path' = path /\ capacity' = capacity
        /\ last'.status = "OK" =>
              /\ Len(ids) \in 1 .. NCtx
              /\ last'.logits = << row >>
              /\ IF path = "cache"
                 THEN /\ Len(ids) <= capacity /\ Len(held) = Len(ids) - 1
                      /\ held' = Append(held, LastOf(ids))
                 ELSE held' = held
        /\ path # "cache" => held' = held
        /\ last'.status = "NOMEM" => room' < AtLeastOne(Len(ids))
        /\ /\ Len(ids) \in 1 .. NCtx
           /\ path = "cache" => capacity # 0 /\ Len(ids) <= capacity /\ Len(held) = Len(ids) - 1
           => last'.status \in {"OK", "NOMEM"}
    BY <1>0, <1>2, DecodeResult
  <1> HIDE DEF row
  <1>5. last'.status = "OK" => /\ row \in Contexts /\ next' = Argmax[row] /\ next' \in Tokens
                               /\ logits' \in Seq(Contexts) /\ logits' # <<>>
    <2> SUFFICES ASSUME last'.status = "OK"
                 PROVE  /\ row \in Contexts /\ next' = Argmax[row] /\ next' \in Tokens
                        /\ logits' \in Seq(Contexts) /\ logits' # <<>>
      OBVIOUS
    <2>1. last'.logits \in Seq(Contexts) /\ last'.logits = << row >>
      BY <1>4 DEF ContractTypes
    <2>2. row \in Contexts /\ last'.logits[1] = row
      BY <2>1
    <2>3. 1 \in 1 .. Len(logits)
      BY <1>0, LenProperties, EmptySeq
    <2>4. logits' \in Seq(Contexts) /\ Len(logits') = Len(logits) /\ logits'[1] = row
      BY <1>0, <1>2, <2>2, <2>3, ExceptSeq
    <2>5. logits' # <<>>
      BY <2>3, <2>4, EmptySeq
    <2>6. Argmax[row] \in Tokens
      BY <2>2, ArgmaxToken
    <2> QED BY <1>2, <2>2, <2>4, <2>5, <2>6
  <1>6. ASSUME Kept # <<>>
        PROVE  /\ steps + 1 < opts.generate
               /\ ids = Greedy(steps + 1) /\ Len(ids) = Len(Kept) + steps + 1
               /\ path = "cache" => held = Butlast(ids)
    BY <1>0, <1>6 DEF GenerateInv, TextInv
  <1>7. Kept # <<>> => row = ids /\ (path = "cache" => Len(held) = Len(ids) - 1)
    <2> SUFFICES ASSUME Kept # <<>>, path = "cache"
                 PROVE  Append(held, LastOf(ids)) = ids /\ Len(held) = Len(ids) - 1
      BY DEF row
    <2> DEFINE m == Len(ids) - 1
    <2>1. m \in Nat /\ m + 1 = Len(ids) /\ m \in 0 .. Len(ids)
      BY <1>0, <1>1, <1>6
    <2>2. held = SubSeq(ids, 1, m) /\ LastOf(ids) = ids[m + 1]
      BY <1>6, <2>1 DEF Butlast, LastOf
    <2> HIDE DEF m
    <2>3. Append(held, LastOf(ids)) = SubSeq(ids, 1, m + 1) /\ Len(held) = m
      BY <1>0, <2>1, <2>2, PrefixNext, PrefixProperties
    <2>4. SubSeq(ids, 1, m + 1) = ids
      BY <1>0, <2>1, SubSeqFull
    <2> QED BY <2>3, <2>4 DEF m
  <1>8. MainTypes'
    BY <1>0, <1>2, <1>5 DEF MainTypes, Labels
  <1>9. PlaceInv'
    BY <1>0, <1>2, <1>3, <1>4, <1>5 DEF GenerateInv, PlaceInv, Started, Working
  <1>10. TextInv'
    <2> SUFFICES ASSUME Kept # <<>>, last'.status = "OK" PROVE TextInv'
      BY <1>2, <1>3 DEF TextInv
    <2>1. ids' = Greedy(steps)' /\ steps' < opts.generate
      BY <1>2, <1>3, <1>6
    <2>2. next' = Argmax[ids'] /\ Len(ids') <= NCtx /\ (path' = "cache" => held' = ids')
      <3>1. row = ids /\ ids' = ids /\ path' = path
        BY <1>2, <1>4, <1>7
      <3>2. next' = Argmax[row] /\ Len(ids) <= NCtx
        BY <1>4, <1>5, ApiAssumption
      <3>3. path = "cache" => held' = row
        BY <1>4 DEF row
      <3> QED BY <3>1, <3>2, <3>3
    <2>3. Len(ids') = Len(Kept) + steps'
      BY <1>0, <1>1, <1>2, <1>6
    <2> QED BY <1>2, <1>3, <2>1, <2>2, <2>3 DEF TextInv
  <1>11. ExitInv'
    <2> SUFFICES ASSUME pc' = "exit", Kept # <<>>
                 PROVE  /\ Fits' => last'.status \in {"OK", "NOMEM"}
                        /\ ~ (room' >= Want /\ last'.status = "NOMEM")
      BY <1>3 DEF ExitInv
    <2>1. Fits' => last'.status \in {"OK", "NOMEM"}
      <3> SUFFICES ASSUME Fits' PROVE last'.status \in {"OK", "NOMEM"}
        OBVIOUS
      <3>1. Fits
        BY <1>2, <1>3, <1>4 DEF Fits
      <3>2. /\ IF path = "cache" \/ opts.generate = 0 THEN Want <= NCtx ELSE Want - 1 <= NCtx
            /\ path = "cache" => capacity = Want
        BY <1>0, <3>1, FitsInCache
      <3>3. Len(ids) \in Nat \ {0} /\ Len(ids) <= Want - 1
        BY <1>0, <1>1, <1>6
      <3>4. Len(ids) \in 1 .. NCtx /\ (path = "cache" => Len(ids) <= capacity)
        BY <1>1, <3>2, <3>3, ApiAssumption
      <3> QED BY <1>0, <1>4, <1>7, <3>4
    <2>2. ~ (room' >= Want /\ last'.status = "NOMEM")
      BY <1>0, <1>1, <1>4, <1>6, SMTT(30) DEF AtLeastOne, ContractTypes
    <2> QED BY <2>1, <2>2
  <1>12. PrintInv' /\ DumpInv'
    BY <1>0, <1>2, <1>3 DEF GenerateInv, PrintInv, DumpInv
  <1> QED BY <1>4, <1>8, <1>9, <1>10, <1>11, <1>12 DEF GenerateInv

LEMMA PrintStep == GenerateInv /\ (\E ok \in BOOLEAN : PrintText(ok)) => GenerateInv'
  <1> SUFFICES ASSUME GenerateInv, NEW ok \in BOOLEAN, PrintText(ok) PROVE GenerateInv'
    OBVIOUS
  <1>1. /\ pc = "print" /\ last' = last /\ path' = path /\ capacity' = capacity
        /\ held' = held /\ room' = room /\ opts' = opts /\ ids' = ids /\ logits' = logits
        /\ next' = next /\ steps' = steps /\ dump' = dump
        /\ pc' = "exit" /\ code' \in {0, 1}
    BY DEF PrintText, Exit, contractVars
  <1>2. Kept' = Kept /\ Want' = Want /\ \A m : Matrix(m)' = Matrix(m) /\ Greedy(m)' = Greedy(m)
    BY <1>1, OptionsStay
  <1>3. ContractTypes' /\ MainTypes'
    BY <1>1 DEF GenerateInv, ContractTypes, MainTypes, Labels
  <1>4. PlaceInv'
    BY <1>1 DEF GenerateInv, PlaceInv, Started, Working
  <1>5. PrintInv'
    BY <1>1, <1>2 DEF GenerateInv, PrintInv, Fits, Butlast
  <1>6. TextInv' /\ ExitInv' /\ DumpInv'
    BY <1>1, <1>2 DEF GenerateInv, PlaceInv, TextInv, ExitInv, DumpInv, Started
  <1> QED BY <1>3, <1>4, <1>5, <1>6 DEF GenerateInv

-----------------------------------------------------------------------------
(* The theorems.                                                           *)

LEMMA GenerateStep == GenerateInv /\ [GenerateNext]_allVars => GenerateInv'
  <1> SUFFICES ASSUME GenerateInv, [GenerateNext]_allVars PROVE GenerateInv'
    OBVIOUS
  <1>1. CASE ParseArgs
    BY <1>1, ParseArgsStep
  <1>2. CASE \E ok \in BOOLEAN : LoadAndEncode(ok)
    BY <1>2, LoadStep
  <1>3. CASE SelectPath
    BY <1>3, SelectStep
  <1>4. CASE \E mem \in BOOLEAN : ReserveScratch(mem)
    BY <1>4, ReserveStep
  <1>5. CASE \E mem \in BOOLEAN : ReserveCache(mem)
    BY <1>5, KvStep
  <1>6. CASE \E mem \in BOOLEAN : PrefillWhole(mem)
    BY <1>6, PrefillWholeStep
  <1>7. CASE \E first \in Tokens \cup {BadToken}, mem \in BOOLEAN : PrefillFirst(first, mem)
    BY <1>7, PrefillFirstStep
  <1>8. CASE \E mem \in BOOLEAN : AssembleRow(mem)
    BY <1>8, AssembleStep
  <1>9. CASE \E ok \in BOOLEAN, garbage \in Tokens : DumpAndPick(ok, garbage)
    BY <1>9, DumpStep
  <1>10. CASE PushToken
    BY <1>10, PushStep
  <1>11. CASE \E mem \in BOOLEAN : DecodeNext(mem)
    BY <1>11, DecodeNextStep
  <1>12. CASE \E ok \in BOOLEAN : PrintText(ok)
    BY <1>12, PrintStep
  <1>13. CASE UNCHANGED allVars
    <2>1. /\ last' = last /\ path' = path /\ capacity' = capacity
          /\ held' = held /\ room' = room /\ opts' = opts /\ ids' = ids /\ logits' = logits
          /\ next' = next /\ steps' = steps /\ dump' = dump /\ pc' = pc /\ code' = code
      BY <1>13 DEF allVars, contractVars, mainVars
    <2>2. Kept' = Kept /\ Want' = Want /\ \A m : Matrix(m)' = Matrix(m) /\ Greedy(m)' = Greedy(m)
      BY <2>1, OptionsStay
    <2>3. ContractTypes' /\ MainTypes' /\ PlaceInv'
      BY <2>1, <2>2 DEF GenerateInv, ContractTypes, MainTypes, PlaceInv
    <2>4. TextInv'
      BY <2>1, <2>2 DEF GenerateInv, TextInv, Butlast, Take
    <2>5. PrintInv' /\ ExitInv' /\ DumpInv'
      BY <2>1, <2>2 DEF GenerateInv, PrintInv, ExitInv, DumpInv, Fits, Butlast
    <2> QED BY <2>3, <2>4, <2>5 DEF GenerateInv
  <1> QED BY <1>1, <1>2, <1>3, <1>4, <1>5, <1>6, <1>7, <1>8, <1>9, <1>10, <1>11, <1>12,
             <1>13 DEF GenerateNext

\* The invariant holds of the program, whatever allocations fail, whatever it
\* reads before the buffer of an empty prompt, wherever it exits.
THEOREM GenerateInductive == GenerateSpec => []GenerateInv
  BY GenerateInitial, GenerateStep, PTL DEF GenerateSpec

\* Every variable of main and of the engine's contract keeps its type.
THEOREM GenerateTypeCorrect == GenerateSpec => []GenerateTypeOK
  <1>1. GenerateInv => GenerateTypeOK
    BY DEF GenerateInv, ContractTypes, MainTypes, GenerateTypeOK, Labels
  <1> QED BY <1>1, GenerateInductive, PTL

\* A run that exits 0 printed the prompt and exactly --generate tokens of its
\* greedy continuation, on either path (main.c's generation loop).
THEOREM TextIsGreedy == GenerateSpec => []GreedyText
  <1>1. GenerateInv => GreedyText
    BY DEF GenerateInv, PrintInv, GreedyText
  <1> QED BY <1>1, GenerateInductive, PTL

\* The file of --dump-logits holds the prefill's matrix, also when cached
\* decode steps assembled it (main.c's --via-decode loop).
THEOREM DumpIsThePrefill == GenerateSpec => []DumpIsPrefill
  <1>1. GenerateInv => DumpIsPrefill
    BY DEF GenerateInv, DumpInv, DumpIsPrefill, Matrix
  <1> QED BY <1>1, GenerateInductive, PTL

\* On the cache path the cache is one token behind the text: the length check
\* of model_decode_step_cached refuses no step of this program.
THEOREM CacheIsBehindText == GenerateSpec => []CacheFollowsText
  <1>1. GenerateInv => CacheFollowsText
    BY DEF GenerateInv, PlaceInv, TextInv, PrintInv, CacheFollowsText
  <1> QED BY <1>1, GenerateInductive, PTL

\* A run that fits the context is refused nothing but memory, and one that does
\* not fit never exits 0: the reservation covers exactly what is decoded.
THEOREM ContextDecidesExit == GenerateSpec => []ExitsByContext
  <1>1. GenerateInv => ExitsByContext
    <2> SUFFICES ASSUME GenerateInv, pc = "exit", Kept # <<>>
                 PROVE  IF Fits THEN last.status \in {"OK", "NOMEM"} ELSE code # 0
      BY DEF ExitsByContext
    <2>1. Fits => last.status \in {"OK", "NOMEM"}
      BY DEF GenerateInv, ExitInv
    <2>2. code = 0 => Fits
      BY DEF GenerateInv, PrintInv
    <2> QED BY <2>1, <2>2
  <1> QED BY <1>1, GenerateInductive, PTL

\* A run whose scratch was reserved does not run out of memory half way: only
\* the cache's own allocation can fail (model_reserve before the loops).
THEOREM ReservedNeverStops == GenerateSpec => []ReservedRunsOn
  <1>1. GenerateInv => ReservedRunsOn
    BY DEF GenerateInv, ExitInv, ReservedRunsOn
  <1> QED BY <1>1, GenerateInductive, PTL
=============================================================================
