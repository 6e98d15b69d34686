--------------------------- MODULE BenchDriverProofs ---------------------------
(***************************************************************************)
(* Proofs about the timed driver, for every list of configurations, every  *)
(* fixture, any counts of samples and warmup iterations, and whichever     *)
(* allocations fail.                                                       *)
(*                                                                         *)
(* DriverInv says where the program is in its list (ListInv), what it has  *)
(* recorded (RecordInv) and sampled (SampleInv) so far, and what the       *)
(* engine is in (CacheInv, PathInv).  The argument about a cached decode:  *)
(* the no-cache reference was accepted, so the ids are tokens of the       *)
(* model; the check's own cached step agreed with it, so that the cache    *)
(* then held exactly those ids, within its capacity and the reservation;   *)
(* and restoring the length leaves all of them but the last.  From there   *)
(* the step cannot be refused, and leaves the cache ready to be restored.  *)
(*                                                                         *)
(* TimesInv relates the slot to the record made of it.  The argument about *)
(* a record: the samples have an order; in it the places of those below    *)
(* the median come before the middle, and of those above it after the      *)
(* middle; and n times the sum of the squared distances of all pairs is    *)
(* twice that of the distances from the mean, each n times as long.        *)
(***************************************************************************)
EXTENDS BenchDriver, SequenceLemmas

-----------------------------------------------------------------------------
(* The engine's calls: what each of them keeps and answers.                *)

\* What every call of the engine keeps.
CacheInv ==
  /\ path \in Paths /\ capacity \in 0 .. NCtx
  /\ held \in Seq(Tokens \cup {Unknown}) /\ Len(held) <= capacity
  /\ room \in Nat

\* A reservation that succeeds leaves room for what was asked.
LEMMA RoomGrows ==
  ASSUME NEW T \in Nat, NEW r \in Nat, NEW mem \in BOOLEAN
  PROVE  /\ RoomAfter(T, r, mem) \in Nat
         /\ ReserveStatus(T, r, mem) \in {"OK", "NOMEM"}
         /\ ReserveStatus(T, r, mem) = "OK" => RoomAfter(T, r, mem) >= T
         /\ T # 0 /\ T <= r => ReserveStatus(T, r, mem) = "OK" /\ RoomAfter(T, r, mem) = r
  BY DEF RoomAfter, ReserveStatus, AtLeastOne

LEMMA SwitchKeeps ==
  ASSUME CacheInv, NEW p \in Paths, SetDecodePath(p)
  PROVE  CacheInv' /\ path' = p /\ UNCHANGED <<capacity, held, room>>
  BY DEF CacheInv, SetDecodePath

LEMMA ReserveKeeps ==
  ASSUME CacheInv, NEW T \in Nat, NEW mem \in BOOLEAN, Reserve(T, mem)
  PROVE  CacheInv' /\ UNCHANGED <<path, capacity, held>>
  BY RoomGrows DEF CacheInv, Reserve, Grow

\* The first reservation of a cache.
LEMMA KvReserveKeeps ==
  ASSUME CacheInv, capacity = 0, NEW n \in Counts, NEW mem \in BOOLEAN, KvReserve(n, mem)
  PROVE  CacheInv' /\ (last'.status = "OK" => capacity' = n)
  <1> DEFINE status == KvReserveStatus(n, capacity, mem)
  <1>1. AsInt(n) = n /\ n \in Nat /\ NCtx \in Nat
    <2>1. n \in Nat /\ 2 * n < IntModulus /\ IntModulus \in Nat /\ IntModulus > 0
      BY ApiAssumption DEF Counts
    <2>2. n % IntModulus = n
      BY <2>1
    <2> QED BY <2>1, <2>2, ApiAssumption DEF AsInt
  <1>2. status = "OK" => n \in 1 .. NCtx
    BY <1>1 DEF KvReserveStatus
  <1>3. /\ last'.status = status /\ path' = path /\ room' = room
        /\ capacity' = IF status = "OK" THEN n ELSE capacity
        /\ held' = IF status = "OK" THEN <<>> ELSE held
    BY <1>1 DEF KvReserve, KvReserveReplaces, Reply
  <1> HIDE DEF status
  <1>4. <<>> \in Seq(Tokens \cup {Unknown}) /\ Len(<<>>) = 0
    BY EmptySeq
  <1> QED BY <1>1, <1>2, <1>3, <1>4 DEF CacheInv

\* model_kv_set_length; a length that is held is cut to.
LEMMA SetLengthKeeps ==
  ASSUME CacheInv, NEW n \in Int, KvSetLength(n)
  PROVE  /\ CacheInv' /\ UNCHANGED <<path, capacity, room>>
         /\ n \in 0 .. Len(held) /\ capacity # 0 => held' = SubSeq(held, 1, n)
  <1> DEFINE status == KvSetLengthStatus(n, capacity)
             cut == [i \in 1 .. n |-> IF i <= Len(held) THEN held[i] ELSE Unknown]
  <1>1. /\ held' = IF status # "OK" THEN held ELSE cut
        /\ UNCHANGED <<path, capacity, room>>
    BY DEF KvSetLength
  <1>2. status = "OK" <=> capacity # 0 /\ n \in 0 .. capacity
    BY DEF KvSetLengthStatus, CacheInv
  <1>3. ASSUME n \in Nat PROVE cut \in Seq(Tokens \cup {Unknown}) /\ Len(cut) = n
    <2>1. Len(held) \in Nat /\ \A i \in 1 .. Len(held) : held[i] \in Tokens \cup {Unknown}
      BY ElementOfSeq, LenProperties DEF CacheInv
    <2>2. cut \in [1 .. n -> Tokens \cup {Unknown}]
      BY <1>3, <2>1
    <2> HIDE DEF cut
    <2> QED BY <1>3, <2>2, FunctionIsSeq
  <1>4. ASSUME n \in 0 .. Len(held), capacity # 0 PROVE held' = SubSeq(held, 1, n)
    <2>1. Len(held) \in Nat /\ n \in Nat /\ status = "OK"
      BY <1>2, <1>4, LenProperties DEF CacheInv
    <2>2. /\ SubSeq(held, 1, n) \in Seq(Tokens \cup {Unknown}) /\ Len(SubSeq(held, 1, n)) = n
          /\ \A i \in 1 .. n : SubSeq(held, 1, n)[i] = held[i]
      BY <1>4, PrefixProperties DEF CacheInv
    <2>3. \A i \in 1 .. n : cut[i] = held[i]
      BY <1>4, <2>1
    <2> HIDE DEF cut
    <2> QED BY <1>1, <1>3, <2>1, <2>2, <2>3, SeqEqual
  <1> HIDE DEF cut, status
  <1>5. CacheInv'
    BY <1>1, <1>2, <1>3, ApiAssumption DEF CacheInv
  <1> QED BY <1>1, <1>4, <1>5

\* A prefix and the element after it.
LEMMA ButlastAppend ==
  ASSUME NEW S, NEW s \in Seq(S), Len(s) \in Nat \ {0}
  PROVE  /\ Butlast(s) \in Seq(S) /\ Len(Butlast(s)) = Len(s) - 1
         /\ Append(Butlast(s), LastOf(s)) = s /\ Butlast(s) = SubSeq(s, 1, Len(s) - 1)
  <1> DEFINE n == Len(s) - 1
  <1>1. n \in Nat /\ n + 1 <= Len(s) /\ n \in 0 .. Len(s) /\ n + 1 = Len(s)
    OBVIOUS
  <1>2. SubSeq(s, 1, n) \in Seq(S) /\ Len(SubSeq(s, 1, n)) = n
    BY <1>1, PrefixProperties
  <1>3. Append(SubSeq(s, 1, n), s[n + 1]) = SubSeq(s, 1, n + 1)
    BY <1>1, PrefixNext
  <1>4. SubSeq(s, 1, Len(s)) = s
    BY SubSeqFull
  <1> QED BY <1>1, <1>2, <1>3, <1>4 DEF Butlast, LastOf

\* The tokens of an array that a pass accepts.
LEMMA AcceptedContext ==
  ASSUME NEW s \in Seq(Tokens \cup {BadToken}), NEW store \in BOOLEAN, NEW cap \in Nat
  PROVE  BlocksStatus(s, store, cap) = "OK" <=>
           s \in Contexts /\ (store => cap # 0 /\ Len(s) <= cap)
  <1>1. Len(s) \in Nat /\ \A t \in 1 .. Len(s) : s[t] \in Tokens \cup {BadToken}
    BY LenProperties, ElementOfSeq
  <1>2. ASSUME s \in Contexts
        PROVE  Len(s) \in 1 .. NCtx /\ \A t \in 1 .. Len(s) : s[t] \in Tokens
    BY <1>1, <1>2, ElementOfSeq DEF Contexts
  <1>3. ASSUME Len(s) \in 1 .. NCtx, \A t \in 1 .. Len(s) : s[t] \in Tokens
        PROVE  s \in Contexts
    BY <1>3, SeqOfElements DEF Contexts
  <1>4. BlocksStatus(s, store, cap) = "OK" <=>
          /\ Len(s) \in 1 .. NCtx /\ \A t \in 1 .. Len(s) : s[t] \in Tokens
          /\ store => cap # 0 /\ Len(s) <= cap
    BY <1>1, ApiAssumption DEF BlocksStatus
  <1> QED BY <1>2, <1>3, <1>4

LEMMA PrefillKeeps ==
  ASSUME CacheInv, NEW s \in Seq(Tokens \cup {BadToken}), NEW mem \in BOOLEAN, Prefill(s, TRUE, mem)
  PROVE  /\ CacheInv' /\ UNCHANGED <<path, capacity>>
         /\ s \in Contexts /\ room >= Len(s) /\ (path = "cache" => Len(s) <= capacity)
              => last' = [status |-> "OK", logits |-> [t \in 1 .. Len(s) |-> Take(s, t)]]
  <1> DEFINE store  == path = "cache"
             late   == BlocksStatus(s, store, capacity)
             status == PassStatus("OK", Len(s), mem, late)
             rows   == [t \in 1 .. Len(s) |-> Take(s, t)]
  <1>1. /\ last' = [status |-> status, logits |-> IF status = "OK" THEN rows ELSE <<>>]
        /\ held' = IF status = "OK" /\ store THEN s ELSE held
        /\ room' = RoomAfter(Len(s), room, mem)
        /\ path' = path /\ capacity' = capacity
    BY DEF Prefill, Reply, Grow, BlocksEarlyStatus
  <1>2. Len(s) \in Nat /\ room \in Nat /\ capacity \in Nat /\ NCtx \in Nat
    BY LenProperties, ApiAssumption DEF CacheInv
  <1>3. late = "OK" <=> s \in Contexts /\ (store => capacity # 0 /\ Len(s) <= capacity)
    <2>1. store \in BOOLEAN
      OBVIOUS
    <2> HIDE DEF store
    <2> QED BY <1>2, <2>1, AcceptedContext
  <1>4. status = IF ReserveStatus(Len(s), room, mem) # "OK" THEN "NOMEM" ELSE late
    BY DEF PassStatus
  <1>5. room' \in Nat /\ (Len(s) # 0 /\ Len(s) <= room => ReserveStatus(Len(s), room, mem) = "OK")
    BY <1>1, <1>2, RoomGrows
  <1>6. s \in Contexts => s \in Seq(Tokens \cup {Unknown}) /\ Len(s) # 0
    BY SeqMonotonic DEF Contexts
  <1> HIDE DEF late, status, rows
  <1>7. CacheInv'
    BY <1>1, <1>2, <1>3, <1>4, <1>5, <1>6 DEF CacheInv
  <1>8. ASSUME s \in Contexts, room >= Len(s), path = "cache" => Len(s) <= capacity
        PROVE  status = "OK"
    <2>1. ReserveStatus(Len(s), room, mem) = "OK"
      BY <1>2, <1>5, <1>6, <1>8
    <2>2. late = "OK"
      BY <1>2, <1>3, <1>6, <1>8
    <2> QED BY <1>4, <2>1, <2>2
  <1> QED BY <1>1, <1>7, <1>8 DEF rows

\* model_decode_step_cached.
LEMMA DecodeCachedKeeps ==
  ASSUME CacheInv, NEW s \in Seq(Tokens \cup {BadToken}), NEW mem \in BOOLEAN,
         DecodeStepCached(s, TRUE, mem)
  PROVE  /\ CacheInv' /\ UNCHANGED <<path, capacity>>
         /\ last'.status = "OK" =>
              last'.logits = <<held'>> /\ Len(s) <= capacity /\ room' >= Len(s)
         /\ s \in Contexts /\ room >= Len(s) /\ Len(s) <= capacity /\ held = Butlast(s)
              => last' = [status |-> "OK", logits |-> <<s>>] /\ held' = s /\ room' = room
  <1> DEFINE early  == CachedEarlyStatus(s, TRUE, capacity, Len(held))
             late   == IF early = "OK" THEN CachedStatus(s) ELSE early
             status == PassStatus(early, Len(s), mem, late)
             longer == Append(held, LastOf(s))
  <1>1. /\ last' = [status |-> status, logits |-> IF status = "OK" THEN <<longer>> ELSE <<>>]
        /\ held' = IF status = "OK" THEN longer ELSE held
        /\ room' = IF early = "OK" THEN RoomAfter(Len(s), room, mem) ELSE room
        /\ path' = path /\ capacity' = capacity
    BY DEF DecodeStepCached, Reply, Grow
  <1>2. Len(s) \in Nat /\ room \in Nat /\ capacity \in Nat /\ NCtx \in Nat /\ Len(held) \in Nat
    BY LenProperties, ApiAssumption DEF CacheInv
  <1>3. early = "OK" <=> /\ Len(s) \in 1 .. NCtx /\ capacity # 0 /\ Len(s) <= capacity
                         /\ Len(held) = Len(s) - 1
    BY <1>2 DEF CachedEarlyStatus
  <1> HIDE DEF early
  <1>4. CachedStatus(s) = "OK" <=> LastOf(s) \in Tokens
    BY DEF CachedStatus
  <1>5. status = "OK" <=> /\ early = "OK" /\ ReserveStatus(Len(s), room, mem) = "OK"
                          /\ LastOf(s) \in Tokens
    BY <1>4 DEF PassStatus
  <1> HIDE DEF status
  <1>6. /\ RoomAfter(Len(s), room, mem) \in Nat
        /\ ReserveStatus(Len(s), room, mem) = "OK" => RoomAfter(Len(s), room, mem) >= Len(s)
        /\ Len(s) # 0 /\ Len(s) <= room =>
             ReserveStatus(Len(s), room, mem) = "OK" /\ RoomAfter(Len(s), room, mem) = room
    BY <1>2, RoomGrows
  <1>7. status = "OK" => longer \in Seq(Tokens \cup {Unknown}) /\ Len(longer) = Len(s)
    <2>1. held \in Seq(Tokens \cup {Unknown})
      BY DEF CacheInv
    <2>2. LastOf(s) \in Tokens => longer \in Seq(Tokens \cup {Unknown}) /\ Len(longer) = Len(held) + 1
      BY <2>1, AppendProperties
    <2> QED BY <1>2, <1>3, <1>5, <2>2
  <1>8. CacheInv'
    <2> HIDE DEF longer
    <2> QED BY <1>1, <1>2, <1>3, <1>5, <1>6, <1>7 DEF CacheInv
  <1>9. ASSUME s \in Contexts, room >= Len(s), Len(s) <= capacity, held = Butlast(s)
        PROVE  status = "OK" /\ longer = s /\ room' = room
    <2>1. Len(s) \in 1 .. NCtx /\ s \in Seq(Tokens)
      BY <1>9 DEF Contexts
    <2>2. Len(held) = Len(s) - 1 /\ longer = s
      BY <1>9, <2>1, ButlastAppend
    <2>3. LastOf(s) \in Tokens
      BY <2>1, ElementOfSeq DEF LastOf
    <2>4. early = "OK" /\ Len(s) # 0 /\ Len(s) <= room
      BY <1>2, <1>3, <1>9, <2>1, <2>2
    <2> QED BY <1>1, <1>5, <1>6, <2>2, <2>3, <2>4
  <1> HIDE DEF longer
  <1>10. last'.status = "OK" => last'.logits = <<held'>> /\ Len(s) <= capacity /\ room' >= Len(s)
    BY <1>1, <1>3, <1>5, <1>6
  <1> QED BY <1>1, <1>8, <1>9, <1>10

\* model_decode_step on the no-cache path.
LEMMA DecodeUncachedKeeps ==
  ASSUME CacheInv, NEW s \in Seq(Tokens \cup {BadToken}), NEW mem \in BOOLEAN,
         DecodeStepUncached(s, TRUE, mem)
  PROVE  /\ CacheInv' /\ UNCHANGED <<path, capacity, held>>
         /\ last'.status = "OK" => s \in Contexts /\ last'.logits = <<s>>
         /\ s \in Contexts /\ room >= Len(s) => last' = [status |-> "OK", logits |-> <<s>>]
  <1> DEFINE late   == BlocksStatus(s, FALSE, capacity)
             status == PassStatus("OK", Len(s), mem, late)
  <1>1. /\ last' = [status |-> status, logits |-> IF status = "OK" THEN <<s>> ELSE <<>>]
        /\ held' = held /\ room' = RoomAfter(Len(s), room, mem)
        /\ path' = path /\ capacity' = capacity
    BY DEF DecodeStepUncached, Reply, Grow, BlocksEarlyStatus
  <1>2. Len(s) \in Nat /\ room \in Nat /\ capacity \in Nat
    BY LenProperties, ApiAssumption DEF CacheInv
  <1>3. late = "OK" <=> s \in Contexts
    <2>1. FALSE \in BOOLEAN
      OBVIOUS
    <2> QED BY <1>2, <2>1, AcceptedContext
  <1>4. status = IF ReserveStatus(Len(s), room, mem) # "OK" THEN "NOMEM" ELSE late
    BY DEF PassStatus
  <1>5. room' \in Nat /\ (Len(s) # 0 /\ Len(s) <= room => ReserveStatus(Len(s), room, mem) = "OK")
    BY <1>1, <1>2, RoomGrows
  <1>6. s \in Contexts => Len(s) # 0
    BY DEF Contexts
  <1> HIDE DEF late, status
  <1>7. CacheInv'
    BY <1>1, <1>5 DEF CacheInv
  <1> QED BY <1>1, <1>2, <1>3, <1>4, <1>5, <1>6, <1>7

-----------------------------------------------------------------------------
(* The program's invariant.                                                *)

\* The places of the probe, of the check and of the timed pass, and those in a configuration.
Probing  == {"probe", "probe_fill", "probe_restore", "probe_call"}
Checking == {"ref_path", "reference", "fill_path", "fill", "fill_restore", "check", "restore"}
Timing   == {"next", "time", "record"} \cup Checking
Within   == (Probing \cup Timing) \ {"probe", "next", "record"}

\* The list of configurations, and where the program is in it.
ListInv ==
  /\ opts \in Options /\ cfgs \in Seq(Cfgs) /\ ci \in 1 .. Len(cfgs) + 1
  /\ pc \in {"args", "load", "reserve", "kv", "logits_ref", "exit"} \cup Probing \cup Timing
  /\ pc = "args" => cfgs = <<>>
  /\ pc \in {"args", "load", "reserve", "kv"} => capacity = 0
  /\ pc \in {"args", "load", "reserve", "kv", "logits_ref"} => ci = 1
  /\ pc \in {"reserve", "kv", "logits_ref"} \cup Probing \cup Timing => AllServed
  /\ pc = "kv" => AnyCache
  /\ pc \in {"logits_ref"} \cup Probing \cup Timing /\ AnyCache => capacity = MaxNeeded
  /\ pc \in Within => ci \in Forward
  /\ pc = "record" => ci \in DOMAIN cfgs

\* One record for each configuration that is done.
RecordInv ==
  /\ SomeSeq(recs) /\ \A i \in DOMAIN recs : recs[i].cfg = cfgs[i] /\ recs[i].stats.n = Samples
  /\ code \in 0 .. 2
  /\ pc \notin Timing \cup {"exit"} => recs = <<>>
  /\ pc \in Timing => Len(recs) = ci - 1 /\ opts.probe = FALSE
  /\ pc = "exit" => Len(recs) <= Len(cfgs)
  /\ pc = "exit" /\ code = 0 => IF opts.probe THEN recs = <<>> ELSE Len(recs) = Len(cfgs)

\* The samples that the iterations so far have left in the slot.
Taken == IF it <= Warmup THEN 0 ELSE it - Warmup

SampleInv ==
  /\ it \in 0 .. Warmup + Samples /\ SomeSeq(times) /\ Len(times) <= Samples
  /\ pc \in {"time"} \cup Checking => it < Warmup + Samples /\ Len(times) = Taken
  /\ pc = "record" => Len(times) = Samples
  /\ pc = "next" /\ recs # <<>> => Len(times) = Samples

\* The cached step of this configuration cannot fail.
Ready == Ids \in Contexts /\ Len(Ids) <= capacity /\ room >= Len(Ids)

\* The decode path, the reference and the cache while a configuration is checked and timed.
PathInv ==
  /\ pc = "reference" => path = "nocache"
  /\ pc \in {"fill", "fill_restore", "check", "restore"} => path = "cache"
  /\ pc = "time" => path = PathOf(Here)
  /\ pc \in Checking => CachedDecode
  /\ pc \in {"fill_path", "fill", "fill_restore", "check"} => ref = <<Ids>> /\ Ids \in Contexts
  /\ pc = "restore" => held = Ids /\ Ready
  /\ pc = "time" /\ CachedDecode => held = Butlast(Ids) /\ Ready

\* The inductive invariant.
DriverInv == CacheInv /\ ListInv /\ RecordInv /\ SampleInv /\ PathInv

\* The numbers of iterations.
LEMMA SampleBounds ==
  ASSUME opts \in Options
  PROVE  /\ Samples \in Nat /\ Samples >= MinSamples /\ MinSamples > 0 /\ Samples <= MaxSamples
         /\ (Samples >= opts.samples \/ Samples = MaxSamples) /\ Warmup \in Nat
  <1>1. opts.samples \in Nat /\ opts.warmup \in Nat
    BY DriverAssumption DEF Options
  <1>2. MinSamples \in Nat /\ MinWarmup \in Nat /\ MinSamples > 0
    BY ProtocolAssumption
  <1>3. MaxSamples \in Nat /\ MinSamples <= MaxSamples
    BY DriverAssumption
  <1> QED BY <1>1, <1>2, <1>3 DEF Samples, Warmup

\* A configuration that has a row: its ids, as many as it names.
LEMMA ServedRow ==
  ASSUME opts \in Options, cfgs \in Seq(Cfgs), AllServed, ci \in Forward
  PROVE  /\ ci \in DOMAIN cfgs /\ Here.tokens \in Counts /\ Here.kind \in {"prefill", "decode"}
         /\ Here.cache \in BOOLEAN
         /\ Ids \in Seq(Tokens \cup {BadToken}) /\ Len(Ids) = Here.tokens
  <1>1. ci \in DOMAIN cfgs /\ Here.kind # "gemm" /\ Here \in Cfgs
    <2>1. ci \in 1 .. Len(cfgs) /\ Here.kind # "gemm"
      BY LenProperties DEF Forward, Here
    <2> QED BY <2>1, ElementOfSeq, LenProperties DEF Here
  <1>2. Here.tokens \in Counts /\ Here.kind \in {"prefill", "decode"} /\ Here.cache \in BOOLEAN
    BY <1>1 DEF Cfgs
  <1> DEFINE n == Here.tokens
             R == RowsFor(n)
             least == CHOOSE i \in R : \A j \in R : i <= j
  <1>3. n \in Nat
    BY <1>2 DEF Counts
  <1>4. opts.fixture \in Seq([target : Nat, ids : Seq(Tokens \cup {BadToken})])
    BY DriverAssumption DEF Options
  <1>5. R # {}
    BY DEF AllServed, Here
  <1>6. \A i \in R : i \in 1 .. Len(opts.fixture) /\ Len(opts.fixture[i].ids) >= n
    BY <1>4, LenProperties DEF RowsFor
  <1>7. R \in SUBSET Nat
    BY <1>4, <1>6, LenProperties
  <1> HIDE DEF R, n
  <1>8. least \in R
    <2>1. \E i \in R : \A j \in R : i <= j
      BY <1>5, <1>7, LeastElement
    <2> QED BY <2>1
  <1>9. Ids = Take(opts.fixture[least].ids, n)
    BY DEF Ids, RowFor, R, n
  <1> HIDE DEF least
  <1>10. opts.fixture[least].ids \in Seq(Tokens \cup {BadToken}) /\ n \in 0 .. Len(opts.fixture[least].ids)
    <2>1. least \in 1 .. Len(opts.fixture) /\ Len(opts.fixture[least].ids) >= n
      BY <1>6, <1>8
    <2>2. opts.fixture[least] \in [target : Nat, ids : Seq(Tokens \cup {BadToken})]
      BY <1>4, <2>1, ElementOfSeq
    <2>3. opts.fixture[least].ids \in Seq(Tokens \cup {BadToken})
      BY <2>2
    <2> QED BY <1>3, <2>1, <2>3, LenProperties
  <1>11. Ids \in Seq(Tokens \cup {BadToken}) /\ Len(Ids) = n
    BY <1>9, <1>10, PrefixProperties DEF Take
  <1> QED BY <1>1, <1>2, <1>11 DEF n

\* The longest configuration.
LEMMA LongestNeeded ==
  ASSUME cfgs \in Seq(Cfgs)
  PROVE  MaxNeeded \in Counts /\ \A i \in Forward : cfgs[i].tokens <= MaxNeeded
  <1>1. \A i \in Forward : cfgs[i].tokens \in Counts
    <2>1. ASSUME NEW i \in Forward PROVE cfgs[i].tokens \in Counts
      <3>1. cfgs[i] \in Cfgs /\ cfgs[i].kind # "gemm"
        BY ElementOfSeq, LenProperties DEF Forward
      <3> QED BY <3>1 DEF Cfgs
    <2> QED BY <2>1
  <1>2. CASE Forward = {}
    BY <1>2, ApiAssumption DEF MaxNeeded, Counts
  <1>3. CASE Forward # {}
    <2> DEFINE T == { cfgs[i].tokens : i \in Forward }
    <2>1. T # {} /\ T \in SUBSET (0 .. IntModulus) /\ IntModulus \in Nat
      BY <1>1, <1>3, ApiAssumption DEF Counts
    <2>2. \E n \in T : \A m \in T : m <= n
      <3> HIDE DEF T
      <3> QED BY <2>1, MaxProperties
    <2>3. \E n \in T : \A i \in Forward : cfgs[i].tokens <= n
      BY <2>2
    <2>4. MaxNeeded = CHOOSE n \in T : \A i \in Forward : cfgs[i].tokens <= n
      BY <1>3 DEF MaxNeeded
    <2>5. T \subseteq Counts
      BY <1>1
    <2> QED BY <2>3, <2>4, <2>5
  <1> QED BY <1>2, <1>3

\* The list does not change after the arguments.
LEMMA SameList ==
  ASSUME UNCHANGED <<opts, cfgs>>
  PROVE  /\ Forward' = Forward /\ AllServed' = AllServed /\ AnyCache' = AnyCache
         /\ MaxNeeded' = MaxNeeded /\ Samples' = Samples /\ Warmup' = Warmup
  BY DEF Forward, AllServed, AnyCache, MaxNeeded, Samples, Warmup, RowsFor

\* Nor does the configuration change within its iterations.
LEMMA SameConfig ==
  ASSUME UNCHANGED <<opts, cfgs, ci>>
  PROVE  Here' = Here /\ Ids' = Ids /\ CachedDecode' = CachedDecode
  BY DEF Here, Ids, CachedDecode, RowFor, RowsFor

\* The program gives up.
LEMMA ExitLists ==
  ASSUME DriverInv, UNCHANGED <<opts, cfgs, ci, recs>>, pc # "exit", Exit(1) \/ Exit(2)
  PROVE  ListInv' /\ RecordInv' /\ PathInv'
  <1>1. pc' = "exit" /\ code' \in {1, 2}
    BY DEF Exit
  <1>2. ListInv'
    BY <1>1 DEF DriverInv, ListInv, Probing, Timing, Checking, Within
  <1>3. RecordInv'
    <2>1. Len(recs) <= Len(cfgs)
      <3>1. CASE pc \in Timing
        BY <3>1, LenProperties DEF DriverInv, ListInv, RecordInv
      <3>2. CASE pc \notin Timing
        <4>1. recs = <<>> /\ Len(cfgs) \in Nat
          BY <3>2, LenProperties DEF DriverInv, ListInv, RecordInv
        <4> QED BY <4>1
      <3> QED BY <3>1, <3>2
    <2>2. Samples' = Samples
      BY SameList
    <2>3. /\ SomeSeq(recs')
          /\ \A i \in DOMAIN recs' : recs'[i].cfg = cfgs'[i] /\ recs'[i].stats.n = Samples'
      BY <2>2 DEF DriverInv, RecordInv
    <2> QED BY <1>1, <2>1, <2>3 DEF RecordInv, Timing, Checking
  <1>4. PathInv'
    BY <1>1 DEF PathInv, Checking
  <1> QED BY <1>2, <1>3, <1>4

LEMMA ExitKeeps ==
  ASSUME DriverInv, CacheInv', UNCHANGED <<opts, cfgs, ci, it, times, recs>>,
         pc # "exit", Exit(1) \/ Exit(2)
  PROVE  DriverInv'
  <1>1. SampleInv'
    BY SameList DEF Exit, DriverInv, SampleInv, Checking
  <1> QED BY <1>1, ExitLists DEF DriverInv

\* A step within one configuration, of the probe or of the timed pass.
LEMMA MoveKeeps ==
  ASSUME DriverInv, UNCHANGED <<opts, cfgs, ci, it, times, recs, code, capacity>>,
         \/ pc \in Probing /\ pc' \in Probing
         \/ pc \in {"time"} \cup Checking /\ pc' \in {"time"} \cup Checking,
         pc' \in Within => ci \in Forward
  PROVE  ListInv' /\ RecordInv' /\ SampleInv'
  <1>1. ListInv'
    BY SameList DEF DriverInv, ListInv, Probing, Timing, Checking, Within
  <1>2. RecordInv'
    <2>1. Samples' = Samples
      BY SameList
    <2> QED BY <2>1 DEF DriverInv, RecordInv, Probing, Timing, Checking
  <1>3. SampleInv'
    <2>1. Samples' = Samples /\ Warmup' = Warmup /\ Taken' = Taken
      BY SameList DEF Taken
    <2> QED BY <2>1 DEF DriverInv, SampleInv, Probing, Checking
  <1> QED BY <1>1, <1>2, <1>3

-----------------------------------------------------------------------------
(* From the arguments to the probe.                                        *)

\* A prefix that Take gives, of any length.
LEMMA ButlastType ==
  ASSUME NEW S, NEW s \in Seq(S)
  PROVE  Butlast(s) \in Seq(S)
  <1>1. CASE Len(s) = 0
    <2>1. Len(s) - 1 < 1
      BY <1>1
    <2>2. Butlast(s) = <<>>
      BY <2>1, SubSeqEmpty DEF Butlast
    <2> QED BY <2>2, EmptySeq
  <1>2. CASE Len(s) # 0
    BY <1>2, ButlastAppend, LenProperties
  <1> QED BY <1>1, <1>2

\* The default list is a list of configurations.
LEMMA DefaultListType ==
  ASSUME opts \in Options
  PROVE  DefaultList \in Seq(Cfgs)
  <1> DEFINE A == [i \in DOMAIN opts.lengths |-> Config("prefill", opts.lengths[i], opts.prefillCache)]
             B == [i \in DOMAIN opts.contexts |-> Config("decode", opts.contexts[i], opts.decodeCache)]
  <1>1. /\ opts.lengths \in Seq(Counts) /\ opts.contexts \in Seq(Counts)
        /\ opts.prefillCache \in BOOLEAN /\ opts.decodeCache \in BOOLEAN /\ MaxRecords \in Nat
    BY DriverAssumption DEF Options
  <1>2. A \in Seq(Cfgs)
    <2>1. Len(opts.lengths) \in Nat /\ DOMAIN opts.lengths = 1 .. Len(opts.lengths)
          /\ \A i \in 1 .. Len(opts.lengths) : opts.lengths[i] \in Counts
      BY <1>1, LenProperties, ElementOfSeq
    <2>2. \A i \in 1 .. Len(opts.lengths) :
            Config("prefill", opts.lengths[i], opts.prefillCache) \in Cfgs
      BY <1>1, <2>1 DEF Config, Cfgs
    <2>3. A \in [1 .. Len(opts.lengths) -> Cfgs]
      BY <2>1, <2>2
    <2> QED BY <2>1, <2>3, FunctionIsSeq
  <1>3. B \in Seq(Cfgs)
    <2>1. Len(opts.contexts) \in Nat /\ DOMAIN opts.contexts = 1 .. Len(opts.contexts)
          /\ \A i \in 1 .. Len(opts.contexts) : opts.contexts[i] \in Counts
      BY <1>1, LenProperties, ElementOfSeq
    <2>2. \A i \in 1 .. Len(opts.contexts) :
            Config("decode", opts.contexts[i], opts.decodeCache) \in Cfgs
      BY <1>1, <2>1 DEF Config, Cfgs
    <2>3. B \in [1 .. Len(opts.contexts) -> Cfgs]
      BY <2>1, <2>2
    <2> QED BY <2>1, <2>3, FunctionIsSeq
  <1> DEFINE C == A \o B
             D == UpTo(C, MaxRecords)
             G == << Gemm(768), Gemm(3072) >>
  <1>4. DefaultList = D \o G
    BY DEF DefaultList
  <1> HIDE DEF A, B
  <1>5. C \in Seq(Cfgs) /\ Len(C) \in Nat
    BY <1>2, <1>3, ConcatProperties, LenProperties
  <1> HIDE DEF C
  <1>6. D \in Seq(Cfgs)
    <2>1. CASE Len(C) <= MaxRecords
      BY <1>5, <2>1 DEF UpTo
    <2>2. CASE ~(Len(C) <= MaxRecords)
      <3>1. MaxRecords \in 0 .. Len(C) /\ D = SubSeq(C, 1, MaxRecords)
        BY <1>1, <1>5, <2>2 DEF UpTo, Take
      <3> QED BY <1>5, <3>1, PrefixProperties
    <2> QED BY <2>1, <2>2
  <1>7. G \in Seq(Cfgs)
    <2>1. Gemm(768) \in Cfgs /\ Gemm(3072) \in Cfgs
      BY DEF Gemm, Config, Cfgs
    <2> QED BY <2>1
  <1> HIDE DEF D, G
  <1> QED BY <1>4, <1>6, <1>7, ConcatProperties

\* Each step from the start to the probe keeps the invariant.
LEMMA StartInv == DriverInit => DriverInv
  <1> SUFFICES ASSUME DriverInit PROVE DriverInv
    OBVIOUS
  <1>0. <<>> \in Seq(Cfgs) /\ <<>> \in Seq(Tokens \cup {Unknown}) /\ Len(<<>>) = 0 /\ opts \in Options
    BY EmptySeq DEF DriverInit
  <1>1. CacheInv
    BY <1>0, ApiAssumption DEF DriverInit, ContractInit, CacheInv, Paths
  <1>2. ListInv
    BY <1>0 DEF DriverInit, ContractInit, ListInv, Probing, Timing, Checking, Within
  <1>3. RecordInv
    <2>1. recs = <<>> /\ DOMAIN recs = {} /\ pc = "args" /\ code = 0
      BY DEF DriverInit
    <2>2. SomeSeq(recs)
      BY <2>1, EmptySomeSeq
    <2> QED BY <2>1, <2>2 DEF RecordInv, Timing, Checking
  <1>4. SampleInv
    <2>1. Samples \in Nat /\ Warmup \in Nat
      BY <1>0, SampleBounds
    <2>2. times = <<>> /\ it = 0 /\ pc = "args" /\ SomeSeq(times)
      BY EmptySomeSeq DEF DriverInit
    <2> QED BY <1>0, <2>1, <2>2 DEF SampleInv, Checking
  <1>5. PathInv
    BY DEF DriverInit, PathInv, Checking
  <1> QED BY <1>1, <1>2, <1>3, <1>4, <1>5 DEF DriverInv

LEMMA ParseArgsKeeps ==
  ASSUME DriverInv, ParseArgs
  PROVE  DriverInv'
  <1>0. /\ UNCHANGED <<path, capacity, held, room, last>> /\ UNCHANGED <<opts, ci, it, times, ref, recs>>
        /\ opts \in Options /\ pc = "args" /\ cfgs = <<>> /\ capacity = 0 /\ ci = 1 /\ recs = <<>>
    <2>1. recs = <<>>
      BY DEF ParseArgs, DriverInv, RecordInv, Timing, Checking
    <2> QED BY <2>1 DEF ParseArgs, contractVars, DriverInv, ListInv
  <1>1. CacheInv'
    BY <1>0 DEF DriverInv, CacheInv
  <1>2. CASE opts.repeat # 1
    <2>1. Exit(2) /\ cfgs' = cfgs
      BY <1>2 DEF ParseArgs
    <2> QED BY <1>0, <1>1, <2>1, ExitKeeps
  <1>3. CASE opts.repeat = 1
    <2>1. pc' = "load" /\ code' = code
      BY <1>3 DEF ParseArgs, Goto
    <2>2. cfgs' \in Seq(Cfgs)
      <3>1. opts.configs \in Seq(Cfgs)
        BY <1>0, DriverAssumption DEF Options
      <3>2. cfgs' = opts.configs \/ cfgs' = DefaultList
        BY <1>3 DEF ParseArgs
      <3> QED BY <1>0, <3>1, <3>2, DefaultListType
    <2>3. ListInv'
      <3>1. ci' \in 1 .. Len(cfgs') + 1
        BY <1>0, <2>2, LenProperties
      <3> QED BY <1>0, <2>1, <2>2, <3>1 DEF ListInv, Probing, Timing, Checking, Within
    <2>4. RecordInv'
      BY <1>0, <2>1 DEF DriverInv, RecordInv, Timing, Checking
    <2>5. SampleInv'
      <3>1. Samples' = Samples /\ Warmup' = Warmup
        BY <1>0 DEF Samples, Warmup
      <3> QED BY <1>0, <2>1, <3>1 DEF DriverInv, SampleInv, Checking
    <2>6. PathInv'
      BY <2>1 DEF PathInv, Checking
    <2> QED BY <1>1, <2>3, <2>4, <2>5, <2>6 DEF DriverInv
  <1> QED BY <1>2, <1>3

\* The steps between the arguments and the probe.
LEMMA SetupKeeps ==
  ASSUME DriverInv, CacheInv', UNCHANGED <<opts, cfgs, ci, it, times, recs, code>>,
         pc \in {"load", "reserve", "kv", "logits_ref"}, ListInv',
         pc' \in {"reserve", "kv", "logits_ref", "probe"}
  PROVE  DriverInv'
  <1>1. RecordInv'
    <2>1. Samples' = Samples
      BY SameList
    <2> QED BY <2>1 DEF DriverInv, RecordInv, Probing, Timing, Checking
  <1>2. SampleInv'
    BY SameList DEF DriverInv, SampleInv, Checking
  <1>3. PathInv'
    BY DEF PathInv, Checking
  <1> QED BY <1>1, <1>2, <1>3 DEF DriverInv

LEMMA LoadAndServeKeeps ==
  ASSUME DriverInv, NEW ok \in BOOLEAN, LoadAndServe(ok)
  PROVE  DriverInv'
  <1>0. /\ UNCHANGED <<path, capacity, held, room, last>> /\ UNCHANGED <<opts, cfgs, ci, it, times, recs>>
        /\ pc = "load"
    BY DEF LoadAndServe, contractVars
  <1>1. CacheInv'
    BY <1>0 DEF DriverInv, CacheInv
  <1>2. CASE Exit(1)
    BY <1>0, <1>1, <1>2, ExitKeeps
  <1>3. CASE ~Exit(1)
    <2>1. pc' = "reserve" /\ code' = code /\ AllServed
      BY <1>3 DEF LoadAndServe, Unless1, Goto
    <2>2. ListInv'
      BY <1>0, <2>1, SameList DEF DriverInv, ListInv, Probing, Timing, Checking, Within
    <2> QED BY <1>0, <1>1, <2>1, <2>2, SetupKeeps
  <1> QED BY <1>2, <1>3

LEMMA ReserveScratchKeeps ==
  ASSUME DriverInv, NEW mem \in BOOLEAN, ReserveScratch(mem)
  PROVE  DriverInv'
  <1>0. /\ UNCHANGED <<opts, cfgs, ci, it, times, recs, code>> /\ pc = "reserve"
        /\ pc' = IF AnyCache THEN "kv" ELSE "logits_ref"
    BY DEF ReserveScratch, Goto
  <1>1. CacheInv' /\ capacity' = capacity
    <2>1. MaxNeeded \in Nat /\ CacheInv /\ Reserve(MaxNeeded, mem)
      BY LongestNeeded DEF DriverInv, ListInv, Counts, ReserveScratch
    <2> HIDE DEF MaxNeeded
    <2> QED BY <2>1, ReserveKeeps
  <1>2. ListInv'
    BY <1>0, <1>1, SameList DEF DriverInv, ListInv, Probing, Timing, Checking, Within
  <1> QED BY <1>0, <1>1, <1>2, SetupKeeps

LEMMA ReserveCacheKeeps ==
  ASSUME DriverInv, NEW mem \in BOOLEAN, ReserveCache(mem)
  PROVE  DriverInv'
  <1>0. /\ UNCHANGED <<opts, cfgs, ci, it, times, recs>> /\ pc = "kv"
        /\ Unless1(last'.status # "OK", "logits_ref")
    BY DEF ReserveCache
  <1>1. CacheInv' /\ (last'.status = "OK" => capacity' = MaxNeeded)
    <2>1. MaxNeeded \in Counts /\ CacheInv /\ capacity = 0 /\ KvReserve(MaxNeeded, mem)
      BY LongestNeeded DEF DriverInv, ListInv, ReserveCache
    <2> QED BY <2>1, KvReserveKeeps
  <1>2. CASE last'.status # "OK"
    <2>1. Exit(1)
      BY <1>0, <1>2 DEF Unless1
    <2> QED BY <1>0, <1>1, <2>1, ExitKeeps
  <1>3. CASE last'.status = "OK"
    <2>1. pc' = "logits_ref" /\ code' = code /\ capacity' = MaxNeeded
      BY <1>0, <1>1, <1>3 DEF Unless1, Goto
    <2>2. ListInv'
      BY <1>0, <2>1, SameList DEF DriverInv, ListInv, Probing, Timing, Checking, Within
    <2> QED BY <1>0, <1>1, <2>1, <2>2, SetupKeeps
  <1> QED BY <1>2, <1>3

LEMMA AllocateReferenceKeeps ==
  ASSUME DriverInv, NEW ok \in BOOLEAN, AllocateReference(ok)
  PROVE  DriverInv'
  <1>0. /\ UNCHANGED <<path, capacity, held, room, last>> /\ UNCHANGED <<opts, cfgs, ci, it, times, recs>>
        /\ pc = "logits_ref"
    BY DEF AllocateReference, contractVars
  <1>1. CacheInv'
    BY <1>0 DEF DriverInv, CacheInv
  <1>2. CASE Exit(1)
    BY <1>0, <1>1, <1>2, ExitKeeps
  <1>3. CASE ~Exit(1)
    <2>1. pc' = "probe" /\ code' = code
      BY <1>3 DEF AllocateReference, Unless1, Goto
    <2>2. ListInv'
      BY <1>0, <2>1, SameList DEF DriverInv, ListInv, Probing, Timing, Checking, Within
    <2> QED BY <1>0, <1>1, <2>1, <2>2, SetupKeeps
  <1> QED BY <1>2, <1>3

-----------------------------------------------------------------------------
(* The probe.                                                              *)

\* The call of a configuration, whatever it answers.
LEMMA CallKeeps ==
  ASSUME CacheInv, Ids \in Seq(Tokens \cup {BadToken}), NEW mem \in BOOLEAN, CallHere(mem)
  PROVE  CacheInv' /\ UNCHANGED <<path, capacity>>
  <1>1. CASE Prefill(Ids, TRUE, mem)
    BY <1>1, PrefillKeeps
  <1>2. CASE DecodeStepCached(Ids, TRUE, mem)
    BY <1>2, DecodeCachedKeeps
  <1>3. CASE DecodeStepUncached(Ids, TRUE, mem)
    BY <1>3, DecodeUncachedKeeps
  <1> QED BY <1>1, <1>2, <1>3 DEF CallHere, DecodeStep

LEMMA ProbeKeeps ==
  ASSUME DriverInv, CacheInv', UNCHANGED <<opts, cfgs, ci, it, times, recs, code, capacity>>,
         pc \in Probing, pc' \in Probing, ci \in Forward
  PROVE  DriverInv'
  <1>1. ListInv' /\ RecordInv' /\ SampleInv'
    BY MoveKeeps
  <1>2. PathInv'
    BY DEF PathInv, Probing, Checking
  <1> QED BY <1>1, <1>2 DEF DriverInv

LEMMA ProbeSwitchKeeps ==
  ASSUME DriverInv, ProbeSwitch
  PROVE  DriverInv'
  <1>1. /\ UNCHANGED <<opts, cfgs, ci, it, times, recs, code>> /\ ci \in Forward
        /\ pc \in Probing /\ pc' \in Probing /\ SetDecodePath(PathOf(Here))
    BY DEF ProbeSwitch, Switch, Goto, Probing
  <1>2. CacheInv' /\ capacity' = capacity
    <2>1. PathOf(Here) \in Paths /\ CacheInv
      BY DEF PathOf, Paths, DriverInv
    <2> QED BY <1>1, <2>1, SwitchKeeps
  <1> QED BY <1>1, <1>2, ProbeKeeps

\* The configuration that is probed, checked or timed: its row, and the cache it needs.
LEMMA HereServed ==
  ASSUME DriverInv, pc \in Within
  PROVE  /\ ci \in Forward /\ ci \in DOMAIN cfgs
         /\ Here.tokens \in Nat /\ Here.kind \in {"prefill", "decode"} /\ Here.cache \in BOOLEAN
         /\ Ids \in Seq(Tokens \cup {BadToken}) /\ Len(Ids) = Here.tokens
         /\ Here.cache => capacity = MaxNeeded /\ Len(Ids) <= capacity
  <1>1. /\ opts \in Options /\ cfgs \in Seq(Cfgs) /\ AllServed /\ ci \in Forward
        /\ AnyCache => capacity = MaxNeeded
    BY DEF DriverInv, ListInv, Within, Probing, Timing, Checking
  <1>2. /\ ci \in DOMAIN cfgs /\ Here.tokens \in Counts /\ Here.kind \in {"prefill", "decode"}
        /\ Here.cache \in BOOLEAN /\ Ids \in Seq(Tokens \cup {BadToken}) /\ Len(Ids) = Here.tokens
    BY <1>1, ServedRow
  <1>3. Here.tokens \in Nat
    BY <1>2 DEF Counts
  <1>4. cfgs[ci].tokens <= MaxNeeded
    BY <1>1, LongestNeeded
  <1>5. Here.cache => AnyCache
    BY <1>1 DEF Here, AnyCache
  <1> QED BY <1>1, <1>2, <1>3, <1>4, <1>5 DEF Here

LEMMA ProbeFillKeeps ==
  ASSUME DriverInv, NEW mem \in BOOLEAN, ProbeFill(mem)
  PROVE  DriverInv'
  <1>1. /\ UNCHANGED <<opts, cfgs, ci, it, times, recs, code>>
        /\ pc = "probe_fill" /\ pc' = "probe_restore" /\ Prefill(Butlast(Ids), TRUE, mem)
    BY DEF ProbeFill, Goto
  <1>2. ci \in Forward /\ Ids \in Seq(Tokens \cup {BadToken})
    BY <1>1, HereServed DEF Within, Probing
  <1>3. CacheInv' /\ capacity' = capacity
    <2>1. Butlast(Ids) \in Seq(Tokens \cup {BadToken}) /\ CacheInv
      BY <1>2, ButlastType DEF DriverInv
    <2> QED BY <1>1, <2>1, PrefillKeeps
  <1> QED BY <1>1, <1>2, <1>3, ProbeKeeps DEF Probing

LEMMA ProbeRestoreKeeps ==
  ASSUME DriverInv, Restore("probe_restore", "probe_call")
  PROVE  DriverInv'
  <1>1. /\ UNCHANGED <<opts, cfgs, ci, it, times, recs, code>>
        /\ pc = "probe_restore" /\ pc' = "probe_call" /\ KvSetLength(Here.tokens - 1)
    BY DEF Restore, Goto
  <1>2. ci \in Forward /\ Here.tokens - 1 \in Int
    BY <1>1, HereServed DEF Within, Probing
  <1>3. CacheInv' /\ capacity' = capacity
    BY <1>1, <1>2, SetLengthKeeps DEF DriverInv
  <1> QED BY <1>1, <1>2, <1>3, ProbeKeeps DEF Probing

\* The probe goes to the next configuration.
LEMMA ProbeNextKeeps ==
  ASSUME DriverInv, CacheInv', UNCHANGED <<opts, cfgs, it, times, recs, code, capacity>>,
         pc \in Probing, pc' = "probe", ci \in DOMAIN cfgs, ci' = ci + 1
  PROVE  DriverInv'
  <1>1. ListInv'
    <2>1. ci' \in 1 .. Len(cfgs) + 1
      BY LenProperties DEF DriverInv, ListInv
    <2> QED BY <2>1, SameList DEF DriverInv, ListInv, Probing, Timing, Checking, Within
  <1>2. RecordInv'
    <2>1. Samples' = Samples
      BY SameList
    <2> QED BY <2>1 DEF DriverInv, RecordInv, Probing, Timing, Checking
  <1>3. SampleInv'
    BY SameList DEF DriverInv, SampleInv, Checking
  <1>4. PathInv'
    BY DEF PathInv, Checking
  <1> QED BY <1>1, <1>2, <1>3, <1>4 DEF DriverInv

LEMMA ProbeCallKeeps ==
  ASSUME DriverInv, NEW mem \in BOOLEAN, ProbeCall(mem)
  PROVE  DriverInv'
  <1>1. /\ UNCHANGED <<opts, cfgs, it, times, recs, code>> /\ ci' = ci + 1
        /\ pc = "probe_call" /\ pc' = "probe" /\ CallHere(mem)
    BY DEF ProbeCall, Goto
  <1>2. ci \in DOMAIN cfgs /\ Ids \in Seq(Tokens \cup {BadToken})
    BY <1>1, HereServed DEF Within, Probing
  <1>3. CacheInv' /\ capacity' = capacity
    BY <1>1, <1>2, CallKeeps DEF DriverInv
  <1> QED BY <1>1, <1>2, <1>3, ProbeNextKeeps DEF Probing

LEMMA ProbeSkipKeeps ==
  ASSUME DriverInv, ProbeSkip
  PROVE  DriverInv'
  <1>1. /\ UNCHANGED <<path, capacity, held, room, opts, cfgs, it, times, recs, code>> /\ ci' = ci + 1
        /\ pc = "probe" /\ pc' = "probe" /\ ci \in DOMAIN cfgs
    BY DEF ProbeSkip, contractVars
  <1>2. CacheInv'
    BY <1>1 DEF DriverInv, CacheInv
  <1> QED BY <1>1, <1>2, ProbeNextKeeps DEF Probing

LEMMA ProbeEndKeeps ==
  ASSUME DriverInv, ProbeEnd
  PROVE  DriverInv'
  <1>1. /\ UNCHANGED <<opts, cfgs, it, times, recs>> /\ ci' = 1 /\ pc = "probe"
        /\ SetDecodePath("nocache") /\ IF opts.probe THEN Exit(0) ELSE Goto("next")
    BY DEF ProbeEnd
  <1>2. CacheInv' /\ capacity' = capacity
    BY <1>1, SwitchKeeps DEF DriverInv, Paths
  <1>3. pc' = (IF opts.probe THEN "exit" ELSE "next") /\ opts.probe \in BOOLEAN
        /\ (opts.probe => code' = 0) /\ (~opts.probe => code' = code)
    BY <1>1 DEF Exit, Goto, DriverInv, ListInv, Options
  <1>4. recs = <<>> /\ Len(recs) = 0 /\ Len(cfgs) \in Nat
    BY <1>1, LenProperties DEF DriverInv, ListInv, RecordInv, Timing, Checking
  <1>5. ListInv'
    <2>1. ci' \in 1 .. Len(cfgs') + 1
      BY <1>1, <1>4
    <2> QED BY <1>1, <1>2, <1>3, <2>1, SameList
            DEF DriverInv, ListInv, Probing, Timing, Checking, Within
  <1>6. RecordInv'
    <2>1. Samples' = Samples
      BY <1>1, SameList
    <2> QED BY <1>1, <1>3, <1>4, <2>1 DEF DriverInv, RecordInv, Timing, Checking
  <1>7. SampleInv'
    BY <1>1, <1>3, <1>4, SameList DEF DriverInv, SampleInv, Checking
  <1>8. PathInv'
    BY <1>3 DEF PathInv, Checking
  <1> QED BY <1>2, <1>5, <1>6, <1>7, <1>8 DEF DriverInv

-----------------------------------------------------------------------------
(* The check of a cached decode.                                           *)

\* The iterations of one configuration.
LEMMA SamplesNow ==
  ASSUME DriverInv
  PROVE  /\ Samples \in Nat /\ Samples > 0 /\ Warmup \in Nat /\ it \in Nat /\ it <= Warmup + Samples
         /\ Len(times) \in Nat
  <1>1. Samples \in Nat /\ Samples > 0 /\ Warmup \in Nat
    <2>1. opts \in Options /\ MinSamples \in Nat
      BY ProtocolAssumption DEF DriverInv, ListInv
    <2> QED BY <2>1, SampleBounds
  <1>2. SomeSeq(times) /\ it \in 0 .. Warmup + Samples
    BY DEF DriverInv, SampleInv
  <1> QED BY <1>1, <1>2, AnyAppend

LEMMA BeginConfigKeeps ==
  ASSUME DriverInv, BeginConfig
  PROVE  DriverInv'
  <1>1. /\ UNCHANGED <<opts, cfgs, ci, recs, code>> /\ it' = 0 /\ times' = <<>> /\ ci \in Forward
        /\ pc = "next" /\ pc' = (IF CachedDecode THEN "ref_path" ELSE "time")
        /\ SetDecodePath(PathOf(Here))
    BY DEF BeginConfig, Goto
  <1>2. CacheInv' /\ capacity' = capacity /\ path' = PathOf(Here)
    <2>1. PathOf(Here) \in Paths /\ CacheInv
      BY DEF PathOf, Paths, DriverInv
    <2> QED BY <1>1, <2>1, SwitchKeeps
  <1>3. ListInv'
    BY <1>1, <1>2, SameList DEF DriverInv, ListInv, Probing, Timing, Checking, Within
  <1>4. RecordInv'
    <2>1. Samples' = Samples
      BY <1>1, SameList
    <2> QED BY <1>1, <2>1 DEF DriverInv, RecordInv, Timing, Checking
  <1>5. SampleInv'
    <2>1. Samples' = Samples /\ Warmup' = Warmup /\ Samples \in Nat /\ Samples > 0 /\ Warmup \in Nat
      BY <1>1, SameList, SamplesNow
    <2>2. SomeSeq(times') /\ Len(times') = 0 /\ Taken' = 0
      BY <1>1, <2>1, EmptySomeSeq DEF Taken
    <2>3. pc' \notin {"record", "next"}
      BY <1>1
    <2> QED BY <1>1, <2>1, <2>2, <2>3 DEF SampleInv
  <1>6. PathInv'
    <2>1. Here' = Here /\ CachedDecode' = CachedDecode /\ PathOf(Here)' = PathOf(Here)
      BY <1>1, SameConfig DEF PathOf
    <2> QED BY <1>1, <1>2, <2>1 DEF PathInv, Checking
  <1> QED BY <1>2, <1>3, <1>4, <1>5, <1>6 DEF DriverInv

\* A step of the check: what is left is where the path and the cache are.
LEMMA CheckKeeps ==
  ASSUME DriverInv, CacheInv', UNCHANGED <<opts, cfgs, ci, it, times, recs, code, capacity>>,
         pc \in Checking, pc' \in {"time"} \cup Checking, PathInv'
  PROVE  DriverInv'
  <1>1. ci \in Forward
    BY HereServed DEF Within, Checking, Timing, Probing
  <1>2. ListInv' /\ RecordInv' /\ SampleInv'
    BY <1>1, MoveKeeps
  <1> QED BY <1>2 DEF DriverInv

LEMMA RefPathKeeps ==
  ASSUME DriverInv, Switch("ref_path", "nocache", "reference")
  PROVE  DriverInv'
  <1>1. /\ UNCHANGED <<opts, cfgs, ci, it, times, recs, code>>
        /\ pc = "ref_path" /\ pc' = "reference" /\ SetDecodePath("nocache")
    BY DEF Switch, Goto
  <1>2. CacheInv' /\ capacity' = capacity /\ path' = "nocache"
    BY <1>1, SwitchKeeps DEF DriverInv, Paths
  <1>3. PathInv'
    BY <1>1, <1>2, SameConfig DEF DriverInv, PathInv, Checking
  <1> QED BY <1>1, <1>2, <1>3, CheckKeeps DEF Checking

LEMMA ReferenceKeeps ==
  ASSUME DriverInv, NEW mem \in BOOLEAN, Reference(mem)
  PROVE  DriverInv'
  <1>1. /\ UNCHANGED <<opts, cfgs, ci, it, times, recs>> /\ pc = "reference"
        /\ DecodeStep(Ids, TRUE, mem) /\ Unless1(last'.status # "OK", "fill_path")
        /\ ref' = IF last'.status = "OK" THEN last'.logits ELSE ref
    BY DEF Reference
  <1>2. path = "nocache" /\ CachedDecode /\ Ids \in Seq(Tokens \cup {BadToken})
    BY <1>1, HereServed DEF Within, Timing, Checking, Probing, DriverInv, PathInv
  <1>3. /\ CacheInv' /\ capacity' = capacity
        /\ last'.status = "OK" => Ids \in Contexts /\ last'.logits = <<Ids>>
    <2>1. DecodeStepUncached(Ids, TRUE, mem) /\ CacheInv
      BY <1>1, <1>2 DEF DecodeStep, DriverInv
    <2> QED BY <1>2, <2>1, DecodeUncachedKeeps
  <1>4. CASE last'.status # "OK"
    <2>1. Exit(1)
      BY <1>1, <1>4 DEF Unless1
    <2> QED BY <1>1, <1>3, <2>1, ExitKeeps
  <1>5. CASE last'.status = "OK"
    <2>1. pc' = "fill_path" /\ code' = code
      BY <1>1, <1>5 DEF Unless1, Goto
    <2>2. Ids' = Ids /\ CachedDecode' = CachedDecode
      BY <1>1, SameConfig
    <2>3. PathInv'
      BY <1>1, <1>2, <1>3, <1>5, <2>1, <2>2 DEF PathInv, Checking
    <2> QED BY <1>1, <1>3, <2>1, <2>3, CheckKeeps DEF Checking
  <1> QED BY <1>4, <1>5

LEMMA FillPathKeeps ==
  ASSUME DriverInv, Switch("fill_path", "cache", "fill")
  PROVE  DriverInv'
  <1>1. /\ UNCHANGED <<opts, cfgs, ci, it, times, ref, recs, code>>
        /\ pc = "fill_path" /\ pc' = "fill" /\ SetDecodePath("cache")
    BY DEF Switch, Goto
  <1>2. CacheInv' /\ capacity' = capacity /\ path' = "cache"
    BY <1>1, SwitchKeeps DEF DriverInv, Paths
  <1>3. Ids' = Ids /\ CachedDecode' = CachedDecode
    BY <1>1, SameConfig
  <1>4. PathInv'
    BY <1>1, <1>2, <1>3 DEF DriverInv, PathInv, Checking
  <1> QED BY <1>1, <1>2, <1>4, CheckKeeps DEF Checking

LEMMA FillKeeps ==
  ASSUME DriverInv, NEW mem \in BOOLEAN, Fill(mem)
  PROVE  DriverInv'
  <1>1. /\ UNCHANGED <<opts, cfgs, ci, it, times, ref, recs>> /\ pc = "fill"
        /\ Prefill(Butlast(Ids), TRUE, mem) /\ Unless1(last'.status # "OK", "fill_restore")
    BY DEF Fill
  <1>2. Ids \in Seq(Tokens \cup {BadToken})
    BY <1>1, HereServed DEF Within, Timing, Checking
  <1>3. CacheInv' /\ capacity' = capacity /\ path' = path
    <2>1. Butlast(Ids) \in Seq(Tokens \cup {BadToken}) /\ CacheInv
      BY <1>2, ButlastType DEF DriverInv
    <2> QED BY <1>1, <2>1, PrefillKeeps
  <1>4. CASE last'.status # "OK"
    <2>1. Exit(1)
      BY <1>1, <1>4 DEF Unless1
    <2> QED BY <1>1, <1>3, <2>1, ExitKeeps
  <1>5. CASE last'.status = "OK"
    <2>1. pc' = "fill_restore" /\ code' = code
      BY <1>1, <1>5 DEF Unless1, Goto
    <2>2. Ids' = Ids /\ CachedDecode' = CachedDecode
      BY <1>1, SameConfig
    <2>3. PathInv'
      BY <1>1, <1>3, <2>1, <2>2 DEF DriverInv, PathInv, Checking
    <2> QED BY <1>1, <1>3, <2>1, <2>3, CheckKeeps DEF Checking
  <1> QED BY <1>4, <1>5

LEMMA FillRestoreKeeps ==
  ASSUME DriverInv, Restore("fill_restore", "check")
  PROVE  DriverInv'
  <1>1. /\ UNCHANGED <<opts, cfgs, ci, it, times, ref, recs, code>>
        /\ pc = "fill_restore" /\ pc' = "check" /\ KvSetLength(Here.tokens - 1)
    BY DEF Restore, Goto
  <1>2. Here.tokens - 1 \in Int
    BY <1>1, HereServed DEF Within, Timing, Checking
  <1>3. CacheInv' /\ capacity' = capacity /\ path' = path
    BY <1>1, <1>2, SetLengthKeeps DEF DriverInv
  <1>4. Ids' = Ids /\ CachedDecode' = CachedDecode
    BY <1>1, SameConfig
  <1>5. PathInv'
    BY <1>1, <1>3, <1>4 DEF DriverInv, PathInv, Checking
  <1> QED BY <1>1, <1>3, <1>5, CheckKeeps DEF Checking

\* The cached step that agreed with the reference holds the tokens of the configuration.
LEMMA CheckStepKeeps ==
  ASSUME DriverInv, NEW mem \in BOOLEAN, Check(mem)
  PROVE  DriverInv'
  <1>1. /\ UNCHANGED <<opts, cfgs, ci, it, times, ref, recs>> /\ pc = "check"
        /\ DecodeStepCached(Ids, TRUE, mem)
        /\ Unless1(last'.status # "OK" \/ last'.logits # ref, "restore")
    BY DEF Check
  <1>2. /\ Ids \in Seq(Tokens \cup {BadToken}) /\ path = "cache" /\ CachedDecode
        /\ ref = <<Ids>> /\ Ids \in Contexts
    BY <1>1, HereServed DEF Within, Timing, Checking, DriverInv, PathInv
  <1>3. /\ CacheInv' /\ capacity' = capacity /\ path' = path
        /\ last'.status = "OK" => last'.logits = <<held'>> /\ Len(Ids) <= capacity /\ room' >= Len(Ids)
    BY <1>1, <1>2, DecodeCachedKeeps DEF DriverInv
  <1>4. CASE last'.status # "OK" \/ last'.logits # ref
    <2>1. Exit(1)
      BY <1>1, <1>4 DEF Unless1
    <2> QED BY <1>1, <1>3, <2>1, ExitKeeps
  <1>5. CASE last'.status = "OK" /\ last'.logits = ref
    <2>1. pc' = "restore" /\ code' = code
      BY <1>1, <1>5 DEF Unless1, Goto
    <2>2. Ids' = Ids /\ CachedDecode' = CachedDecode
      BY <1>1, SameConfig
    <2>3. <<held'>> = <<Ids>>
      BY <1>2, <1>3, <1>5
    <2>4. held' = Ids'
      BY <2>2, <2>3
    <2>5. Ready'
      BY <1>2, <1>3, <1>5, <2>2 DEF Ready
    <2>6. PathInv'
      BY <1>2, <1>3, <2>1, <2>2, <2>4, <2>5 DEF PathInv, Checking
    <2> QED BY <1>1, <1>3, <2>1, <2>6, CheckKeeps DEF Checking
  <1> QED BY <1>4, <1>5

LEMMA RestoreKeeps ==
  ASSUME DriverInv, Restore("restore", "time")
  PROVE  DriverInv'
  <1>1. /\ UNCHANGED <<opts, cfgs, ci, it, times, ref, recs, code>>
        /\ pc = "restore" /\ pc' = "time" /\ KvSetLength(Here.tokens - 1)
    BY DEF Restore, Goto
  <1>2. /\ Ids \in Seq(Tokens \cup {BadToken}) /\ Len(Ids) = Here.tokens /\ Here.tokens \in Nat
        /\ held = Ids /\ Ready /\ path = "cache" /\ CachedDecode
    BY <1>1, HereServed DEF Within, Timing, Checking, DriverInv, PathInv
  <1>3. Len(Ids) \in Nat /\ Len(Ids) > 0 /\ capacity # 0 /\ capacity \in Nat
    BY <1>2, ApiAssumption DEF Ready, Contexts, DriverInv, CacheInv
  <1>4. /\ CacheInv' /\ UNCHANGED <<path, capacity, room>>
        /\ held' = SubSeq(held, 1, Here.tokens - 1)
    <2>1. Here.tokens - 1 \in Int /\ Here.tokens - 1 \in 0 .. Len(held) /\ CacheInv
      BY <1>2, <1>3 DEF DriverInv
    <2> QED BY <1>1, <1>3, <2>1, SetLengthKeeps
  <1>5. Ids' = Ids /\ CachedDecode' = CachedDecode /\ Here' = Here
    BY <1>1, SameConfig
  <1>6. held' = Butlast(Ids)
    BY <1>2, <1>4 DEF Butlast
  <1>7. PathInv'
    <2>1. Ready' /\ held' = Butlast(Ids)' /\ path' = PathOf(Here)'
      BY <1>2, <1>4, <1>5, <1>6 DEF Ready, Butlast, PathOf, CachedDecode
    <2> QED BY <1>1, <2>1 DEF PathInv, Checking
  <1> QED BY <1>1, <1>4, <1>7, CheckKeeps DEF Checking

-----------------------------------------------------------------------------
(* The timed iterations, the records and the end.                          *)

\* A timed call of a cached decode answers, and holds the tokens again.
LEMMA CachedAnswers ==
  ASSUME DriverInv, pc = "time", CachedDecode, NEW mem \in BOOLEAN, CallHere(mem)
  PROVE  /\ last' = [status |-> "OK", logits |-> <<Ids>>]
         /\ held' = Ids /\ UNCHANGED <<path, capacity, room>> /\ Ready
  <1>1. /\ Ids \in Seq(Tokens \cup {BadToken}) /\ held = Butlast(Ids) /\ Ready /\ CacheInv
        /\ path = "cache" /\ Here.kind = "decode" /\ Here.cache
    BY HereServed DEF Within, Timing, DriverInv, PathInv, PathOf, CachedDecode
  <1>2. DecodeStepCached(Ids, TRUE, mem)
    BY <1>1 DEF CallHere
  <1>3. UNCHANGED <<path, capacity>>
    BY <1>1, <1>2, DecodeCachedKeeps
  <1>4. Ids \in Contexts /\ room >= Len(Ids) /\ Len(Ids) <= capacity
    BY <1>1 DEF Ready
  <1>5. last' = [status |-> "OK", logits |-> <<Ids>>] /\ held' = Ids /\ room' = room
    BY <1>1, <1>2, <1>4, DecodeCachedKeeps
  <1> QED BY <1>1, <1>3, <1>5

LEMMA TimedCallKeeps ==
  ASSUME DriverInv, NEW mem \in BOOLEAN, TimedCall(mem)
  PROVE  DriverInv'
  <1>1. /\ UNCHANGED <<opts, cfgs, ci, ref, recs, code>> /\ it' = it + 1 /\ times' = Sampled
        /\ pc = "time" /\ CallHere(mem)
        /\ pc' = IF it + 1 = Warmup + Samples THEN "record"
                 ELSE IF CachedDecode THEN "restore" ELSE "time"
    BY DEF TimedCall, Goto
  <1>2. ci \in Forward /\ ci \in DOMAIN cfgs /\ Ids \in Seq(Tokens \cup {BadToken})
    BY <1>1, HereServed DEF Within, Timing
  <1>3. CacheInv' /\ capacity' = capacity /\ path' = path
    BY <1>1, <1>2, CallKeeps DEF DriverInv
  <1>4. ListInv'
    BY <1>1, <1>2, <1>3, SameList DEF DriverInv, ListInv, Probing, Timing, Checking, Within
  <1>5. RecordInv'
    <2>1. Samples' = Samples
      BY <1>1, SameList
    <2> QED BY <1>1, <2>1 DEF DriverInv, RecordInv, Timing, Checking
  <1>6. SampleInv'
    <2>1. /\ Samples \in Nat /\ Samples > 0 /\ Warmup \in Nat /\ it \in Nat
          /\ it < Warmup + Samples /\ SomeSeq(times) /\ Len(times) = Taken
      BY <1>1, SamplesNow DEF DriverInv, SampleInv
    <2>2. Samples' = Samples /\ Warmup' = Warmup
      BY <1>1, SameList
    <2>3. SomeSeq(times') /\ Len(times') = IF it < Warmup THEN Len(times) ELSE Len(times) + 1
      BY <1>1, <2>1, AnyAppend DEF Sampled
    <2>4. Taken' = IF it + 1 <= Warmup THEN 0 ELSE it + 1 - Warmup
      <3>1. it' = it + 1 /\ Warmup' = Warmup
        BY <1>1, <2>2
      <3>2. Taken' = IF it' <= Warmup' THEN 0 ELSE it' - Warmup'
        BY DEF Taken
      <3> QED BY <2>1, <3>1, <3>2
    <2>5. Len(times') = Taken'
      BY <2>1, <2>3, <2>4 DEF Taken
    <2>6. Taken' \in Nat /\ Taken' <= Samples /\ (it + 1 = Warmup + Samples => Taken' = Samples)
      BY <2>1, <2>4
    <2>7. it' \in 0 .. Warmup + Samples /\ (pc' # "record" => it' < Warmup + Samples)
      BY <1>1, <2>1
    <2>8. pc' # "next" /\ (pc' = "record" => it + 1 = Warmup + Samples)
      BY <1>1
    <2> HIDE DEF Taken
    <2>9. Len(times') <= Samples' /\ (pc' = "record" => Len(times') = Samples')
      BY <2>2, <2>5, <2>6, <2>8
    <2> QED BY <2>2, <2>3, <2>5, <2>7, <2>8, <2>9 DEF SampleInv, Checking
  <1>7. PathInv'
    <2>1. Ids' = Ids /\ CachedDecode' = CachedDecode /\ Here' = Here /\ PathOf(Here)' = PathOf(Here)
      BY <1>1, SameConfig DEF PathOf
    <2>2. CASE pc' = "restore"
      <3>1. CachedDecode
        BY <1>1, <2>2
      <3>2. held' = Ids' /\ Ready' /\ path' = "cache"
        BY <1>1, <1>3, <2>1, <3>1, CachedAnswers DEF Ready, CachedDecode, PathOf, DriverInv, PathInv
      <3> QED BY <2>1, <2>2, <3>1, <3>2 DEF PathInv, Checking
    <2>3. CASE pc' = "time"
      <3>1. ~CachedDecode
        BY <1>1, <2>3
      <3>2. path' = PathOf(Here)'
        BY <1>1, <1>3, <2>1 DEF DriverInv, PathInv
      <3> QED BY <2>1, <2>3, <3>1, <3>2 DEF PathInv, Checking
    <2>4. CASE pc' = "record"
      BY <2>4 DEF PathInv, Checking
    <2> QED BY <1>1, <2>2, <2>3, <2>4
  <1> QED BY <1>3, <1>4, <1>5, <1>6, <1>7 DEF DriverInv

LEMMA TimedGemmKeeps ==
  ASSUME DriverInv, NEW mem \in BOOLEAN, TimedGemm(mem)
  PROVE  DriverInv'
  <1>1. /\ UNCHANGED <<path, capacity, held, room, opts, cfgs, ci, ref, recs>> /\ it' = 0
        /\ times' = [k \in 1 .. Samples |-> TimeOf(Warmup + k - 1)]
        /\ pc = "next" /\ ci \in DOMAIN cfgs /\ Unless1(~mem, "record")
    BY DEF TimedGemm, contractVars
  <1>2. CacheInv'
    BY <1>1 DEF DriverInv, CacheInv
  <1>3. Samples \in Nat /\ Warmup \in Nat /\ Samples' = Samples /\ Warmup' = Warmup
    BY <1>1, SamplesNow, SameList
  <1>4. SomeSeq(times') /\ Len(times') = Samples
    <2> DEFINE T == { TimeOf(Warmup + k - 1) : k \in 1 .. Samples }
    <2>1. times' \in [1 .. Samples -> T]
      BY <1>1
    <2> HIDE DEF T
    <2>2. times' \in Seq(T) /\ Len(times') = Samples
      BY <1>3, <2>1, FunctionIsSeq
    <2> QED BY <2>2 DEF SomeSeq
  <1>5. pc' \in {"exit", "record"}
    BY <1>1 DEF Unless1, Exit, Goto
  <1>6. SampleInv'
    BY <1>1, <1>3, <1>4, <1>5 DEF SampleInv, Checking
  <1>7. CASE Exit(1)
    BY <1>1, <1>2, <1>6, <1>7, ExitLists DEF DriverInv
  <1>8. CASE ~Exit(1)
    <2>1. pc' = "record" /\ code' = code
      BY <1>1, <1>8 DEF Unless1, Goto
    <2>2. ListInv'
      BY <1>1, <2>1, SameList DEF DriverInv, ListInv, Probing, Timing, Checking, Within
    <2>3. RecordInv'
      BY <1>1, <1>3, <2>1 DEF DriverInv, RecordInv, Timing, Checking
    <2>4. PathInv'
      BY <2>1 DEF PathInv, Checking
    <2> QED BY <1>2, <1>6, <2>2, <2>3, <2>4 DEF DriverInv
  <1> QED BY <1>7, <1>8

\* Statistics count the samples they are of.
LEMMA StatsCount ==
  ASSUME NEW x, NEW mem \in BOOLEAN, Len(x) \in Nat
  PROVE  ComputeStats(x, mem).n = Len(x)
  BY DEF ComputeStats, MarkIf, MarkInvalid, NoStats

LEMMA RecordKeeps ==
  ASSUME DriverInv, NEW mem \in BOOLEAN, Record(mem)
  PROVE  DriverInv'
  <1> DEFINE nums == UpTo(Nums(Here.kind) \o Drift, MaxNums)
             rec  == [cfg |-> Here, stats |-> ComputeStats(times, mem), nums |-> nums,
                      printed |-> SubSeq(nums, Len(nums) - 4, Len(nums) - 2)]
  <1>1. /\ UNCHANGED <<path, capacity, held, room, opts, cfgs, it, times, ref, code>>
        /\ recs' = Append(recs, rec) /\ ci' = ci + 1 /\ pc = "record" /\ pc' = "next"
    BY DEF Record, contractVars, Goto
  <1>2. CacheInv'
    BY <1>1 DEF DriverInv, CacheInv
  <1>3. /\ Samples' = Samples /\ Warmup' = Warmup /\ Len(times) = Samples /\ Samples \in Nat
        /\ SomeSeq(recs) /\ Len(recs) = ci - 1 /\ ci \in 1 .. Len(cfgs) /\ Len(cfgs) \in Nat
        /\ opts.probe = FALSE
    <2>1. Samples' = Samples /\ Warmup' = Warmup /\ Samples \in Nat
      BY <1>1, SameList, SamplesNow
    <2>2. ci \in DOMAIN cfgs /\ cfgs \in Seq(Cfgs) /\ Len(times) = Samples
      BY <1>1 DEF DriverInv, ListInv, SampleInv
    <2> QED BY <1>1, <2>1, <2>2, LenProperties DEF DriverInv, RecordInv, Timing
  <1>4. rec.cfg = cfgs[ci] /\ rec.stats.n = Samples
    BY <1>3, StatsCount DEF Here
  <1> HIDE DEF rec
  <1>5. ListInv'
    <2>1. ci' \in 1 .. Len(cfgs') + 1
      BY <1>1, <1>3
    <2> QED BY <1>1, <2>1, SameList DEF DriverInv, ListInv, Probing, Timing, Checking, Within
  <1>6. RecordInv'
    <2>1. /\ SomeSeq(recs') /\ DOMAIN recs = 1 .. Len(recs) /\ DOMAIN recs' = 1 .. Len(recs) + 1
          /\ Len(recs') = Len(recs) + 1
          /\ recs'[Len(recs) + 1] = rec /\ \A i \in 1 .. Len(recs) : recs'[i] = recs[i]
      BY <1>1, <1>3, AnyAppend
    <2>2. \A i \in DOMAIN recs' : recs'[i].cfg = cfgs'[i] /\ recs'[i].stats.n = Samples'
      <3> SUFFICES ASSUME NEW i \in 1 .. Len(recs) + 1
                   PROVE  recs'[i].cfg = cfgs[i] /\ recs'[i].stats.n = Samples
        BY <1>1, <1>3, <2>1
      <3>1. CASE i \in DOMAIN recs
        BY <2>1, <3>1 DEF DriverInv, RecordInv
      <3>2. CASE i = ci
        BY <1>3, <1>4, <2>1, <3>2
      <3> QED BY <1>3, <2>1, <3>1, <3>2
    <2>3. Len(recs') = ci' - 1 /\ code' \in 0 .. 2 /\ opts'.probe = FALSE
      BY <1>1, <1>3, <2>1 DEF DriverInv, RecordInv
    <2> QED BY <1>1, <2>1, <2>2, <2>3 DEF RecordInv, Timing
  <1>7. SampleInv'
    BY <1>1, <1>3 DEF DriverInv, SampleInv, Checking
  <1>8. PathInv'
    BY <1>1 DEF PathInv, Checking
  <1> QED BY <1>2, <1>5, <1>6, <1>7, <1>8 DEF DriverInv

LEMMA WriteKeeps ==
  ASSUME DriverInv, NEW ok \in BOOLEAN, Write(ok)
  PROVE  DriverInv'
  <1>1. /\ UNCHANGED <<opts, cfgs, ci, it, times, ref, recs>> /\ pc = "next" /\ ci > Len(cfgs)
        /\ SetDecodePath("nocache") /\ pc' = "exit" /\ code' \in {0, 1}
    BY DEF Write, Exit
  <1>2. CacheInv' /\ capacity' = capacity
    BY <1>1, SwitchKeeps DEF DriverInv, Paths
  <1>3. Len(cfgs) \in Nat /\ Len(recs) = Len(cfgs) /\ opts.probe = FALSE
    <2>1. Len(cfgs) \in Nat /\ ci \in 1 .. Len(cfgs) + 1
      BY LenProperties DEF DriverInv, ListInv
    <2>2. Len(recs) = ci - 1 /\ opts.probe = FALSE
      BY <1>1 DEF DriverInv, RecordInv, Timing
    <2> QED BY <1>1, <2>1, <2>2
  <1>4. ListInv'
    BY <1>1, <1>2, SameList DEF DriverInv, ListInv, Probing, Timing, Checking, Within
  <1>5. RecordInv'
    <2>1. Samples' = Samples
      BY <1>1, SameList
    <2> QED BY <1>1, <1>3, <2>1 DEF DriverInv, RecordInv, Timing, Checking
  <1>6. SampleInv'
    BY <1>1, SameList DEF DriverInv, SampleInv, Checking
  <1>7. PathInv'
    BY <1>1 DEF PathInv, Checking
  <1> QED BY <1>2, <1>4, <1>5, <1>6, <1>7 DEF DriverInv

-----------------------------------------------------------------------------
(* The statistics.  Sums, and the squares of the samples' distances.       *)

\* A running sum.
Sums(g, f, n) ==
  /\ g[0] = 0 /\ \A k \in 0 .. n : g[k] \in Int
  /\ \A k \in 1 .. n : g[k] = g[k - 1] + f[k]

LEMMA SumExists ==
  ASSUME NEW f, NEW n \in Nat, \A k \in 1 .. n : f[k] \in Int
  PROVE  \E g : g = [k \in 0 .. n |-> IF k = 0 THEN 0 ELSE g[k - 1] + f[k]]
                /\ \A k \in 0 .. n : g[k] \in Int
  <1> DEFINE Is(g, m) == /\ g = [k \in 0 .. m |-> IF k = 0 THEN 0 ELSE g[k - 1] + f[k]]
                         /\ \A k \in 0 .. m : g[k] \in Int
             S == { m \in Nat : m <= n => \E g : Is(g, m) }
  <1>1. 0 \in S
    <2>1. Is([k \in 0 .. 0 |-> 0], 0)
      OBVIOUS
    <2> QED BY <2>1
  <1>2. ASSUME NEW m \in Nat, m \in S PROVE m + 1 \in S
    <2> SUFFICES ASSUME m + 1 <= n PROVE \E g : Is(g, m + 1)
      OBVIOUS
    <2>1. PICK g : Is(g, m)
      BY <1>2
    <2> DEFINE h == [k \in 0 .. m + 1 |-> IF k = m + 1 THEN g[m] + f[m + 1] ELSE g[k]]
    <2>2. g[m] \in Int /\ f[m + 1] \in Int
      BY <2>1
    <2>3. \A k \in 0 .. m + 1 : h[k] \in Int
      BY <2>1, <2>2
    <2>4. \A k \in 0 .. m + 1 : h[k] = IF k = 0 THEN 0 ELSE h[k - 1] + f[k]
      <3> TAKE k \in 0 .. m + 1
      <3>1. CASE k = m + 1
        BY <3>1
      <3>2. CASE k # m + 1
        BY <2>1, <3>2
      <3> QED BY <3>1, <3>2
    <2>5. h = [k \in 0 .. m + 1 |-> IF k = 0 THEN 0 ELSE h[k - 1] + f[k]]
      BY <2>4
    <2> QED BY <2>3, <2>5
  <1> HIDE DEF S
  <1>3. n \in S
    BY <1>1, <1>2, Induction
  <1> QED BY <1>3 DEF S

\* Total adds the elements up.
LEMMA TotalIs ==
  ASSUME NEW x, NEW n \in Nat, Len(x) = n, \A k \in 1 .. n : x[k] \in Int
  PROVE  \E g : Sums(g, x, n) /\ Total(x) = g[n]
  <1> DEFINE sum == CHOOSE g : g = [k \in 0 .. n |-> IF k = 0 THEN 0 ELSE g[k - 1] + x[k]]
  <1>1. PICK h : h = [k \in 0 .. n |-> IF k = 0 THEN 0 ELSE h[k - 1] + x[k]]
                 /\ \A k \in 0 .. n : h[k] \in Int
    BY SumExists, ZenonT(30)
  <1>2. sum = [k \in 0 .. n |-> IF k = 0 THEN 0 ELSE sum[k - 1] + x[k]]
    BY <1>1
  <1>3. Total(x) = sum[n]
    BY DEF Total
  <1> HIDE DEF sum
  <1> DEFINE S == { m \in Nat : m <= n => sum[m] \in Int }
  <1>4. 0 \in S
    BY <1>2
  <1>5. ASSUME NEW m \in Nat, m \in S PROVE m + 1 \in S
    BY <1>2, <1>5
  <1>6. \A k \in 0 .. n : k \in S
    <2> HIDE DEF S
    <2>1. Nat \subseteq S
      BY <1>4, <1>5, Induction
    <2> QED BY <2>1
  <1>7. Sums(sum, x, n)
    BY <1>2, <1>6 DEF Sums
  <1> QED BY <1>3, <1>7

\* Any running sum of the elements ends with it.
LEMMA TotalOf ==
  ASSUME NEW x, NEW n \in Nat, Len(x) = n, \A k \in 1 .. n : x[k] \in Int,
         NEW h, Sums(h, x, n)
  PROVE  Total(x) = h[n]
  <1>1. PICK g : Sums(g, x, n) /\ Total(x) = g[n]
    BY TotalIs
  <1> DEFINE S == { m \in Nat : m <= n => g[m] = h[m] }
  <1>2. 0 \in S
    BY <1>1 DEF Sums
  <1>3. ASSUME NEW m \in Nat, m \in S PROVE m + 1 \in S
    <2> SUFFICES ASSUME m + 1 <= n PROVE g[m + 1] = h[m + 1]
      OBVIOUS
    <2>1. m + 1 \in 1 .. n /\ (m + 1) - 1 = m /\ g[m] = h[m]
      BY <1>3
    <2> QED BY <1>1, <2>1 DEF Sums
  <1> HIDE DEF S
  <1>4. n \in S
    BY <1>2, <1>3, Induction
  <1> QED BY <1>1, <1>4 DEF S

\* The algebra of one step of each of the sums below.
LEMMA InnerStep ==
  ASSUME NEW a \in Int, NEW b \in Int, NEW k \in Int, NEW T \in Int, NEW Q \in Int
  PROVE  k * (a * a) - 2 * (a * (T + b)) + (Q + b * b)
           = ((k - 1) * (a * a) - 2 * (a * T) + Q) + (a - b) * (a - b)
  OBVIOUS

LEMMA OuterStep ==
  ASSUME NEW n \in Int, NEW b \in Int, NEW k \in Int, NEW X \in Int, NEW Y \in Int,
         NEW T \in Int, NEW Q \in Int
  PROVE  n * (Y + b * b) - 2 * (T * (X + b)) + k * Q
           = (n * Y - 2 * (T * X) + (k - 1) * Q) + (n * (b * b) - 2 * (b * T) + Q)
  OBVIOUS

LEMMA SquareStep ==
  ASSUME NEW n \in Int, NEW b \in Int, NEW k \in Int, NEW X \in Int, NEW Y \in Int, NEW T \in Int
  PROVE  (n * n) * (Y + b * b) - 2 * (n * (T * (X + b))) + k * (T * T)
           = ((n * n) * Y - 2 * (n * (T * X)) + (k - 1) * (T * T)) + (n * b - T) * (n * b - T)
  OBVIOUS

LEMMA Doubled ==
  ASSUME NEW n \in Int, NEW Q \in Int, NEW T \in Int
  PROVE  2 * ((n * n) * Q - 2 * (n * (T * T)) + n * (T * T))
           = n * (n * Q - 2 * (T * T) + n * Q)
  OBVIOUS

\* The squares of the distances of the samples, and of their distances from the mean.
LEMMA SpreadAlike ==
  ASSUME NEW x \in Seq(Int)
  PROVE  LET n == Len(x) IN
         /\ Total(x) \in Int /\ Distances(x) \in Int
         /\ 2 * Total([k \in 1 .. n |-> (n * x[k] - Total(x)) * (n * x[k] - Total(x))])
              = n * Distances(x)
  <1> DEFINE n == Len(x)
             T == Total(x)
             sq == [k \in 1 .. n |-> x[k] * x[k]]
             row(i) == [j \in 1 .. n |-> (x[i] - x[j]) * (x[i] - x[j])]
             rows == [i \in 1 .. n |-> Total(row(i))]
             off == [k \in 1 .. n |-> (n * x[k] - T) * (n * x[k] - T)]
  <1>1. n \in Nat /\ DOMAIN x = 1 .. n /\ \A k \in 1 .. n : x[k] \in Int
    BY LenProperties, ElementOfSeq
  <1>2. PICK X : Sums(X, x, n) /\ T = X[n]
    BY <1>1, TotalIs
  <1>3. ASSUME NEW f, \A k \in 1 .. n : f[k] \in Int, f = [k \in 1 .. n |-> f[k]]
        PROVE  Len(f) = n
    <2>1. f \in [1 .. n -> Int]
      BY <1>3
    <2> QED BY <1>1, <2>1, FunctionIsSeq
  <1> HIDE DEF n
  <1>4. PICK Y : Sums(Y, sq, n) /\ Total(sq) = Y[n]
    <2>1. \A k \in 1 .. n : sq[k] \in Int
      BY <1>1
    <2>2. Len(sq) = n
      BY <2>1, <1>3
    <2> HIDE DEF sq
    <2> QED BY <1>1, <2>1, <2>2, TotalIs
  <1> DEFINE Q == Y[n]
  <1>5. T \in Int /\ Q \in Int /\ \A k \in 0 .. n : X[k] \in Int /\ Y[k] \in Int
    BY <1>1, <1>2, <1>4 DEF Sums
  <1>6. /\ X[0] = 0 /\ Y[0] = 0
        /\ \A k \in 1 .. n : X[k] = X[k - 1] + x[k] /\ Y[k] = Y[k - 1] + x[k] * x[k]
    BY <1>2, <1>4 DEF Sums
  <1>7. \A k \in 1 .. n : X[k - 1] \in Int /\ Y[k - 1] \in Int /\ k \in Int /\ k - 1 \in Int
    BY <1>1, <1>5
  <1> HIDE DEF T, Q
  <1>8. ASSUME NEW i \in 1 .. n
        PROVE  Total(row(i)) = n * (x[i] * x[i]) - 2 * (x[i] * T) + Q
    <2> DEFINE a == x[i]
               h == [k \in 0 .. n |-> k * (a * a) - 2 * (a * X[k]) + Y[k]]
               r == row(i)
    <2>1. a \in Int
      BY <1>1
    <2>2. \A k \in 1 .. n : r[k] = (a - x[k]) * (a - x[k]) /\ r[k] \in Int
      BY <1>1, <2>1
    <2>3. Len(r) = n
      BY <1>3, <2>2
    <2> HIDE DEF a
    <2>4. \A k \in 0 .. n : h[k] \in Int
      BY <1>1, <1>5, <2>1
    <2>5. h[0] = 0
      BY <1>1, <1>6, <2>1
    <2>6. \A k \in 1 .. n : h[k] = h[k - 1] + r[k]
      <3> TAKE k \in 1 .. n
      <3> DEFINE b == x[k]
                 S == X[k - 1]
                 R == Y[k - 1]
      <3>1. b \in Int /\ S \in Int /\ R \in Int /\ k \in Int /\ k \in 0 .. n /\ k - 1 \in 0 .. n
        BY <1>1, <1>7
      <3>2. X[k] = S + b /\ Y[k] = R + b * b
        BY <1>6
      <3>3. h[k] = k * (a * a) - 2 * (a * (S + b)) + (R + b * b)
        BY <3>1, <3>2
      <3>4. h[k - 1] = (k - 1) * (a * a) - 2 * (a * S) + R
        BY <3>1
      <3>5. r[k] = (a - b) * (a - b)
        BY <2>2
      <3> HIDE DEF b, S, R, h, r
      <3> QED BY <2>1, <3>1, <3>3, <3>4, <3>5, InnerStep
    <2>7. Sums(h, r, n)
      <3> HIDE DEF h, r
      <3> QED BY <2>4, <2>5, <2>6 DEF Sums
    <2>8. Total(r) = h[n]
      <3> HIDE DEF h, r
      <3> QED BY <1>1, <2>2, <2>3, <2>7, TotalOf
    <2>9. h[n] = n * (a * a) - 2 * (a * X[n]) + Y[n]
      BY <1>1
    <2> QED BY <1>2, <2>8, <2>9 DEF Q, a
  <1>9. Distances(x) = n * Q - 2 * (T * T) + n * Q
    <2> DEFINE h == [k \in 0 .. n |-> n * Y[k] - 2 * (T * X[k]) + k * Q]
    <2>1. Distances(x) = Total(rows)
      BY <1>1 DEF Distances
    <2>2. \A k \in 1 .. n : rows[k] = n * (x[k] * x[k]) - 2 * (x[k] * T) + Q
      <3> HIDE DEF row
      <3> QED BY <1>8
    <2>3. \A k \in 1 .. n : rows[k] \in Int
      <3> HIDE DEF rows
      <3> QED BY <1>1, <1>5, <2>2
    <2>4. Len(rows) = n
      BY <1>3, <2>3
    <2> HIDE DEF rows
    <2>5. (\A k \in 0 .. n : h[k] \in Int) /\ h[0] = 0
      <3>1. ASSUME NEW k \in 0 .. n PROVE h[k] \in Int
        <4>1. n \in Int /\ k \in Int /\ X[k] \in Int /\ Y[k] \in Int /\ T \in Int /\ Q \in Int
          BY <1>1, <1>5
        <4> QED BY <4>1, SMTT(30)
      <3>2. h[0] = n * 0 - 2 * (T * 0) + 0 * Q
        BY <1>1, <1>6
      <3>3. n \in Int /\ T \in Int /\ Q \in Int
        BY <1>1, <1>5
      <3> HIDE DEF h
      <3> QED BY <3>1, <3>2, <3>3
    <2>6. \A k \in 1 .. n : h[k] = h[k - 1] + rows[k]
      <3> TAKE k \in 1 .. n
      <3> DEFINE b == x[k]
                 S == X[k - 1]
                 R == Y[k - 1]
      <3>1. /\ b \in Int /\ S \in Int /\ R \in Int /\ k \in Int /\ k \in 0 .. n /\ k - 1 \in 0 .. n
            /\ n \in Int
        BY <1>1, <1>7
      <3>2. X[k] = S + b /\ Y[k] = R + b * b
        BY <1>6
      <3>3. h[k] = n * (R + b * b) - 2 * (T * (S + b)) + k * Q
        BY <3>1, <3>2
      <3>4. h[k - 1] = n * R - 2 * (T * S) + (k - 1) * Q
        BY <3>1
      <3>5. rows[k] = n * (b * b) - 2 * (b * T) + Q
        BY <2>2
      <3> HIDE DEF b, S, R, h
      <3> QED BY <1>5, <3>1, <3>3, <3>4, <3>5, OuterStep
    <2>7. Sums(h, rows, n)
      <3> HIDE DEF h
      <3> QED BY <2>5, <2>6 DEF Sums
    <2>8. Total(rows) = h[n]
      <3> HIDE DEF h
      <3> QED BY <1>1, <2>3, <2>4, <2>7, TotalOf
    <2>9. h[n] = n * Y[n] - 2 * (T * X[n]) + n * Q
      BY <1>1
    <2> QED BY <1>2, <2>1, <2>8, <2>9 DEF Q
  <1>10. Total(off) = (n * n) * Q - 2 * (n * (T * T)) + n * (T * T)
    <2> DEFINE h == [k \in 0 .. n |-> (n * n) * Y[k] - 2 * (n * (T * X[k])) + k * (T * T)]
    <2>2. \A k \in 1 .. n : off[k] = (n * x[k] - T) * (n * x[k] - T)
      OBVIOUS
    <2>3. \A k \in 1 .. n : off[k] \in Int
      <3> HIDE DEF off
      <3> QED BY <1>1, <1>5, <2>2
    <2>4. Len(off) = n
      BY <1>3, <2>3
    <2> HIDE DEF off
    <2>5. (\A k \in 0 .. n : h[k] \in Int) /\ h[0] = 0
      <3>1. ASSUME NEW k \in 0 .. n PROVE h[k] \in Int
        <4>1. n \in Int /\ k \in Int /\ X[k] \in Int /\ Y[k] \in Int /\ T \in Int /\ Q \in Int
          BY <1>1, <1>5
        <4> QED BY <4>1, SMTT(30)
      <3>2. h[0] = (n * n) * 0 - 2 * (n * (T * 0)) + 0 * (T * T)
        BY <1>1, <1>6
      <3>3. n \in Int /\ T \in Int /\ Q \in Int
        BY <1>1, <1>5
      <3> HIDE DEF h
      <3> QED BY <3>1, <3>2, <3>3
    <2>6. \A k \in 1 .. n : h[k] = h[k - 1] + off[k]
      <3> TAKE k \in 1 .. n
      <3> DEFINE b == x[k]
                 S == X[k - 1]
                 R == Y[k - 1]
      <3>1. /\ b \in Int /\ S \in Int /\ R \in Int /\ k \in Int /\ k \in 0 .. n /\ k - 1 \in 0 .. n
            /\ n \in Int
        BY <1>1, <1>7
      <3>2. X[k] = S + b /\ Y[k] = R + b * b
        BY <1>6
      <3>3. h[k] = (n * n) * (R + b * b) - 2 * (n * (T * (S + b))) + k * (T * T)
        BY <3>1, <3>2
      <3>4. h[k - 1] = (n * n) * R - 2 * (n * (T * S)) + (k - 1) * (T * T)
        BY <3>1
      <3>5. off[k] = (n * b - T) * (n * b - T)
        BY <2>2
      <3> HIDE DEF b, S, R, h
      <3> QED BY <1>5, <3>1, <3>3, <3>4, <3>5, SquareStep
    <2>7. Sums(h, off, n)
      <3> HIDE DEF h
      <3> QED BY <2>5, <2>6 DEF Sums
    <2>8. Total(off) = h[n]
      <3> HIDE DEF h
      <3> QED BY <1>1, <2>3, <2>4, <2>7, TotalOf
    <2>9. h[n] = (n * n) * Y[n] - 2 * (n * (T * X[n])) + n * (T * T)
      BY <1>1
    <2> QED BY <1>2, <2>8, <2>9 DEF Q
  <1>11. n \in Int /\ Distances(x) \in Int
    BY <1>1, <1>5, <1>9
  <1>12. 2 * Total(off) = n * Distances(x)
    <2> HIDE DEF off
    <2> QED BY <1>5, <1>9, <1>10, <1>11, Doubled
  <1> QED BY <1>5, <1>11, <1>12 DEF T, n

-----------------------------------------------------------------------------
(* The order of the samples, and their median.                             *)

\* Some order of a sequence of naturals is nondecreasing.
LEMMA OrderExists ==
  ASSUME NEW n \in Nat, NEW x \in [1 .. n -> Nat]
  PROVE  \E p \in Bijection(1 .. n, 1 .. n) :
           \A i, j \in 1 .. n : i < j => x[p[i]] <= x[p[j]]
  <1> DEFINE Orders(p, f, m) ==
               /\ p \in [1 .. m -> 1 .. m]
               /\ \A i, j \in 1 .. m : p[i] = p[j] => i = j
               /\ \A k \in 1 .. m : \E i \in 1 .. m : p[i] = k
               /\ \A i, j \in 1 .. m : i < j => f[p[i]] <= f[p[j]]
             S == { m \in Nat : \A f \in [1 .. m -> Nat] : \E p : Orders(p, f, m) }
  <1>1. 0 \in S
    <2>1. ASSUME NEW f PROVE \E p : Orders(p, f, 0)
      <3> DEFINE e == [i \in 1 .. 0 |-> i]
      <3>1. e \in [1 .. 0 -> 1 .. 0]
        OBVIOUS
      <3>2. 1 .. 0 = {}
        OBVIOUS
      <3> HIDE DEF e
      <3>3. Orders(e, f, 0)
        BY <3>1, <3>2
      <3> QED BY <3>3
    <2> QED BY <2>1
  <1>2. ASSUME NEW m \in Nat, m \in S PROVE m + 1 \in S
    <2>14. m + 1 \in Nat
      OBVIOUS
    <2> SUFFICES ASSUME NEW f \in [1 .. m + 1 -> Nat] PROVE \E p : Orders(p, f, m + 1)
      BY <2>14, Zenon
    <2>1. PICK k \in 1 .. m + 1 : \A i \in 1 .. m + 1 : f[k] <= f[i]
      <3> DEFINE V == { f[i] : i \in 1 .. m + 1 }
      <3>1. V \in SUBSET Nat /\ f[1] \in V
        OBVIOUS
      <3>2. \E a \in V : \A b \in V : a <= b
        <4> HIDE DEF V
        <4> QED BY <3>1, LeastElement
      <3> QED BY <3>2
    <2> DEFINE g == [i \in 1 .. m |-> IF i = k THEN f[m + 1] ELSE f[i]]
    <2>2. g \in [1 .. m -> Nat]
      OBVIOUS
    <2>3. PICK q : Orders(q, g, m)
      BY <1>2, <2>2
    <2> DEFINE p == [i \in 1 .. m + 1 |-> IF i = 1 THEN k
                                          ELSE IF q[i - 1] = k THEN m + 1 ELSE q[i - 1]]
    <2>4. \A i \in 2 .. m + 1 : i - 1 \in 1 .. m /\ q[i - 1] \in 1 .. m
      <3> TAKE i \in 2 .. m + 1
      <3>1. i - 1 \in 1 .. m
        OBVIOUS
      <3>2. q \in [1 .. m -> 1 .. m]
        BY <2>3
      <3> QED BY <3>1, <3>2
    <2>5. p \in [1 .. m + 1 -> 1 .. m + 1]
      BY <2>4
    <2>6. /\ p[1] = k
          /\ \A i \in 2 .. m + 1 : /\ p[i] = IF q[i - 1] = k THEN m + 1 ELSE q[i - 1]
                                   /\ p[i] # k \/ (k = m + 1 /\ q[i - 1] = k)
      BY <2>4
    <2>7. \A i \in 2 .. m + 1 : p[i] # k
      BY <2>4, <2>6
    <2>8. \A i \in 2 .. m + 1 : f[p[i]] = g[q[i - 1]]
      BY <2>4, <2>6
    <2>9. ASSUME NEW i \in 1 .. m + 1, NEW j \in 1 .. m + 1, p[i] = p[j] PROVE i = j
      <3>1. CASE i = 1
        <4>1. p[j] = k
          BY <2>6, <2>9, <3>1
        <4>2. j = 1 \/ j \in 2 .. m + 1
          OBVIOUS
        <4> HIDE DEF p
        <4> QED BY <2>7, <3>1, <4>1, <4>2
      <3>3. CASE j = 1
        <4>1. p[i] = k
          BY <2>6, <2>9, <3>3
        <4>2. i = 1 \/ i \in 2 .. m + 1
          OBVIOUS
        <4> HIDE DEF p
        <4> QED BY <2>7, <3>3, <4>1, <4>2
      <3>2. CASE i # 1 /\ j # 1
        <4>1. i \in 2 .. m + 1 /\ j \in 2 .. m + 1
          BY <3>2
        <4>2. q[i - 1] = q[j - 1] /\ i - 1 \in 1 .. m /\ j - 1 \in 1 .. m
          BY <2>4, <2>6, <2>9, <4>1
        <4>3. i - 1 = j - 1
          BY <2>3, <4>2
        <4> QED BY <4>3
      <3> QED BY <3>1, <3>2, <3>3
    <2>10. ASSUME NEW h \in 1 .. m + 1 PROVE \E i \in 1 .. m + 1 : p[i] = h
      <3>1. CASE h = k
        BY <2>6, <3>1
      <3>2. CASE h # k /\ h = m + 1
        <4>1. PICK i \in 1 .. m : q[i] = k
          BY <2>3, <3>2
        <4>2. i + 1 \in 2 .. m + 1 /\ (i + 1) - 1 = i
          OBVIOUS
        <4> HIDE DEF p
        <4>3. p[i + 1] = m + 1
          BY <2>6, <4>1, <4>2
        <4>4. i + 1 \in 1 .. m + 1
          OBVIOUS
        <4> QED BY <3>2, <4>3, <4>4
      <3>3. CASE h # k /\ h # m + 1
        <4>1. PICK i \in 1 .. m : q[i] = h
          BY <2>3, <3>3
        <4>2. i + 1 \in 2 .. m + 1 /\ (i + 1) - 1 = i
          OBVIOUS
        <4> HIDE DEF p
        <4>3. p[i + 1] = h
          BY <2>6, <3>3, <4>1, <4>2
        <4>4. i + 1 \in 1 .. m + 1
          OBVIOUS
        <4> QED BY <4>3, <4>4
      <3> QED BY <3>1, <3>2, <3>3
    <2>11. ASSUME NEW i \in 1 .. m + 1, NEW j \in 1 .. m + 1, i < j PROVE f[p[i]] <= f[p[j]]
      <3>1. CASE i = 1
        <4>1. p[j] \in 1 .. m + 1
          BY <2>5
        <4> QED BY <2>1, <2>6, <3>1, <4>1
      <3>2. CASE i # 1
        <4>1. i \in 2 .. m + 1 /\ j \in 2 .. m + 1 /\ i - 1 \in 1 .. m /\ j - 1 \in 1 .. m /\ i - 1 < j - 1
          BY <2>11, <3>2
        <4>2. g[q[i - 1]] <= g[q[j - 1]]
          BY <2>3, <4>1
        <4> QED BY <2>8, <4>1, <4>2
      <3> QED BY <3>1, <3>2
    <2> HIDE DEF p
    <2>12. Orders(p, f, m + 1)
      BY <2>5, <2>9, <2>10, <2>11
    <2> QED BY <2>12
  <1> HIDE DEF S
  <1>3. n \in S
    BY <1>1, <1>2, Induction
  <1>4. PICK p : Orders(p, x, n)
    BY <1>3 DEF S
  <1>5. p \in Bijection(1 .. n, 1 .. n)
    BY <1>4 DEF Bijection, Injection, Surjection, IsInjective
  <1> QED BY <1>4, <1>5

\* What Sorted makes of a slot.
LEMMA SortedOrder ==
  ASSUME NEW x \in Seq(Nat)
  PROVE  LET n == Len(x) IN
         \E p \in [1 .. n -> 1 .. n] :
           /\ \A k \in 1 .. n : \E i \in 1 .. n : p[i] = k
           /\ \A i \in 1 .. n : Sorted(x)[i] = x[p[i]]
           /\ \A i, j \in 1 .. n : i < j => x[p[i]] <= x[p[j]]
           /\ Len(Sorted(x)) = n
  <1> DEFINE n == Len(x)
             order == CHOOSE p \in Bijection(1 .. n, 1 .. n) :
                        \A i, j \in 1 .. n : i < j => x[p[i]] <= x[p[j]]
  <1>1. n \in Nat /\ x \in [1 .. n -> Nat]
    BY LenProperties, ElementOfSeq
  <1>2. Sorted(x) = [i \in 1 .. n |-> x[order[i]]]
    BY DEF Sorted
  <1> HIDE DEF n
  <1>3. /\ order \in Bijection(1 .. n, 1 .. n)
        /\ \A i, j \in 1 .. n : i < j => x[order[i]] <= x[order[j]]
    <2>1. \E p \in Bijection(1 .. n, 1 .. n) : \A i, j \in 1 .. n : i < j => x[p[i]] <= x[p[j]]
      BY <1>1, OrderExists
    <2> QED BY <2>1
  <1> HIDE DEF order
  <1>4. order \in [1 .. n -> 1 .. n] /\ \A k \in 1 .. n : \E i \in 1 .. n : order[i] = k
    BY <1>3 DEF Bijection, Injection, Surjection
  <1>5. Len(Sorted(x)) = n
    <2>1. [i \in 1 .. n |-> x[order[i]]] \in [1 .. n -> Nat]
      BY <1>1, <1>4
    <2> HIDE DEF Sorted
    <2> QED BY <1>1, <1>2, <2>1, FunctionIsSeq
  <1> QED BY <1>2, <1>3, <1>4, <1>5 DEF n

\* The elements at some of the places of an order.
LEMMA PlacesCount ==
  ASSUME NEW n \in Nat, NEW p \in [1 .. n -> 1 .. n], NEW a \in 1 .. n + 1, NEW b \in 0 .. n,
         a <= b + 1, NEW S, S \subseteq { p[i] : i \in a .. b }
  PROVE  Cardinality(S) \in Nat /\ Cardinality(S) <= b + 1 - a
  <1> DEFINE T == { p[i] : i \in a .. b }
             f == [i \in a .. b |-> p[i]]
  <1>1. f \in Surjection(a .. b, T)
    <2>1. f \in [a .. b -> T]
      OBVIOUS
    <2>2. \A t \in T : \E s \in a .. b : f[s] = t
      OBVIOUS
    <2> HIDE DEF f, T
    <2> QED BY <2>1, <2>2 DEF Surjection
  <1>2. IsFiniteSet(a .. b) /\ Cardinality(a .. b) = b + 1 - a
    <2>1. a \in Int /\ b \in Int
      OBVIOUS
    <2>2. IsFiniteSet(a .. b) /\ Cardinality(a .. b) = IF a > b THEN 0 ELSE b - a + 1
      BY <2>1, FS_Interval
    <2> QED BY <2>2
  <1> HIDE DEF T, f
  <1>3. IsFiniteSet(T) /\ Cardinality(T) <= b + 1 - a
    BY <1>1, <1>2, FS_Surjection
  <1>4. IsFiniteSet(S) /\ Cardinality(S) <= Cardinality(T)
    <2>1. S \in SUBSET T
      BY DEF T
    <2> QED BY <1>3, <2>1, FS_Subset
  <1>5. Cardinality(S) \in Nat /\ Cardinality(T) \in Nat
    BY <1>3, <1>4, FS_CardinalityType
  <1> QED BY <1>3, <1>4, <1>5

LEMMA HalfOf ==
  ASSUME NEW n \in Nat
  PROVE  /\ n \div 2 \in Nat /\ n % 2 \in {0, 1}
         /\ (n % 2 = 1 => n = 2 * (n \div 2) + 1) /\ (n % 2 = 0 => n = 2 * (n \div 2))
  OBVIOUS

LEMMA ScaledOrder ==
  ASSUME NEW n \in Int, n > 0, NEW e \in Int, NEW r \in Int
  PROVE  n * e > n * r <=> e > r
  <1>1. CASE e > r
    <2>1. e - r > 0 /\ n * (e - r) > 0 /\ n * (e - r) = n * e - n * r
      BY <1>1
    <2> QED BY <1>1, <2>1
  <1>2. CASE ~(e > r)
    <2>1. r - e >= 0 /\ n * (r - e) >= 0 /\ n * (r - e) = n * r - n * e
      BY <1>2
    <2> QED BY <1>2, <2>1
  <1> QED BY <1>1, <1>2

\* p orders the n samples x, and y is what comes of it.
Ordered(p, x, y, n) ==
  /\ x \in [1 .. n -> Nat] /\ p \in [1 .. n -> 1 .. n] /\ Len(y) = n
  /\ \A k \in 1 .. n : \E i \in 1 .. n : p[i] = k
  /\ \A i \in 1 .. n : y[i] = x[p[i]]
  /\ \A i, j \in 1 .. n : i < j => x[p[i]] <= x[p[j]]

\* At most half of the samples lie below the median and at most half above it.
LEMMA MedianHalves ==
  ASSUME NEW n \in Nat, n > 0, NEW x, NEW p, NEW y, Ordered(p, x, y, n)
  PROVE  /\ DoubledMedian(y) \in Nat
         /\ 2 * Cardinality({ k \in 1 .. n : 2 * x[k] < DoubledMedian(y) }) <= n
         /\ 2 * Cardinality({ k \in 1 .. n : 2 * x[k] > DoubledMedian(y) }) <= n
  <1> DEFINE half == n \div 2
             m == DoubledMedian(y)
             below == { k \in 1 .. n : 2 * x[k] < m }
             above == { k \in 1 .. n : 2 * x[k] > m }
  <1>1. /\ half \in Nat /\ n % 2 \in {0, 1}
        /\ (n % 2 = 1 => n = 2 * half + 1) /\ (n % 2 = 0 => n = 2 * half)
    BY HalfOf
  <1>2. \A i \in 1 .. n : y[i] \in Nat /\ p[i] \in 1 .. n /\ y[i] = x[p[i]]
    BY DEF Ordered
  <1>3. \A i, j \in 1 .. n : i <= j => y[i] <= y[j]
    <2> TAKE i, j \in 1 .. n
    <2>1. y[i] \in Nat /\ y[j] \in Nat
      BY <1>2
    <2>2. i = j \/ i < j \/ j < i
      OBVIOUS
    <2>4. CASE i = j
      BY <2>1, <2>4
    <2>5. CASE i < j
      BY <1>2, <2>5 DEF Ordered
    <2>6. CASE j < i
      BY <2>6
    <2> QED BY <2>2, <2>4, <2>5, <2>6
  <1>4. m = IF n % 2 = 1 THEN 2 * y[half + 1] ELSE y[half] + y[half + 1]
    <2>1. Len(y) = n
      BY DEF Ordered
    <2> QED BY <2>1 DEF DoubledMedian
  <1> HIDE DEF half, m
  <1>5. CASE n % 2 = 1
    <2>1. half + 1 \in 1 .. n /\ n = 2 * half + 1 /\ m = 2 * y[half + 1] /\ half \in Nat
      BY <1>1, <1>4, <1>5
    <2>12. y[half + 1] \in Nat
      BY <1>2, <2>1
    <2>2. m \in Nat
      BY <2>1, <2>12
    <2>3. below \subseteq { p[i] : i \in 1 .. half }
      <3> SUFFICES ASSUME NEW k \in 1 .. n, 2 * x[k] < m PROVE k \in { p[i] : i \in 1 .. half }
        OBVIOUS
      <3>1. PICK i \in 1 .. n : p[i] = k
        BY DEF Ordered
      <3>2. 2 * y[i] < m /\ y[i] \in Nat /\ y[half + 1] \in Nat
        BY <1>2, <2>1, <3>1
      <3>3. ~(half + 1 <= i)
        <4>1. half + 1 <= i => y[half + 1] <= y[i]
          BY <1>3, <2>1
        <4> QED BY <2>1, <3>2, <4>1
      <3>4. i \in 1 .. half
        BY <2>1, <3>3
      <3> QED BY <3>1, <3>4
    <2>4. above \subseteq { p[i] : i \in half + 2 .. n }
      <3> SUFFICES ASSUME NEW k \in 1 .. n, 2 * x[k] > m PROVE k \in { p[i] : i \in half + 2 .. n }
        OBVIOUS
      <3>1. PICK i \in 1 .. n : p[i] = k
        BY DEF Ordered
      <3>2. 2 * y[i] > m /\ y[i] \in Nat /\ y[half + 1] \in Nat
        BY <1>2, <2>1, <3>1
      <3>3. ~(i <= half + 1)
        <4>1. i <= half + 1 => y[i] <= y[half + 1]
          BY <1>3, <2>1
        <4> QED BY <2>1, <3>2, <4>1
      <3>4. i \in half + 2 .. n
        BY <2>1, <3>3
      <3> QED BY <3>1, <3>4
    <2> HIDE DEF below, above
    <2>15. p \in [1 .. n -> 1 .. n]
      BY DEF Ordered
    <2>5. 1 \in 1 .. n + 1 /\ half \in 0 .. n /\ 1 <= half + 1
      BY <2>1
    <2>6. half + 2 \in 1 .. n + 1 /\ n \in 0 .. n /\ half + 2 <= n + 1
      BY <2>1
    <2>7. Cardinality(below) \in Nat /\ Cardinality(below) <= half + 1 - 1
      BY <2>3, <2>5, PlacesCount, <2>15
    <2>8. Cardinality(above) \in Nat /\ Cardinality(above) <= n + 1 - (half + 2)
      BY <2>4, <2>6, PlacesCount, <2>15
    <2> DEFINE lo == Cardinality(below)
               hi == Cardinality(above)
    <2> HIDE DEF lo, hi
    <2>9. 2 * lo <= n /\ 2 * hi <= n
      BY <2>1, <2>7, <2>8 DEF lo, hi
    <2> QED BY <2>2, <2>9 DEF below, above, m, lo, hi
  <1>6. CASE n % 2 = 0
    <2>1. /\ half \in 1 .. n /\ half + 1 \in 1 .. n /\ n = 2 * half /\ half \in Nat
          /\ m = y[half] + y[half + 1]
      BY <1>1, <1>4, <1>6
    <2>12. y[half] \in Nat /\ y[half + 1] \in Nat
      BY <1>2, <2>1
    <2>13. half <= half + 1
      BY <2>1
    <2>14. y[half] <= y[half + 1]
      BY <1>3, <2>1, <2>13
    <2>2. m \in Nat /\ y[half] \in Nat /\ y[half + 1] \in Nat /\ y[half] <= y[half + 1]
      BY <2>1, <2>12, <2>14
    <2>3. below \subseteq { p[i] : i \in 1 .. half }
      <3> SUFFICES ASSUME NEW k \in 1 .. n, 2 * x[k] < m PROVE k \in { p[i] : i \in 1 .. half }
        OBVIOUS
      <3>1. PICK i \in 1 .. n : p[i] = k
        BY DEF Ordered
      <3>2. 2 * y[i] < m /\ y[i] \in Nat
        BY <1>2, <2>1, <3>1
      <3>3. ~(half + 1 <= i)
        <4>1. half + 1 <= i => y[half + 1] <= y[i]
          BY <1>3, <2>1
        <4> QED BY <2>1, <2>2, <3>2, <4>1
      <3>4. i \in 1 .. half
        BY <2>1, <3>3
      <3> QED BY <3>1, <3>4
    <2>4. above \subseteq { p[i] : i \in half + 1 .. n }
      <3> SUFFICES ASSUME NEW k \in 1 .. n, 2 * x[k] > m PROVE k \in { p[i] : i \in half + 1 .. n }
        OBVIOUS
      <3>1. PICK i \in 1 .. n : p[i] = k
        BY DEF Ordered
      <3>2. 2 * y[i] > m /\ y[i] \in Nat
        BY <1>2, <2>1, <3>1
      <3>3. ~(i <= half)
        <4>1. i <= half => y[i] <= y[half]
          BY <1>3, <2>1
        <4> QED BY <2>1, <2>2, <3>2, <4>1
      <3>4. i \in half + 1 .. n
        BY <2>1, <3>3
      <3> QED BY <3>1, <3>4
    <2> HIDE DEF below, above
    <2>15. p \in [1 .. n -> 1 .. n]
      BY DEF Ordered
    <2>5. 1 \in 1 .. n + 1 /\ half \in 0 .. n /\ 1 <= half + 1
      BY <2>1
    <2>6. half + 1 \in 1 .. n + 1 /\ n \in 0 .. n /\ half + 1 <= n + 1
      BY <2>1
    <2>7. Cardinality(below) \in Nat /\ Cardinality(below) <= half + 1 - 1
      BY <2>3, <2>5, PlacesCount, <2>15
    <2>8. Cardinality(above) \in Nat /\ Cardinality(above) <= n + 1 - (half + 1)
      BY <2>4, <2>6, PlacesCount, <2>15
    <2> DEFINE lo == Cardinality(below)
               hi == Cardinality(above)
    <2> HIDE DEF lo, hi
    <2>9. 2 * lo <= n /\ 2 * hi <= n
      BY <2>1, <2>7, <2>8 DEF lo, hi
    <2> QED BY <2>2, <2>9 DEF below, above, m, lo, hi
  <1> QED BY <1>1, <1>5, <1>6

\* The squared deviation against its limit, and the same without a mean.
LEMMA SpreadScaled ==
  ASSUME NEW n \in Nat, n > 0, NEW q \in Int, NEW d \in Int, 2 * q = n * d, NEW l \in Int
  PROVE  40000 * q > l * n * n * (n - 1) <=> 20000 * d > l * n * (n - 1)
  <1>1. 40000 * q = n * (20000 * d)
    OBVIOUS
  <1> DEFINE e == 20000 * d
             r == l * n * (n - 1)
  <1>2. e \in Int /\ r \in Int
    OBVIOUS
  <1>3. l * n * n * (n - 1) = n * r
    OBVIOUS
  <1> HIDE DEF e, r
  <1>4. n * e > n * r <=> e > r
    BY <1>2, ScaledOrder
  <1> QED BY <1>1, <1>3, <1>4 DEF e, r

\* Statistics that are those of a slot.
Describes(s, x) ==
  LET n == Len(x)
      part(S) == 2 * Cardinality(S) <= n
      wide == AboveLimit(x, s.median2)
  IN  /\ s.n = n
      /\ s.reasons # {"allocation"} =>
           /\ part({ k \in 1 .. n : 2 * x[k] < s.median2 })
           /\ part({ k \in 1 .. n : 2 * x[k] > s.median2 })
           /\ \A k \in 1 .. n : x[k] \in s.min .. s.max
           /\ (~s.valid) <=> wide

\* What bench_compute_stats makes of a slot.
LEMMA StatsOf ==
  ASSUME NEW x \in Seq(Nat \ {0}), NEW mem \in BOOLEAN, Len(x) >= MinSamples
  PROVE  Describes(ComputeStats(x, mem), x)
  <1> DEFINE n == Len(x)
             s == ComputeStats(x, mem)
             y == Sorted(x)
             m == DoubledMedian(y)
             q == Total([k \in 1 .. n |-> (n * x[k] - Total(x)) * (n * x[k] - Total(x))])
             t == [NoStats EXCEPT !.n = n, !.min = y[1], !.max = y[n], !.median2 = m]
  <1>1. /\ n \in Nat /\ n > 0 /\ x \in [1 .. n -> Nat] /\ n >= MinSamples /\ MinSamples \in Nat
        /\ \A k \in 1 .. n : x[k] > 0
    BY ProtocolAssumption, LenProperties, ElementOfSeq
  <1>2. CASE ~mem
    <2>1. s = MarkInvalid([NoStats EXCEPT !.n = n], "allocation")
      <3>1. n # 0 /\ mem = FALSE
        BY <1>1, <1>2
      <3> QED BY <3>1 DEF ComputeStats
    <2>2. s.reasons = {"allocation"} /\ s.n = n
      BY <2>1 DEF MarkInvalid, NoStats
    <2> HIDE DEF s
    <2>3. ~(s.reasons # {"allocation"}) /\ s.n = Len(x)
      BY <2>2
    <2> QED BY <2>3, Zenon DEF Describes, s
  <1>3. CASE mem
    <2>13. x \in Seq(Nat) /\ x \in [1 .. n -> Nat]
      BY <1>1, FunctionIsSeq
    <2>1. PICK p : Ordered(p, x, y, n)
      BY <2>13, SortedOrder DEF Ordered
    <2>2. s = MarkIf(TooWide(x, t.median2), "spread", t)
      <3>1. ~(n < MinSamples) /\ n # 0
        BY <1>1
      <3> QED BY <1>3, <3>1 DEF ComputeStats, MarkIf
    <2>3. t.n = n /\ t.min = y[1] /\ t.max = y[n] /\ t.median2 = m /\ t.valid = TRUE
      BY DEF NoStats
    <2>4. /\ s.n = n /\ s.min = y[1] /\ s.max = y[n] /\ s.median2 = m
          /\ s.valid <=> ~TooWide(x, m)
      <3> HIDE DEF m, y, n
      <3>1. TooWide(x, t.median2) <=> TooWide(x, m)
        BY <2>3
      <3>2. CASE TooWide(x, m)
        <4>1. s = [t EXCEPT !.valid = FALSE, !.reasons = @ \cup {"spread"}]
          BY <2>2, <3>1, <3>2 DEF MarkIf, MarkInvalid
        <4> QED BY <3>2, <4>1 DEF NoStats
      <3>3. CASE ~TooWide(x, m)
        <4>1. s = t
          BY <2>2, <3>1, <3>3 DEF MarkIf
        <4> HIDE DEF s, t
        <4> QED BY <2>3, <3>3, <4>1
      <3> QED BY <3>2, <3>3
    <2>5. TooWide(x, m) <=> m # 0 /\ 40000 * q > MaxStddevPct * MaxStddevPct * m * m * n * n * (n - 1)
      BY DEF TooWide
    <2> HIDE DEF n, y, s, t, q
    <2>6. /\ m \in Nat
          /\ 2 * Cardinality({ k \in 1 .. n : 2 * x[k] < m }) <= n
          /\ 2 * Cardinality({ k \in 1 .. n : 2 * x[k] > m }) <= n
      BY <1>1, <2>1, MedianHalves
    <2> HIDE DEF m
    <2>12. m # 0
      <3> SUFFICES ASSUME m = 0 PROVE FALSE
        OBVIOUS
      <3> DEFINE above == { k \in 1 .. n : 2 * x[k] > m }
      <3>1. above = 1 .. n
        <4>1. ASSUME NEW k \in 1 .. n PROVE 2 * x[k] > m
          <5>1. x[k] \in Nat /\ x[k] > 0
            BY <1>1
          <5> QED BY <5>1
        <4> QED BY <4>1
      <3>2. Cardinality(1 .. n) = n
        <4>1. 1 \in Int /\ n \in Int /\ ~(1 > n) /\ n - 1 + 1 = n
          BY <1>1
        <4> QED BY <4>1, FS_Interval
      <3>3. 2 * Cardinality(above) <= n
        BY <2>6
      <3> HIDE DEF above
      <3>4. 2 * n <= n
        BY <3>1, <3>2, <3>3
      <3> QED BY <1>1, <3>4
    <2>7. \A k \in 1 .. n : x[k] \in y[1] .. y[n]
      <3> TAKE k \in 1 .. n
      <3>1. PICK i \in 1 .. n : p[i] = k
        BY <2>1 DEF Ordered
      <3>2. 1 \in 1 .. n /\ n \in 1 .. n /\ (i = 1 \/ 1 < i) /\ (i = n \/ i < n)
        BY <1>1
      <3>3. y[1] \in Nat /\ y[n] \in Nat /\ x[k] \in Nat /\ y[i] = x[k]
        BY <1>1, <2>1, <3>1, <3>2 DEF Ordered
      <3>4. y[1] <= y[i]
        <4>1. 1 < i => y[1] <= y[i]
          BY <2>1, <3>2, ZenonT(30) DEF Ordered
        <4> QED BY <3>2, <3>3, <4>1
      <3>5. y[i] <= y[n]
        <4>1. i < n => y[i] <= y[n]
          BY <2>1, <3>2 DEF Ordered
        <4> QED BY <3>2, <3>3, <4>1
      <3> QED BY <3>3, <3>4, <3>5
    <2>8. Distances(x) \in Int /\ Total(x) \in Int /\ 2 * q = n * Distances(x)
      <3>1. x \in Seq(Int)
        <4>1. n \in Nat /\ x \in [1 .. n -> Int]
          BY <1>1
        <4> QED BY <4>1, FunctionIsSeq
      <3> QED BY <3>1, SpreadAlike DEF q, n
    <2>9. q \in Int
      <3>1. [k \in 1 .. n |-> (n * x[k] - Total(x)) * (n * x[k] - Total(x))] \in [1 .. n -> Int]
        BY <1>1, <2>8
      <3> DEFINE off == [k \in 1 .. n |-> (n * x[k] - Total(x)) * (n * x[k] - Total(x))]
      <3>2. off \in Seq(Int) /\ Len(off) = n
        BY <1>1, <3>1, FunctionIsSeq
      <3>3. q = Total(off)
        BY DEF q
      <3> HIDE DEF off
      <3> QED BY <3>2, <3>3, SpreadAlike
    <2>10. TooWide(x, m) <=> m # 0 /\ 20000 * Distances(x) > MaxStddevPct * m * (MaxStddevPct * m) * n * (n - 1)
      <3> DEFINE L == MaxStddevPct * MaxStddevPct * m * m
      <3>1. MaxStddevPct \in Int /\ m \in Int /\ L \in Int
        BY <2>6, ProtocolAssumption
      <3>2. MaxStddevPct * m * (MaxStddevPct * m) = L
        BY <3>1
      <3> HIDE DEF L
      <3>3. 40000 * q > L * n * n * (n - 1) <=> 20000 * Distances(x) > L * n * (n - 1)
        <4>1. n \in Nat /\ n > 0 /\ q \in Int /\ Distances(x) \in Int /\ L \in Int
          BY <1>1, <2>8, <2>9, <3>1
        <4>2. 2 * q = n * Distances(x)
          BY <2>8
        <4> DEFINE D == Distances(x)
        <4>3. D \in Int /\ 2 * q = n * D
          BY <4>1, <4>2
        <4> HIDE DEF D
        <4>4. 40000 * q > L * n * n * (n - 1) <=> 20000 * D > L * n * (n - 1)
          BY <4>1, <4>3, SpreadScaled
        <4> QED BY <4>4 DEF D
      <3> QED BY <2>5, <3>2, <3>3 DEF L
    <2>11. TooWide(x, m) <=> m # 0 /\ AboveLimit(x, m)
      BY <2>10 DEF AboveLimit, n
    <2> QED BY <2>4, <2>6, <2>7, <2>11, <2>12 DEF n, s, Describes
  <1> QED BY <1>2, <1>3

-----------------------------------------------------------------------------
(* The samples in the slot, and the record made of them.                   *)

\* What is in the slot; the record before the next configuration is of it.
TimesInv ==
  /\ times \in Seq(Nat \ {0})
  /\ pc = "next" /\ ci # 1 => \E mem \in BOOLEAN : recs[ci - 1].stats = ComputeStats(times, mem)

LEMMA TimeIsATick ==
  ASSUME opts \in Options, ci \in Nat, NEW i \in Nat
  PROVE  TimeOf(i) \in Nat \ {0}
  <1> DEFINE c == opts.clock
             n == Len(c)
             k == ((ci + i) % n) + 1
  <1>1. c \in Seq(Nat \ {0}) /\ c # <<>>
    BY DriverAssumption DEF Options
  <1>2. n \in Nat \ {0}
    BY <1>1, EmptySeq, LenProperties
  <1> HIDE DEF n
  <1>3. k \in 1 .. n
    BY <1>2
  <1>4. c[k] \in Nat \ {0}
    BY <1>1, <1>3, ElementOfSeq DEF n
  <1> QED BY <1>4 DEF TimeOf, n

LEMMA TimesKeep ==
  ASSUME DriverInv, TimesInv, [DriverNext]_allVars
  PROVE  TimesInv'
  <1>0. opts \in Options /\ ci \in Nat /\ Warmup \in Nat /\ Samples \in Nat /\ it \in Nat
    BY SamplesNow, LenProperties DEF DriverInv, ListInv
  <1>1. CASE BeginConfig
    BY <1>1, EmptySeq DEF BeginConfig, Goto, TimesInv
  <1>2. CASE \E mem \in BOOLEAN : TimedCall(mem)
    <2>1. times' = Sampled /\ pc' # "next"
      BY <1>2 DEF TimedCall, Goto
    <2>2. TimeOf(it) \in Nat \ {0}
      BY <1>0, TimeIsATick
    <2>3. Append(times, TimeOf(it)) \in Seq(Nat \ {0})
      BY <2>2, PrefixOfAppend DEF TimesInv
    <2> QED BY <2>1, <2>3 DEF Sampled, TimesInv
  <1>3. CASE \E mem \in BOOLEAN : TimedGemm(mem)
    <2>1. times' = [k \in 1 .. Samples |-> TimeOf(Warmup + k - 1)] /\ pc' # "next"
      BY <1>3 DEF TimedGemm, Unless1, Exit, Goto
    <2>2. ASSUME NEW k \in 1 .. Samples PROVE TimeOf(Warmup + k - 1) \in Nat \ {0}
      <3>1. Warmup + k - 1 \in Nat
        BY <1>0
      <3> QED BY <1>0, <3>1, TimeIsATick
    <2>3. times' \in [1 .. Samples -> Nat \ {0}]
      BY <2>1, <2>2
    <2> QED BY <1>0, <2>1, <2>3, FunctionIsSeq DEF TimesInv
  <1>4. CASE \E mem \in BOOLEAN : Record(mem)
    <2>1. PICK mem \in BOOLEAN : Record(mem)
      BY <1>4
    <2> DEFINE nums == UpTo(Nums(Here.kind) \o Drift, MaxNums)
               rec  == [cfg |-> Here, stats |-> ComputeStats(times, mem), nums |-> nums,
                        printed |-> SubSeq(nums, Len(nums) - 4, Len(nums) - 2)]
    <2>2. times' = times /\ recs' = Append(recs, rec) /\ ci' = ci + 1 /\ pc = "record"
      BY <2>1 DEF Record
    <2>3. rec.stats = ComputeStats(times, mem)
      OBVIOUS
    <2> HIDE DEF rec
    <2>4. SomeSeq(recs) /\ Len(recs) = ci - 1
      BY <2>2 DEF DriverInv, RecordInv, Timing
    <2>5. recs'[Len(recs) + 1] = rec
      BY <2>2, <2>4, AnyAppend
    <2>6. ci' - 1 = Len(recs) + 1
      BY <1>0, <2>2, <2>4
    <2> QED BY <2>2, <2>3, <2>5, <2>6 DEF TimesInv
  <1>5. CASE ProbeEnd
    BY <1>5 DEF ProbeEnd, TimesInv
  <1>6. CASE UNCHANGED <<pc, ci, recs, times>>
    BY <1>6 DEF TimesInv
  <1>7. CASE times' = times /\ pc' # "next"
    BY <1>7 DEF TimesInv
  <1>8. \/ BeginConfig \/ (\E mem \in BOOLEAN : TimedCall(mem) \/ TimedGemm(mem) \/ Record(mem))
        \/ ProbeEnd \/ UNCHANGED <<pc, ci, recs, times>> \/ (times' = times /\ pc' # "next")
    BY DEF DriverNext, ParseArgs, LoadAndServe, AllocateReference, Write, ReserveScratch, ReserveCache,
           ProbeSwitch, Switch, Restore, ProbeSkip, ProbeFill, ProbeCall,
           Reference, Fill, Check, Goto, Exit, Unless1, allVars, driverVars
  <1> QED BY <1>1, <1>2, <1>3, <1>4, <1>5, <1>6, <1>7, <1>8

-----------------------------------------------------------------------------
(* The theorems.                                                           *)

LEMMA StepInv == DriverInv /\ [DriverNext]_allVars => DriverInv'
  <1> SUFFICES ASSUME DriverInv, [DriverNext]_allVars PROVE DriverInv'
    OBVIOUS
  <1>1. CASE ParseArgs
    BY <1>1, ParseArgsKeeps
  <1>2. CASE \E ok \in BOOLEAN : LoadAndServe(ok) \/ AllocateReference(ok) \/ Write(ok)
    BY <1>2, LoadAndServeKeeps, AllocateReferenceKeeps, WriteKeeps
  <1>3. CASE \E mem \in BOOLEAN : ReserveScratch(mem) \/ ReserveCache(mem)
    BY <1>3, ReserveScratchKeeps, ReserveCacheKeeps
  <1>4. CASE ProbeSwitch \/ Restore("probe_restore", "probe_call") \/ ProbeSkip \/ ProbeEnd
    BY <1>4, ProbeSwitchKeeps, ProbeRestoreKeeps, ProbeSkipKeeps, ProbeEndKeeps
  <1>5. CASE \E mem \in BOOLEAN : ProbeFill(mem) \/ ProbeCall(mem)
    BY <1>5, ProbeFillKeeps, ProbeCallKeeps
  <1>6. CASE BeginConfig
    BY <1>6, BeginConfigKeeps
  <1>7. CASE Switch("ref_path", "nocache", "reference") \/ Switch("fill_path", "cache", "fill")
    BY <1>7, RefPathKeeps, FillPathKeeps
  <1>8. CASE Restore("fill_restore", "check") \/ Restore("restore", "time")
    BY <1>8, FillRestoreKeeps, RestoreKeeps
  <1>9. CASE \E mem \in BOOLEAN : Reference(mem) \/ Fill(mem) \/ Check(mem)
    BY <1>9, ReferenceKeeps, FillKeeps, CheckStepKeeps
  <1>10. CASE \E mem \in BOOLEAN : TimedCall(mem) \/ TimedGemm(mem)
    BY <1>10, TimedCallKeeps, TimedGemmKeeps
  <1>11. CASE \E mem \in BOOLEAN : Record(mem)
    BY <1>11, RecordKeeps
  <1>12. CASE UNCHANGED allVars
    <2>1. UNCHANGED <<path, capacity, held, room, opts, pc, cfgs, ci, it, times, ref, recs, code>>
      BY <1>12 DEF allVars, contractVars, driverVars
    <2>2. CacheInv' /\ ListInv'
      BY <2>1, SameList DEF DriverInv, CacheInv, ListInv
    <2>3. RecordInv' /\ SampleInv'
      <3>1. Samples' = Samples /\ Warmup' = Warmup /\ Taken' = Taken
        BY <2>1, SameList DEF Taken
      <3> QED BY <2>1, <3>1 DEF DriverInv, RecordInv, SampleInv
    <2>4. PathInv'
      BY <2>1, SameConfig DEF DriverInv, PathInv, PathOf, Ready, Butlast
    <2> QED BY <2>2, <2>3, <2>4 DEF DriverInv
  <1> QED BY <1>1, <1>2, <1>3, <1>4, <1>5, <1>6, <1>7, <1>8, <1>9, <1>10, <1>11, <1>12 DEF DriverNext

\* DriverInv is an invariant of the driver.
THEOREM DriverInductive == DriverSpec => []DriverInv
  <1> QED BY StartInv, StepInv, PTL DEF DriverSpec

\* DriverTypeOK: in particular the cache never holds more than was reserved,
\* and no more iterations run than were asked for.
THEOREM DriverTypeCorrect == DriverSpec => []DriverTypeOK
  <1>1. DriverInv => DriverTypeOK
    <2> SUFFICES ASSUME DriverInv PROVE DriverTypeOK
      OBVIOUS
    <2>1. DOMAIN recs \subseteq DOMAIN cfgs
      <3>1. SomeSeq(recs) /\ Len(cfgs) \in Nat /\ DOMAIN cfgs = 1 .. Len(cfgs)
            /\ ci \in 1 .. Len(cfgs) + 1
        BY LenProperties DEF DriverInv, ListInv, RecordInv
      <3>2. DOMAIN recs = 1 .. Len(recs) /\ Len(recs) \in Nat
        BY <3>1, AnyAppend
      <3>3. recs = <<>> => DOMAIN recs = {}
        OBVIOUS
      <3>4. recs = <<>> \/ Len(recs) <= Len(cfgs)
        BY <3>1 DEF DriverInv, RecordInv
      <3> QED BY <3>1, <3>2, <3>3, <3>4
    <2> QED BY <2>1 DEF DriverInv, CacheInv, ListInv, RecordInv, SampleInv, DriverTypeOK
  <1> QED BY <1>1, DriverInductive, PTL

\* RecordsInOrder: the records are those of the list, one for each and in its
\* order, and a run that exits 0 has timed all of them.
THEOREM RecordsFollowTheList == DriverSpec => []RecordsInOrder
  <1>1. DriverInv => RecordsInOrder
    BY DEF DriverInv, RecordInv, RecordsInOrder
  <1> QED BY <1>1, DriverInductive, PTL

\* TimedCallsAnswer: what is timed is an answer.  A cached decode answers every
\* time, at the length its configuration names; a prefill or a no-cache decode
\* does whenever the model accepts its tokens and the scratch was reserved.
THEOREM TimedCallsAreAnswered == DriverSpec => TimedCallsAnswer
  <1> DEFINE Timed == /\ pc = "time" /\ it' # it
                      /\ CachedDecode \/ (Ids \in Contexts /\ room >= Len(Ids))
  <1>1. DriverInv /\ [DriverNext]_allVars => [Timed => Answered]_allVars
    <2> SUFFICES ASSUME DriverInv, DriverNext, Timed PROVE Answered
      BY DEF allVars
    <2>1. PICK mem \in BOOLEAN : TimedCall(mem)
      BY DEF DriverNext, ParseArgs, LoadAndServe, AllocateReference, Write, ReserveScratch, ReserveCache,
             ProbeSwitch, Switch, Restore, ProbeSkip, ProbeEnd, ProbeFill, ProbeCall, BeginConfig,
             Reference, Fill, Check, TimedGemm, Record
    <2>2. CallHere(mem)
      BY <2>1 DEF TimedCall
    <2>3. CASE CachedDecode
      <3>1. last' = [status |-> "OK", logits |-> <<Ids>>]
        BY <2>2, <2>3, CachedAnswers
      <3> QED BY <2>3, <3>1 DEF Answered, CachedDecode
    <2>4. CASE ~CachedDecode
      <3>1. /\ Ids \in Contexts /\ room >= Len(Ids) /\ path = PathOf(Here) /\ CacheInv
            /\ Ids \in Seq(Tokens \cup {BadToken}) /\ Here.kind \in {"prefill", "decode"}
            /\ Here.cache \in BOOLEAN /\ (Here.cache => Len(Ids) <= capacity)
        BY <2>4, HereServed DEF Within, Timing, DriverInv, PathInv
      <3>2. CASE Here.kind = "prefill"
        <4>1. Prefill(Ids, TRUE, mem) /\ (path = "cache" => Len(Ids) <= capacity)
          BY <2>2, <3>1, <3>2 DEF CallHere, PathOf
        <4> QED BY <3>1, <3>2, <4>1, PrefillKeeps DEF Answered
      <3>3. CASE Here.kind = "decode"
        <4>1. DecodeStepUncached(Ids, TRUE, mem)
          BY <2>2, <2>4, <3>1, <3>3 DEF CallHere, DecodeStep, PathOf, CachedDecode
        <4> QED BY <3>1, <3>3, <4>1, DecodeUncachedKeeps DEF Answered
      <3> QED BY <3>1, <3>2, <3>3
    <2> QED BY <2>3, <2>4
  <1> QED BY <1>1, DriverInductive, PTL DEF DriverSpec, TimedCallsAnswer

LEMMA StatisticsOfTheSlot == DriverSpec => [](DriverInv /\ TimesInv)
  <1>1. DriverInit => TimesInv
    BY EmptySeq DEF DriverInit, TimesInv
  <1>2. DriverInv /\ TimesInv /\ [DriverNext]_allVars => TimesInv'
    BY TimesKeep
  <1> QED BY <1>1, <1>2, DriverInductive, PTL DEF DriverSpec

\* StatsAreOfTheSamples: whatever the calls take, a record's statistics are
\* those of the samples in its slot - their number and bounds, a value with no
\* more than half of them on either side, and INVALID exactly for a spread
\* above the limit.
THEOREM StatisticsAreOfTheSamples == DriverSpec => []StatsAreOfTheSamples
  <1>1. DriverInv /\ TimesInv => StatsAreOfTheSamples
    <2> SUFFICES ASSUME DriverInv, TimesInv PROVE StatsAreOfTheSamples
      OBVIOUS
    <2>1. /\ Samples \in Nat /\ Samples >= MinSamples /\ Samples <= MaxSamples
          /\ Samples >= opts.samples \/ Samples = MaxSamples
          /\ MinSamples \in Nat /\ MaxSamples \in Nat /\ opts.samples \in Nat
      BY SampleBounds, ProtocolAssumption, DriverAssumption DEF DriverInv, ListInv, Options
    <2>2. Len(times) \in Nat /\ Len(times) <= Samples /\ times \in Seq(Nat \ {0})
      BY SamplesNow DEF DriverInv, SampleInv, TimesInv
    <2>3. Len(times) <= MaxSamples
      BY <2>1, <2>2
    <2>4. ASSUME pc = "next", recs # <<>>, Len(recs) = ci - 1
          PROVE  /\ Describes(recs[ci - 1].stats, times)
                 /\ Len(times) >= MinSamples /\ (Len(times) >= opts.samples \/ Len(times) = MaxSamples)
      <3>1. Len(times) = Samples
        BY <2>4 DEF DriverInv, SampleInv
      <3>2. ci # 1
        <4>1. PICK S : recs \in Seq(S)
          BY DEF DriverInv, RecordInv, SomeSeq
        <4>2. Len(recs) # 0
          BY <2>4, <4>1, EmptySeq
        <4> QED BY <2>4, <4>2
      <3>3. PICK mem \in BOOLEAN : recs[ci - 1].stats = ComputeStats(times, mem)
        BY <2>4, <3>2 DEF TimesInv
      <3>4. Len(times) >= MinSamples /\ (Len(times) >= opts.samples \/ Len(times) = MaxSamples)
        BY <2>1, <3>1
      <3> QED BY <2>2, <3>3, <3>4, StatsOf
    <2> QED BY <2>3, <2>4 DEF StatsAreOfTheSamples, Describes
  <1> QED BY <1>1, StatisticsOfTheSlot, PTL
=============================================================================
