----------------------------- MODULE BenchDriver -----------------------------
(***************************************************************************)
(* The timed driver bench/stage2_forward_bench.c, with the warmup-and-     *)
(* sample loop bench_run of bench/microbench/bench_common.cu, composed     *)
(* with the engine's contract: arguments, fixture rows, reservations, the  *)
(* untimed probe of every configuration, and the one ordered loop that     *)
(* checks, times and records each of them.                                 *)
(*                                                                         *)
(* Data abstraction: times are left out, what a timed call answers is kept *)
(* (logits are contexts, see CacheContract); a record is its configuration *)
(* and the keys of its numbers in the order they were added.               *)
(***************************************************************************)
EXTENDS CacheContract, BenchCommon

CONSTANTS
  ConfigLists,     \* the values of --configs; <<>> when it is absent
  LengthLists,     \* the values of --lengths
  ContextLists,    \* the values of --contexts
  Fixtures,        \* the prompt files: rows of a declared count and of token ids
  Repeats,         \* the values of --repeat
  SampleCounts,    \* the values of --samples
  WarmupCounts,    \* the values of --warmup
  Clocks,          \* the times that calls take, one after another and again
  MaxSamples, MaxRecords, MaxNums \* the sizes of a slot's samples, the slots, a slot's numbers

\* A count is a C int; that of a matrix product is never converted.
Counts == { n \in Nat : 2 * n < IntModulus }
Cfgs ==
  [kind : {"prefill", "decode"}, tokens : Counts, cache : BOOLEAN]
  \cup [kind : {"gemm"}, tokens : Nat, cache : {FALSE}]

\* A row's ids are the tokenizer's, which the model need not have; what a
\* record times takes at least a tick of the timer.
ASSUME DriverAssumption ==
  /\ ConfigLists \subseteq Seq(Cfgs)
  /\ LengthLists \subseteq Seq(Counts) /\ ContextLists \subseteq Seq(Counts)
  /\ Fixtures \subseteq Seq([target : Nat, ids : Seq(Tokens \cup {BadToken})])
  /\ SampleCounts \subseteq Nat /\ WarmupCounts \subseteq Nat
  /\ {MaxSamples, MaxRecords, MaxNums} \subseteq Nat /\ MinSamples <= MaxSamples
  /\ Clocks \subseteq Seq(Nat \ {0}) \ {<<>>}
  /\ \A list \in ConfigLists : Len(list) <= MaxRecords

VARIABLES
  opts,     \* the command line and the prompt file
  pc,       \* where main is
  cfgs,     \* the ordered list of configurations
  ci,       \* the configuration being probed or timed
  it,       \* the iterations bench_run has run of it
  times,    \* the samples in its slot
  ref,      \* the logits of the no-cache reference step
  recs,     \* the records
  code      \* the exit status

driverVars == <<opts, pc, cfgs, ci, it, times, ref, recs, code>>
allVars    == <<contractVars, driverVars>>

Options ==
  [configs : ConfigLists, lengths : LengthLists, contexts : ContextLists,
   prefillCache : BOOLEAN, decodeCache : BOOLEAN, fixture : Fixtures,
   repeat : Repeats, samples : SampleCounts, warmup : WarmupCounts, probe : BOOLEAN,
   clock : Clocks]

DriverInit ==
  /\ ContractInit
  /\ opts \in Options
  /\ pc = "args" /\ cfgs = <<>> /\ ci = 1 /\ it = 0 /\ times = <<>>
  /\ ref = <<>> /\ recs = <<>> /\ code = 0

Exit(c)     == pc' = "exit" /\ code' = c
Goto(label) == pc' = label /\ UNCHANGED code
Unless1(failed, label) == IF failed THEN Exit(1) ELSE Goto(label)

Config(kind, tokens, cache) == [kind |-> kind, tokens |-> tokens, cache |-> cache]
Gemm(n) == Config("gemm", n, FALSE)

\* A list cut off at n items.
UpTo(list, n) == IF Len(list) <= n THEN list ELSE Take(list, n)

(* The list of a bare invocation: the prefills and the decodes as long as  *)
(* there is room for them, then two matrix products, room or no room.      *)
DefaultList ==
  UpTo([i \in DOMAIN opts.lengths |-> Config("prefill", opts.lengths[i], opts.prefillCache)]
       \o [i \in DOMAIN opts.contexts |-> Config("decode", opts.contexts[i], opts.decodeCache)],
       MaxRecords)
  \o << Gemm(768), Gemm(3072) >>

\* What main and then bench_run make of --samples and --warmup.
Samples == LET asked == IF opts.samples > MaxSamples THEN MaxSamples ELSE opts.samples
           IN  IF asked < MinSamples THEN MinSamples ELSE asked
Warmup  == IF opts.warmup < MinWarmup THEN MinWarmup ELSE opts.warmup

(* The row that serves a configuration: the first whose declared count is  *)
(* its own, else the first with no declared count that is long enough.     *)
RowsFor(tokens) ==
  LET rows  == opts.fixture
      exact == { i \in DOMAIN rows : rows[i].target = tokens /\ Len(rows[i].ids) >= tokens }
      free  == { i \in DOMAIN rows : rows[i].target = 0 /\ Len(rows[i].ids) >= tokens }
  IN  IF exact # {} THEN exact ELSE free

RowFor(tokens) ==
  LET least == CHOOSE i \in RowsFor(tokens) : \A j \in RowsFor(tokens) : i <= j
  IN  Take(opts.fixture[least].ids, tokens)

Here    == cfgs[ci]
Ids     == RowFor(Here.tokens)
Forward == { i \in DOMAIN cfgs : cfgs[i].kind # "gemm" }

MaxNeeded ==
  IF Forward = {} THEN 0
  ELSE CHOOSE n \in { cfgs[i].tokens : i \in Forward } : \A i \in Forward : cfgs[i].tokens <= n

CachedDecode == Here.kind = "decode" /\ Here.cache
PathOf(cfg)  == IF cfg.cache THEN "cache" ELSE "nocache"
-----------------------------------------------------------------------------
\* Everything before the first call of the engine.
ParseArgs ==
  /\ pc = "args"
  /\ IF opts.repeat # 1 THEN Exit(2) ELSE Goto("load")
  /\ cfgs' = IF opts.repeat # 1 THEN cfgs
             ELSE IF opts.configs # <<>> THEN opts.configs ELSE DefaultList
  /\ UNCHANGED <<contractVars, opts, ci, it, times, ref, recs>>

RowsExact == \A i \in DOMAIN opts.fixture :
               opts.fixture[i].target \in {0, Len(opts.fixture[i].ids)}

AllServed == \A i \in Forward : RowsFor(cfgs[i].tokens) # {}

LoadAndServe(ok) ==
  /\ pc = "load"
  /\ Unless1(~ok \/ ~RowsExact \/ ~AllServed, "reserve")
  /\ UNCHANGED <<contractVars, opts, cfgs, ci, it, times, ref, recs>>

AnyCache == \E i \in Forward : cfgs[i].cache

ReserveScratch(mem) ==
  /\ pc = "reserve"
  /\ Reserve(MaxNeeded, mem)
  /\ Goto(IF AnyCache THEN "kv" ELSE "logits_ref")
  /\ UNCHANGED <<opts, cfgs, ci, it, times, ref, recs>>

ReserveCache(mem) ==
  /\ pc = "kv"
  /\ KvReserve(MaxNeeded, mem)
  /\ Unless1(last'.status # "OK", "logits_ref")
  /\ UNCHANGED <<opts, cfgs, ci, it, times, ref, recs>>

\* The second logits buffer, which the check compares with.
AllocateReference(ok) ==
  /\ pc = "logits_ref"
  /\ Unless1(~ok, "probe")
  /\ UNCHANGED <<contractVars, opts, cfgs, ci, it, times, ref, recs>>
-----------------------------------------------------------------------------
(* Calls of the engine whose status nobody looks at: `to` is where main    *)
(* goes whatever they answer.                                              *)
Switch(from, p, to) ==
  /\ pc = from
  /\ SetDecodePath(p)
  /\ Goto(to)
  /\ UNCHANGED <<opts, cfgs, ci, it, times, ref, recs>>

Restore(from, to) ==
  /\ pc = from
  /\ KvSetLength(Here.tokens - 1)
  /\ Goto(to)
  /\ UNCHANGED <<opts, cfgs, ci, it, times, ref, recs>>

\* The call a configuration names.
CallHere(mem) ==
  IF Here.kind = "prefill" THEN Prefill(Ids, TRUE, mem)
  ELSE IF Here.cache THEN DecodeStepCached(Ids, TRUE, mem)
  ELSE DecodeStep(Ids, TRUE, mem)

\* The probe: one untimed call of every configuration but the matrix products.
ProbeSwitch ==
  /\ ci \in Forward
  /\ Switch("probe", PathOf(Here), IF CachedDecode THEN "probe_fill" ELSE "probe_call")

ProbeFill(mem) ==
  /\ pc = "probe_fill"
  /\ Prefill(Butlast(Ids), TRUE, mem)
  /\ Goto("probe_restore")
  /\ UNCHANGED <<opts, cfgs, ci, it, times, ref, recs>>

ProbeCall(mem) ==
  /\ pc = "probe_call"
  /\ CallHere(mem)
  /\ ci' = ci + 1
  /\ Goto("probe")
  /\ UNCHANGED <<opts, cfgs, it, times, ref, recs>>

ProbeSkip ==
  /\ pc = "probe" /\ ci \in DOMAIN cfgs \ Forward
  /\ ci' = ci + 1
  /\ UNCHANGED <<contractVars, opts, pc, cfgs, it, times, ref, recs, code>>

\* Mutant: the timed pass goes on where the probe ended.
ProbeEndStays ==
  /\ pc = "probe" /\ ci > Len(cfgs)
  /\ SetDecodePath("nocache")
  /\ IF opts.probe THEN Exit(0) ELSE Goto("next")
  /\ UNCHANGED <<opts, cfgs, ci, it, times, ref, recs>>

ProbeEnd ==
  /\ pc = "probe" /\ ci > Len(cfgs)
  /\ SetDecodePath("nocache")
  /\ IF opts.probe THEN Exit(0) ELSE Goto("next")
  /\ ci' = 1
  /\ UNCHANGED <<opts, cfgs, it, times, ref, recs>>
-----------------------------------------------------------------------------
(* The timed pass.  A cached decode is preceded by the check: the no-cache *)
(* reference step, the fill of the first c-1 positions, and the cached     *)
(* step, each of which ends the run when it fails, as a mismatch does.     *)
\* Mutant: the iterations of the last configuration count.
BeginConfigNoReset ==
  /\ pc = "next" /\ ci \in Forward
  /\ SetDecodePath(PathOf(Here))
  /\ Goto(IF CachedDecode THEN "ref_path" ELSE "time")
  /\ UNCHANGED <<opts, cfgs, ci, it, times, ref, recs>>

BeginConfig ==
  /\ pc = "next" /\ ci \in Forward
  /\ SetDecodePath(PathOf(Here))
  /\ Goto(IF CachedDecode THEN "ref_path" ELSE "time")
  /\ it' = 0 /\ times' = <<>>
  /\ UNCHANGED <<opts, cfgs, ci, ref, recs>>

Reference(mem) ==
  /\ pc = "reference"
  /\ DecodeStep(Ids, TRUE, mem)
  /\ ref' = IF last'.status = "OK" THEN last'.logits ELSE ref
  /\ Unless1(last'.status # "OK", "fill_path")
  /\ UNCHANGED <<opts, cfgs, ci, it, times, recs>>

Fill(mem) ==
  /\ pc = "fill"
  /\ Prefill(Butlast(Ids), TRUE, mem)
  /\ Unless1(last'.status # "OK", "fill_restore")
  /\ UNCHANGED <<opts, cfgs, ci, it, times, ref, recs>>

Check(mem) ==
  /\ pc = "check"
  /\ DecodeStepCached(Ids, TRUE, mem)
  /\ Unless1(last'.status # "OK" \/ last'.logits # ref, "restore")
  /\ UNCHANGED <<opts, cfgs, ci, it, times, ref, recs>>

\* How long an iteration of this configuration takes; what is in the slot after it.
TimeOf(i) == opts.clock[((ci + i) % Len(opts.clock)) + 1]

Sampled == IF it < Warmup THEN times ELSE Append(times, TimeOf(it))

(* bench_run: one iteration after another, the warmup's samples discarded. *)
\* Mutant: the length is not restored between iterations.
TimedCallNoRestore(mem) ==
  /\ pc = "time"
  /\ CallHere(mem)
  /\ it' = it + 1 /\ times' = Sampled
  /\ Goto(IF it + 1 = Warmup + Samples THEN "record" ELSE "time")
  /\ UNCHANGED <<opts, cfgs, ci, ref, recs>>

TimedCall(mem) ==
  /\ pc = "time"
  /\ CallHere(mem)
  /\ it' = it + 1 /\ times' = Sampled
  /\ Goto(IF it + 1 = Warmup + Samples THEN "record"
          ELSE IF CachedDecode THEN "restore" ELSE "time")
  /\ UNCHANGED <<opts, cfgs, ci, ref, recs>>

\* A matrix product has operands of its own, and no engine call.
TimedGemm(mem) ==
  /\ pc = "next" /\ ci \in DOMAIN cfgs \ Forward
  /\ Unless1(~mem, "record")
  /\ it' = 0 /\ times' = [k \in 1 .. Samples |-> TimeOf(Warmup + k - 1)]
  /\ UNCHANGED <<contractVars, opts, cfgs, ci, ref, recs>>

\* The numbers of a record in the order they are added, the drift's last.
Nums(kind) ==
  CASE kind = "prefill" ->
         << "tokens", "repeat_requested", "repeat_applied", "cache_capacity", "cache_bytes",
            "context_tokens", "vocab_size", "n_layer", "prompt_set_owning_stage",
            "thread_pinned", "thread_logical_cpu" >>
    [] kind = "decode" ->
         << "context_tokens", "tokens_generated", "repeat_requested", "repeat_applied",
            "cache_capacity", "cache_bytes", "cached_positions", "vocab_size", "n_layer",
            "prompt_set_owning_stage", "thread_pinned", "thread_logical_cpu" >>
    [] kind = "gemm" ->
         << "M", "N", "K", "repeat_requested", "repeat_applied", "flops", "b_operand_bytes",
            "a_operand_bytes", "c_operand_bytes", "gflops", "thread_pinned",
            "thread_logical_cpu" >>

Drift == << "first_half_median_ms", "second_half_median_ms", "drift_pct",
            "n_first_half", "n_second_half" >>

Record(mem) ==
  /\ pc = "record"
  /\ LET nums == UpTo(Nums(Here.kind) \o Drift, MaxNums)
         n    == Len(nums)
     IN  recs' = Append(recs, [cfg |-> Here, stats |-> ComputeStats(times, mem), nums |-> nums,
                               printed |-> SubSeq(nums, n - 4, n - 2)])
  /\ ci' = ci + 1
  /\ Goto("next")
  /\ UNCHANGED <<contractVars, opts, cfgs, it, times, ref>>

Write(ok) ==
  /\ pc = "next" /\ ci > Len(cfgs)
  /\ SetDecodePath("nocache")
  /\ Exit(IF ok THEN 0 ELSE 1)
  /\ UNCHANGED <<opts, cfgs, ci, it, times, ref, recs>>

DriverNext ==
  \/ ParseArgs
  \/ \E ok \in BOOLEAN : LoadAndServe(ok) \/ AllocateReference(ok) \/ Write(ok)
  \/ \E mem \in BOOLEAN : ReserveScratch(mem) \/ ReserveCache(mem)
  \/ ProbeSwitch \/ Restore("probe_restore", "probe_call") \/ ProbeSkip \/ ProbeEnd
  \/ \E mem \in BOOLEAN : ProbeFill(mem) \/ ProbeCall(mem)
  \/ BeginConfig
  \/ Switch("ref_path", "nocache", "reference") \/ Switch("fill_path", "cache", "fill")
  \/ Restore("fill_restore", "check") \/ Restore("restore", "time")
  \/ \E mem \in BOOLEAN : Reference(mem) \/ Fill(mem) \/ Check(mem)
  \/ \E mem \in BOOLEAN : TimedCall(mem) \/ TimedGemm(mem)
  \/ \E mem \in BOOLEAN : Record(mem)

DriverSpec == DriverInit /\ [][DriverNext]_allVars
-----------------------------------------------------------------------------
(* Every variable has its type: in particular the cache never holds more   *)
(* than it was reserved for.                                               *)
DriverTypeOK ==
  /\ path \in Paths /\ capacity \in 0 .. NCtx /\ Len(held) <= capacity
  /\ opts \in Options /\ code \in 0 .. 2
  /\ ci \in 1 .. Len(cfgs) + 1 /\ it \in 0 .. Warmup + Samples
  /\ DOMAIN recs \subseteq DOMAIN cfgs

\* The call that was timed answered with the logits of its configuration's tokens.
Answered ==
  last' = [status |-> "OK",
           logits |-> IF Here.kind = "prefill" THEN [t \in 1 .. Len(Ids) |-> Take(Ids, t)]
                      ELSE << Ids >>]

(* A timed call is answered with the logits its configuration names: a     *)
(* cached decode always, at exactly c-1 cached positions however often it  *)
(* is repeated and whatever was timed before it; a prefill or a no-cache   *)
(* decode, whose status nobody looks at, when the model accepts its tokens *)
(* and the reservation at the start, whose status nobody looks at either,  *)
(* succeeded.                                                              *)
TimedCallsAnswer ==
  [][pc = "time" /\ it' # it
     /\ (CachedDecode \/ (Ids \in Contexts /\ room >= Len(Ids))) => Answered]_allVars

(* One record per configuration, in the order of the list: a configuration *)
(* and its control stay adjacent, and a run that exits 0 has timed all.    *)
RecordsInOrder ==
  /\ \A i \in DOMAIN recs : recs[i].cfg = cfgs[i]
  /\ pc = "exit" /\ code = 0 => IF opts.probe THEN recs = <<>> ELSE Len(recs) = Len(cfgs)

\* Twice the squares of the samples' distances, without a mean.
Distances(x) ==
  Total([i \in DOMAIN x |-> Total([j \in DOMAIN x |-> (x[i] - x[j]) * (x[i] - x[j])])])

\* The standard deviation is above the limit's share of half of median2.
AboveLimit(x, median2) ==
  LET n == Len(x)
      limit == MaxStddevPct * median2
  IN  20000 * Distances(x) > limit * limit * n * (n - 1)

(* A record's statistics are those of its timed samples: as many as        *)
(* bench_run ran after the warmup, all inside the slot, whatever --samples *)
(* was; at most half of them on either side of the value; and INVALID      *)
(* exactly when their standard deviation is above five per cent of it.     *)
StatsAreOfTheSamples ==
  /\ Len(times) <= MaxSamples
  /\ pc = "next" /\ recs # <<>> /\ Len(recs) = ci - 1 =>
       LET s == recs[ci - 1].stats
           n == Len(times)
           part(S) == 2 * Cardinality(S) <= n
           wide == AboveLimit(times, s.median2)
       IN  /\ s.n = n /\ n >= MinSamples /\ (n >= opts.samples \/ n = MaxSamples)
           /\ s.reasons # {"allocation"} =>
                /\ part({ k \in 1 .. n : 2 * times[k] < s.median2 })
                /\ part({ k \in 1 .. n : 2 * times[k] > s.median2 })
                /\ \A k \in 1 .. n : times[k] \in s.min .. s.max
                /\ (~s.valid) <=> wide

(* The drift diagnostic is in every record, and the three figures printed  *)
(* as the drift are the drift's.                                           *)
DriftReported ==
  \A i \in DOMAIN recs :
    /\ \A k \in DOMAIN Drift : \E j \in DOMAIN recs[i].nums : recs[i].nums[j] = Drift[k]
    /\ recs[i].printed = Take(Drift, 3)
=============================================================================
