# A verification project for the transformer inference engine

TLA+ models of the engine's own logic, checked with TLC on small instances; the
safety properties of the engine, the program, the driver, the harness and the
tokenizer, what the two loaders hold and find, and that the weight file's table is
what its header declares, are also proved with TLAPS for every value of the
constants. The reference is
the code under `src/`; each definition that stands for code is listed with its
lines in `PROJECT.json` ("map").

## 1. The system

| Component | State | Operations | Interacts with |
|---|---|---|---|
| KV cache store (`src/kv_cache.c`) | per layer a K and a V buffer of `capacity` rows; one length counter | create, destroy, set_length, write, append, advance | called by the engine only |
| Inference engine (`src/model.c`) | weights, decode-path switch, cache pointer, activation scratch, attention statistics | load, free, reserve, kv_reserve, kv_set_length, prefill, decode_step, decode_step_cached | called by main, the bench driver and the tests |
| Program (`src/main.c`) | options, ids, one logits buffer | load, encode, prefill or assemble by cached steps, dump, greedy loop, print | tokenizer, engine |
| Forward benchmark driver (`bench/stage2_forward_bench.c`) | configuration list, prompt rows, record slots | probe, check, timed loop, record, write | engine, benchmark library; started by the harness |
| Benchmark library (`bench/microbench/bench_common.cu`) | thread placement | bench_run, statistics, validity, results file | used by the driver and the microbenchmarks |
| Tokenizer (`src/tokenizer.c`) | vocabulary, merges, added tokens, byte alphabet | load, encode, decode | main, driver |
| SafeTensors reader (`src/safetensors.c`) | the open file, its header text, its table of tensors | open, find, read, close, inventory | engine's loader, inventory tool |
| Matrix product (`src/gemm/`) | none | mul, mul_bt | engine |
| Harness (`bench/harness.py`) | configurations, probes, records, parts of a session | preflight, probe, timed run, verify, assemble, merge, compare | starts the driver; reads the machine gate and correctness results |
| Machine gate (`bench/machine_state.py`) | stored fingerprint, telemetry samples | query, verify the clock lock, capture and verify the fingerprint, sample telemetry in a thread | used by the harness's preflight and the microbenchmarks' runner |
| Correctness checker (`bench/correctness.py`) | fixtures, dumps | run, compare, agree | starts the program |
| Microbenchmarks, profiler, variance analysis, Python references | result files | measure, summarise | offline |

The C side is single threaded: there is no lock and no message between threads
(the one thread of the repository is the telemetry sampler of
`bench/machine_state.py`, beside a microbenchmark).
What is hard about it is *sequence* and *partial failure*: the cache, the
scratch and the decode path are state shared by all calls, the callers ignore
some statuses, every allocation may fail, and correctness means that two
different ways of computing (one prefill; a prefill and cached steps) agree
after any legal sequence of calls. The Python side is a protocol between
processes: the harness starts the driver, checks what it confirmed, and joins
partial sessions.

What makes each component correct:

* **Cache store** - the length stays within the capacity; a refused write
  changes nothing; a position is present in every layer or in none.
* **Engine** - refusals come before arithmetic and change nothing; buffers
  cover the running pass however reallocations failed; cached and no-cache
  decoding answer the same; the whole is one token sequence to its caller.
* **Program** - the text is the greedy continuation whichever path computed
  it; the dumped matrix is the prefill's; a run that fits is not refused.
* **Driver** - every timed call answers what its configuration names, from the
  same cached length each time; one record per configuration, in order; no
  sample and no field is written past, or dropped from, its slot.
* **Tokenizer** - pieces follow the pattern; merging equals the reference;
  buffers are not overrun; decoding inverts encoding; it terminates.
* **Harness** - a results file is one measurement: every record confirmed by
  the driver, one build, each configuration once, as it was measured;
  changes are reported between like and like; a refusal touches no file.
* **SafeTensors reader and loader** - an accepted header *is* the table, and
  every range in it lies in the file; a loaded model is the one that was
  inventoried, read in the orientation the file pins; whatever fails, what was
  acquired is given back, once.
* **Tokenizer's loader** - the look-ups answer what the artifact declares, for
  any collisions; a failed load holds nothing; spellings decode through the byte
  alphabet exactly when they are well-formed.
* **Benchmark library** - the statistics of a record are those of the samples
  it publishes, and VALID means what the protocol says.
* **Machine gate, correctness checker** - see the plan.

The hazards list in `PROJECT.json` names each place where this can go wrong.

## 2. Modules

```
 KVCache   EngineApi ------------------+
     \      /    \                     |
      Engine      CacheContract        |  (same argument checks)
        |   \        |        \        |
        |  EngineRefinement   Generate, BenchDriver - BenchCommon
        |        |                |         |
        |   EngineProofs          |         |
     MCEngine               MCGenerate  MCBenchDriver

   Memory   JsonScan
      \     /      \
    SafeTensors   TokenizerLoad           Tokenizer - MCTokenizer
        |              |                  Harness   - MCHarness
    ModelLoad    MCTokenizerLoad
        |              |
   MCModelLoad      JsonText (texts for both)

   SequenceLemmas <- GenerateProofs, BenchDriverProofs, HarnessProofs,
                     TokenizerProofs, LoadProofs, TokenizerLoadProofs
```

* **KVCache** - the store as a value with one operator per C function. A K and
  a V row are written together from the same activation, so they are one row.
* **EngineApi** - the order of the early returns of each entry point, as
  statuses, shared by the engine and its contract. Conversions from `size_t`
  to `int` in `model_kv_reserve` keep their width (`IntModulus`).
* **Engine** - `path`, `kv`, `scratch`, `pass` and `last` are
  `m->decode_path`, `m->kv`, `m->scratch_tokens` with the six buffers, the
  C frame of the running pass, and the caller's view of the last return. A
  forward pass is an entering step (checks, `model_reserve`) and one step per
  layer (`LayerStep`, `LastLayer`), so the states halfway through a pass are
  visible. An activation is *identified with the token sequence it was
  computed from*: the engine is deterministic and both paths reduce in the same
  order (the header of `src/model.c`), so equal contexts are equal floats, and
  attention over rows that do not belong together yields `Mixed`. A cached step
  does not look at the tokens before its last one, and neither does the model:
  its context comes from the rows of the cache.
* **CacheContract** - what `src/model.h` promises a caller: the cache is one
  sequence `held`, every call is atomic. **EngineRefinement** gives the mapping
  (`held` is the context of the last row of the last layer) and states
  `ContractHolds`.
* **Generate** - `main`, one action per call or block between two calls,
  composed with the contract.
* **BenchDriver** - the driver and `bench_run`, likewise. A record is its
  configuration, the *keys* of its numbers and its statistics. An iteration takes
  the time a clock of the run shows for it (`Clocks`: short patterns of ticks).
* **BenchCommon** - `bench_compute_stats` and its validity rules over natural
  numbers of ticks; fractions are exact (the median is doubled, the deviation
  compared squared), where the code rounds doubles.
* **Memory** - `malloc`, `realloc`, `fopen` and their counterparts as the two
  readers use them: the set of objects held, and whether anything was released
  or written that was not the program's.
* **JsonScan** - the scanner the weight file's and the tokenizer's readers have
  in common. Each file of the C code has its own copy; where they differ
  (the scalars that may be skipped, the nesting) is a parameter, and the
  map names the copy of `src/safetensors.c`.
* **SafeTensors** - `st_open` opens, reads the header and fills the table an
  entry at a time (`ReadEntry`, `ReadPair` for the metadata), `st_grow` doubling
  it; then `st_find`, `st_tensor_read`, `st_close`. A file is a length prefix and
  a sequence of cells, one per byte, where a header's cell is a token; offsets
  and products are bounded by `UMax`, as in the code by `UINT64_MAX`.
* **ModelLoad** - a session is the inventory tool on one weight file and
  configuration, and then `model_load` with that inventory on files that may
  have been replaced. The tool's decisions are those the loader depends on: where
  a tensor's bytes are, its orientation from the bias's length, which head is
  tied. `model_load` is a step for each allocation, file and tensor (`LoadTensor`),
  and `Fail` is its one exit label. Buffers hold the *cells* that were read, so
  a wrong offset or a transposition shows.
* **TokenizerLoad** - `tok_load`, an item of a table per step, then the two
  hash tables filled and looked up as the C code probes them, and decoding
  through the byte alphabet over real code points (`Utf8Put`, `Utf8Next`).
  `Tokenizer` encodes with the tables this module loads; the two are separate
  machines, since encoding needs tables and not where they came from.
* **Tokenizer** - `tok_encode` and `tok_decode`. A symbol and its id are the
  bytes it spells. Characters have a class; a byte that starts no well-formed
  character is one character of class other, as in `next_char`.
* **Harness** - `cmd_run` and `cmd_merge`, one process at a time, as a machine
  over the results files: `stage` is where the command is, `doc` the document it
  is making, `status` its exit status. Writing is two steps (`OpenOut` truncates,
  `WriteOut` fills), and `Kill` may come between any two. What the operating
  system and the driver answer (preflight, probe times, failures,
  `repeat_applied`, validity of a record) is nondeterministic. Command lines are
  a constant, and with them the sessions. A record names the chunk and the place
  in it where it was measured, and the prompt set the driver wrote into it: a
  matrix product's has none (`PromptOf`, `NoPrompt`), and the comparison then does
  not look at prompt sets. It stands beside BenchDriver, not on
  it: what it takes from a driver that does not fail is that a record is written
  per configuration, in order (`RecordsInOrder` there).
* **EngineProofs**, **GenerateProofs**, **BenchDriverProofs**, **HarnessProofs**,
  **TokenizerProofs**, **LoadProofs** (of ModelLoad), **TokenizerLoadProofs** - the
  theorems (section 4), each beside its component. **SequenceLemmas** - what they share:
  induction over the naturals, the recursive functions of an interval, and prefixes,
  concatenations and flattenings of sequences.

Operators marked `Mutant:` are the deliberately wrong forms of the definition
that follows them; no specification uses them. They show that each property
can fail.

## 3. Runs

| Run | What it asks | Bounds, and why they are enough | Result |
|---|---|---|---|
| `engine_free` | any call in any order, any allocation failing: types, scratch, one counter for all layers, refusals | 2 layers (a first and a last), context 2, 2 tokens and a bad id, arrays up to n_ctx + 1, 2 buffers (one can grow while the other fails), requests around every limit and past an int | holds |
| `engine_contract` | a caller that never raises the length: coherence, cached = no-cache, refinement | as above with context 3 (a prefill, two steps, and a restore below both); arrays begin with t1, by symmetry of the tokens | holds |
| `engine_wide_reserve` | `ReserveCovers`: a successful `model_kv_reserve(n)` leaves n positions | as `engine_free` | violated (finding) |
| `generate` | options x prompts up to n_ctx + 1 x up to 3 generated tokens | context 4; an argmax that depends on the whole context, so a wrong row gives a wrong token | holds |
| `generate_empty_prompt` | `RowsFitBuffer` | context 3 | violated (finding) |
| `bench` | five configuration lists x five fixtures x all options x six clocks | context 2; 1-2 warmups, 2-3 samples (repeated cached steps need two); a slot of 3 samples, so clamping and raising happen; a row too short, one that is not exact, one with an id the model does not have; times on either side of the five per cent, and one far from the others | holds |
| `bench_drift` | `DriftReported` | the code's own sixteen numbers a slot | violated (finding) |
| `harness` | sessions of any four of ten commands, three builds | three files, so a merge is merged again with a later chunk; a pair of cache and control and a matrix product; chunks that overlap and that do not, another prompt set, for passes over it and for a product, a torn input, dry runs; probes of 0, 4, 10 and 20 ms around the floor of 10; two builds with the same flags and one with others | holds |
| `harness_pairs` | `PairsTogether`: what the merged document says of pairs | the halves of a pair in two chunks | violated (finding) |
| `tokenizer` | texts up to 6 bytes over 8 bytes, three tables, buffers of 1 and 6 | whitespace runs, contractions, broken characters, overlapping pairs and nested added tokens all occur within these lengths | holds |
| `load` | the reader, what it accepts (`TableIsHeader`) and what it refuses (`WellFormedOpens`): every sequence of up to three different members of a tensor entry, unknown members of every nesting, every single-token edit of a header with metadata and two tensors. The loader: models of 0, 1 and 2 layers, one without features, and their variants crossed with one another, so the file (also by one with the same tensors behind a longer header), the configuration or both are replaced after the inventory | UMax = 1023, so that products wrap; 3 extents; a table first made for 2 entries, so it grows; every allocation, open, read and write may fail | holds |
| `tokenizer_load` | every single-token edit of a small artifact, up to the brace that ends it; all small vocabularies without a repeated id, merge lists and added tokens, every short spelling over the bytes where UTF-8 changes its mind | first rooms of 1 and 2, so every table grows; two buckets at least, with hash functions that collide; a read that stops anywhere | holds |

Deadlock is checked in the engine's runs. `main`, the driver and the encoder
return, a load ends, and a session of the harness ends after `MaxInvocations`
commands, so their runs set `CHECK_DEADLOCK FALSE`.

**Fairness.** `Fairness` of the engine says that a pass that has begun takes
its next layer: it is a C function with no blocking call in it. No fairness is
assumed of the caller. No liveness property is claimed of the engine (that a loop
over the layers ends says nothing of the code); it makes the counterexample
of `ReserveCovers` a run in which every pass goes on. `TokSpec` is weakly fair to its
next step for the same reason: encoding is one uninterrupted call. The program, the
driver, the loaders and the harness make no liveness claim.

**Assumptions that matter.**

* `RestoringSpec` restricts the caller: `model_kv_set_length` may lower the
  length (or be refused) but not raise it. `src/kv_cache.h` documents the
  function for restoring an earlier context and the code does not enforce it;
  `engine_free` has no such restriction. In BenchDriver the driver itself
  raises the length after an ignored failure, and the contract then has
  `Unknown` positions.
* `WellRanked`: no two merges make the same symbol and parts come from merges
  of lower rank. Trained tables have this; without it merging a pair
  everywhere at once and one at a time can differ.
* An artifact declares each of its tables at most once. `parse_vocab` and
  `parse_merges` start their count of the room at nothing over an array that is
  already there: a second declaration drops spellings it overwrites and can
  shrink the array under the entries it has. `TokenizerLoad` has this as the code
  does; the run's artifacts do not repeat a table.
* Ids of the artifact fit an `int`; `tj_uint` does not check for overflow. The
  members' names are distinct, a number token is a natural, the file is not read past its
  end (`ArtifactAssumption`), and the hash of a string the artifact has is a natural
  (`HashAssumption`).
* The tool's write of the inventory may stop at any line, with exit status 0
  (it does not look at `fprintf` or `fclose`). `FreshInventoryLoads` is about an
  inventory that was written whole, `LoadsWhatWasInventoried` about any.
* A rebuild of the driver (`Rebuild`) commits or configures, as
  `src/scripts/build.ps1` does each time, so the merge sees another `git_commit` or
  `build_timestamp`. An incremental build of a tree with uncommitted changes keeps both
  (`src/CMakeLists.txt` sets the timestamp when it configures): its chunks would
  merge with those of the build before it, and `OneMeasurement` does not speak of them.
* What a record times takes at least a tick (`DriverAssumption`): a forward pass or a
  matrix product over many ticks of a counter that runs in nanoseconds or tenths of a
  microsecond.
* An entry of a weight file has each member once (`MembersAssumption`), and an
  artifact that loads gives no id twice and ends with its object (`PlainAssumption`):
  a JSON writer makes no others.
* Harnesses do not run at the same time (a measurement needs the machine to
  itself), and a killed harness takes its driver with it.
* `tok_encode` of an empty text returns no ids; an empty prompt is then legal
  input of `main`, so `Prompts` has it. The properties of `generate` that need a
  last row say so (`Kept # <<>>`).

### Findings

1. `ReserveCovers` (`src/src/model.c:513`): the request is a `size_t` compared
   and allocated as `(int)capacity`; 2^32 + 1 succeeds with one position.
2. `RowsFitBuffer` (`src/src/main.c:241`): an empty prompt under `--via-decode`
   prefills one token from an empty id buffer and writes one row of logits to a
   buffer of none.
3. `DriftReported` (`src/bench/stage2_forward_bench.c:186`): decode and GEMM
   records add seventeen numbers to a slot of sixteen; the last drift figure is
   dropped and the line printed as the drift is shifted by one field.
4. `PairsTogether` (`src/bench/harness.py:1257`): every merged document states
   that each cache configuration and its no-cache control were measured in the
   same chunk; nothing checks it, and the halves of a pair merge.

Met while modelling, and kept in the models as the code has them. Where the code and
a comment or document disagree about an input, the properties take neither side: an
assumption leaves that input out (see above), or the property says what it speaks of.

* A missing `shape` is `ST_ERR_BAD_SHAPE`, where the comment at
  `src/src/safetensors.c:25` has missing required keys as `ST_ERR_BAD_JSON`.
* A product of extents that overflows before it meets an extent of zero is
  refused though the tensor is empty (the exception in `WellFormedOpens`).
* `model_load` never reads a stored `lm_head.weight`: the head is the token
  embedding, whatever the inventory says of tying.
* `tok_load` never returns `TOK_ERR_READ` after the file was opened: a short
  read, or a failed allocation of a string, is `TOK_ERR_BAD_JSON`. `tok_decode`
  refuses an added token whose id is outside the vocabulary, though `tok_encode`
  produces it.
* `bench_write_results` ignores write errors.
* A tensor entry may repeat `dtype`, `shape` or `data_offsets`, and the last one
  counts (`src/src/safetensors.c:298`); the head of the file lists duplicate keys
  among what is rejected (`:31`). `MembersAssumption` leaves repeats out of the run;
  the proof of `TablesAreHeaders` does not use it.
* Of a string it skips, `st_skip_value` refuses `\u` alone, so an unknown escape or a
  control byte passes (`src/src/safetensors.c:233`); its comment (`:219`) says it
  rejects what the typed parsers reject. No string of the model has either.
* `bench_compute_stats` takes the spread of samples whose median is zero for zero per
  cent, so they are VALID however they vary (`src/bench/microbench/bench_common.cu:71`);
  the protocol (`src/BENCHMARK_PROTOCOL.md:28`) and `bench_common.h:22` call any
  deviation above five per cent of the median INVALID. `DriverAssumption` has positive
  times only.
* The vocabulary's size is one more than its greatest id (`src/src/tokenizer.c:493`);
  `tokenizer.h:42` calls it the number of entries, which entries that share an id are
  not. And `tok_load` reads nothing after the brace that closes the object (`:644`),
  where the scanner's comment (`:252`) rejects anything unbalanced. `PlainAssumption`
  leaves both out.
* `merge_parts` joins the parts as the command line names them
  (`src/bench/harness.py:1269`) and looks at no time, while the merged document states
  that its chunks were measured "in the order listed" (`:1303`). That is so when they
  were named "in measured order", as the help of `parts` asks (`:1473`); nothing checks
  it, and a later chunk that is named first is listed first. `OrderIsMeasured` speaks of the order within a
  chunk, and of that of the chunks only that the claimed order is the records' own.

## 4. What is proved

Every theorem is about the specification TLC runs, with its constants left open;
what is assumed of them is stated by the `ASSUME`s of the component's modules,
which TLC evaluates on the instances. A strengthened invariant was checked by TLC
on its run's instance before it was proved, where TLC can evaluate it (the rows of
`ReadingInv` range over the naturals).

**Engine** (`EngineProofs`): any number of layers, any context length, any token
set, any set of buffers, any inputs (`NLayerAssumption`, `ApiAssumption`,
`EngineAssumption`).

* For every caller (`Spec`): `TypeOK`, `ScratchCovers`, `RefusedAtOnce`
  and `EveryLayerOrNone`. The invariants are not inductive
  alone: `SafeInv` adds `PassInv`, what the entering step establishes and the
  layers rely on (accepted ids, room in the cache and the scratch, the cached
  step starting where the cache ends). `PresenceInv` adds, for
  `EveryLayerOrNone`, which layers the running pass has already written.
* For the restoring caller (`RestoringSpec`): `CacheCoherent` and
  `CachedMatchesUncached`. `HeldInv` says what the layers below and above the
  running one hold: layers already done hold the new context, the others the
  old one, and the context the pass carries is the one it will leave.
* Refinement: `Implements` is `RestoringSpec => ContractHolds`: the initial
  state maps to the contract's, the last layer of a pass maps to the call's
  effect, entering maps to `Begin` or to the refusal, and layers before the last
  stutter. `RefineInv` (`SafeInv`, `HeldInv`, `CallInv`) carries what the entering
  step knew until the last layer needs it.

**Program** (`GenerateProofs`): any vocabulary, context length, argmax, prompt
and number of tokens (`ApiAssumption`, `GenerateAssumption`). All six invariants of
`generate` follow from `GenerateInv`. Its parts: where `main` is and what it knows
of the cache there (`PlaceInv`); that `ids` is the greedy text of `steps` tokens,
`next` its argmax and the cache as long as either needs (`TextInv`); what is
printed (`PrintInv`), why the program ended (`ExitInv`) and what was dumped
(`DumpInv`). `last.status` alone does not tell why a run ended; `ExitInv` needs
that a cached step within the capacity is refused nothing but memory, which in
turn needs the length the cache has at each loop head. An empty prompt is let out
where it must be, as in the properties, and kept everywhere else.

**Driver** (`BenchDriverProofs`): any list of configurations, fixtures, counts and
clocks (`DriverAssumption`: a count is a C int, a row's ids are any tokens, the
model's or not; `ProtocolAssumption`). `DriverInv` gives `DriverTypeOK`,
`RecordsInOrder` and the action property `TimedCallsAnswer`. Why a timed cached
decode cannot fail: the no-cache reference accepted the ids, so they are tokens of
the model; the check's own cached step agreed with the reference, so the cache
then held exactly those ids, within the capacity and the scratch; and restoring
the length leaves all but the last (`PathInv`, `Ready`). `StatsAreOfTheSamples`
needs `TimesInv` besides (the record before the next configuration is of the slot)
and three facts about numbers: samples have an order; at most half of the places
of an order come before its middle and at most half after it; and n times the
squared distances of all pairs is twice the squared deviations, each n times as
long, whence the verdict on the spread without a mean. The median is not zero because
no sample is (at most half of them are above it).

**Harness** (`HarnessProofs`): any commands, results files, builds, probe times
and number of sessions (`HarnessAssumption`, `CommandAssumption`: what the argument
parser accepts). All seven properties of `harness`. `HarnessInv` says that whatever
is in a file, or about to be written to one, is `Publishable` (one build, the
claimed order, confirmed factors, like compared with like, one chunk or no
configuration twice), what of that already holds between the timed pass and the
verdict, and that no file changed before the writing. A merge of publishable parts
is publishable because `cmd_merge` refuses overlaps and parts that disagree.
`OrderIsMeasured` needs more than each document by itself: `MeasuredInv` says that a
place of a chunk names the same configuration in every document, and that the number
of the running command's chunk is in none until its timed pass. A merge refuses a
configuration it has seen, so no measurement can stand twice in what it makes.

**Tokenizer** (`TokenizerProofs`): any texts, character classes, artifacts and
buffers (`TokenizerAssumption`: characters of one or two bytes, as in the model; no
contraction is a prefix of another, so that the pattern's choice among them is
one; `WellRanked` merges; added tokens are not empty and are in the vocabulary).
All five invariants of `tokenizer`:

* `PiecesFollowPattern`: `Starts` and the runs of a class are given by their
  equations (`StartsFrom`, `RunsFrom`); the matcher's case for each first character
  is then the first alternative of the pattern that matches there, and no longer
  match of that alternative exists.
* `MergedOneByOne`: merging every occurrence of the lowest pair at once is as many
  single merges of the leftmost lowest pair, because (`WellRanked`) a merge makes
  no pair of its own rank or of a lower one.
* `RoundTrip`, `NeverTooSmall`, `TokTypeOK`: `TokInv` relates what is emitted, the
  symbols of the running piece and the bytes still unread to the text
  (`WorkInv`, `MergeInv`, `DoneInv`).

**Loader** (`LoadProofs`): any weight file, configuration and session
(`SessionAssumption`: the numbers of layers and features are integers;
`BiasAssumption`: the bias of `<stem>.weight` is `<stem>.bias`, the tensor loaded
after it, as `sibling_bias` of `src/safetensors.c` builds the name).

* `ReleasedOnce`. `LoadInv` has an account for the file's reader at each stage of
  `st_open`, and one for the tool or `model_load` at each place, and says that what
  is live is what the two hold.
* `ReadAsPinned`, and that each buffer is the bytes at the place its inventory line
  names (`BuffersAreAsInventoried`). `TakenInv` says that an inventory is the first
  lines of *some* table, that configuration and inventory agree once compared, and
  that every buffer was taken by its line (`TakenFrom`). The orientation follows: the
  bias was found with the length of the second axis, in the same table. No fact about
  the parser is used for these. The proof showed that the property was too strong for a
  configuration without features: `n_embd = 0` passes the checks of `model_load`
  (`src/src/model.c:367`), and then every matrix is square and none is pinned; the
  property now says so and the run has that model.
* `TablesAreHeaders` (`TableIsHeader`): an accepted header is one of the grammar and
  the table is what it declares, for any text. The grammar does not scan: it cuts a
  text at its outermost commas (`Parts`) and asks of each part what it must be. The
  scanner is given by its equations, as in the tokenizer's loader, and ends later than
  it begins. What it accepts is one part (`Item`: the nesting never falls below where it
  began, and comes back to it at the end only); a row of parts, a comma and one more
  item are a row longer by one part (`RowAppends`). From there: a skipped value is one of
  the grammar's, by induction on the depth left; a shape and a range have the numbers
  their parts have; the last member of a name is the last part of that name; the product
  that does not overflow is the product without a width. `ReadingInv` says what was read
  at each stage: between two steps of `st_open`, the entries up to the cursor are parts of
  the header, those that are not metadata declare the table in order (`Entries`), and
  in the metadata the pairs so far are parts of it.
* `LoadsTheInventoried`, `FreshOnesLoad` (`LoadsWhatWasInventoried`,
  `FreshInventoryLoads`). `ListedInv` carries a table from the header on: an inventory is
  the first lines made of the table its file declares, all of them when it was written
  whole, and each buffer is what the loaded file declares under that name, at the place
  the inventory has (`Agrees`). A refusal by a whole inventory of the same files then
  has a tensor that is missing or of another shape or type to show for it (`Refused`).
  The proof corrected the property: it used to ask that both files declare the same range
  of the *data*, which a loader that compares offsets in the *file* does not see to when
  the two headers differ in length. It now compares what the code compares, and the run has
  files whose headers differ in length.

**Tokenizer's loader** (`TokenizerLoadProofs`): any artifact that opens no table
twice, any failures, any place where the read stops, any hash functions and first
rooms (`ArtifactAssumption`, `HashAssumption`).

* `LoadNeverLeaks`: `LoadHoldsTables` for `OnceSpec`, the specification with the
  condition that no step returns to a table that has room (`EntersOnce`). The
  condition is needed: a table declared twice leaks the spellings its second
  parse overwrites. `DeclaredOnceEntersOnce` shows that it is one about the text alone:
  an artifact in which the name of each table precedes an opening bracket once
  (`DeclaresOnce`, true of every artifact of the run) never enters a table twice.
* The argument: the scanner is a recursive function, and its equation says that
  whatever it reads ends later than it begins. A copy of a string is named by the
  position it was read from, so a string read at the cursor is none of those held
  (`Behind`); hence each has one owner (`OneOwner`), what an entry replaces is
  released once, and what is live is what the tokenizer, the names in use and the text
  hold (`ArtifactInv`).
* `LookupsFind`: a lookup ends, whatever collides, with the *least* id of a spelling
  and the *first* rank of a pair. A table has twice as many buckets as entries, so a
  probe meets an empty one; every entry lies before the first bucket that was empty
  when it was put in, and entries were put in by their order (`Placed`), so that
  the first wanted one that a probe meets is the least. `HashInv` carries that the
  tables are filled from the spellings and merges read.

**Induction over data.** The recursive functions the models use (of a position, of
a length) are functions on an interval. `SequenceLemmas` derives induction from the
least element of a set of naturals, with the property as a *set* and not as an
operator, and from it that such a function exists and satisfies its equations.

**Left to TLC, and why.**

* `TokReturns`: liveness under fairness.
* `WellFormedOpens`: that the reader refuses nothing the grammar has. It is the converse
  of `TablesAreHeaders` (from the parts of a text to how the scanner reads it), and
  nothing else rests on it.
* `TablesAreDeclared`, `SpellingsDecode`: that the tokenizer's tables are what the artifact
  declares, and the byte alphabet's code points. The first needs the lemmas about the
  grammar, proved for the weight file, again for an artifact. The part of it that is about
  the look-ups is `LookupsFind`.
* The four violated properties are refuted by their runs.

## 5. What is not modelled

* Floating point: products, softmax and layer norm are identified with the
  contexts they are computed from; that both paths reduce in the same order is
  the argument of `src/model.c`'s header, not a result here.
* The escapes inside a JSON string, and the characters that make a number: a
  token is a string's bytes or an integer. The texts and the layout of the
  inventory and of the results files.
* The benchmark library's thread placement, timers and CUDA events, and the
  microbenchmarks: operating-system calls and hardware.
* Token counts beyond an `int` in prefill and decode (`(int)T`); only the
  reservation, where it was found to matter, keeps its width.
* The harness's `cublas` command, its statistics and texts. A merged document
  takes its prompt set from its first part; the model does too, and the records of
  passes over a prompt keep their own.
* A negative `--generate`: it wraps an allocation size the model does not carry.
* The default list of the driver running past `MAX_RECORDS`: `DefaultList` has
  the behaviour, no run has lists that long.

## 6. Plan

Done: KVCache, EngineApi, Engine, CacheContract, EngineRefinement,
EngineProofs, Generate, GenerateProofs, BenchCommon, BenchDriver,
BenchDriverProofs, Tokenizer, TokenizerProofs, Harness, HarnessProofs, JsonScan,
Memory, SafeTensors, ModelLoad, LoadProofs, TokenizerLoad, TokenizerLoadProofs.

1. **MachineState** - `bench/machine_state.py`: the verdicts on the clock lock
   and the fingerprint, composed with the harness, whose preflight is a choice
   so far; the telemetry sampler's thread against `start` and `stop`, whose waits
   time out.
2. **Correctness** - the verdict rules of `bench/correctness.py`.
3. **Proofs** - `WellFormedOpens`, and `TablesAreDeclared` with the lemmas about the
   grammar in a module beside JsonScan that both loaders' proofs extend; so far each
   keeps its own lemmas about the scanner, whose statuses and tokens differ.
