------------------------------ MODULE Generate ------------------------------
(***************************************************************************)
(* The program of src/main.c, from its command line to its exit, composed  *)
(* with the engine's contract: load, encode, select the path, reserve,     *)
(* prefill (or assemble the matrix by cached decode steps, --via-decode),  *)
(* dump, generate greedily, print.                                         *)
(*                                                                         *)
(* Data abstraction: a row of logits is the context it was computed from   *)
(* (CacheContract), and Argmax is the token model_argmax picks from it.    *)
(* The prompt is the token sequence tok_encode makes of it.                *)
(***************************************************************************)
EXTENDS CacheContract

CONSTANTS
  Prompts,       \* the token sequences a prompt may encode to
  Generates,     \* the values of --generate
  Truncates,     \* the values of --truncate, 0 when absent
  Argmax         \* the token model_argmax picks from a row of logits

ASSUME GenerateAssumption ==
  /\ Prompts \subseteq Seq(Tokens)
  /\ Generates \subseteq Nat /\ Truncates \subseteq Nat
  /\ \A n \in 1 .. NCtx : \A c \in [1 .. n -> Tokens] : Argmax[c] \in Tokens

VARIABLES
  opts,       \* the command line
  pc,         \* where main is
  ids,        \* ids[0 .. n_ids - 1]
  logits,     \* the logits buffer, row by row
  next,       \* the last argmax; "none" before the first
  steps,      \* g, the loop counter of the generation
  dump,       \* the rows of the file --dump-logits wrote
  code        \* the exit status

mainVars == <<opts, pc, ids, logits, next, steps, dump, code>>
allVars  == <<contractVars, mainVars>>

Options ==
  [kvCache : {"absent", "on", "off"}, viaDecode : BOOLEAN, dump : BOOLEAN,
   generate : Generates, truncate : Truncates, prompt : Prompts]

GenerateInit ==
  /\ ContractInit
  /\ opts \in Options
  /\ pc = "args" /\ ids = <<>> /\ logits = <<>> /\ next = "none"
  /\ steps = 0 /\ dump = <<>> /\ code = 0

Exit(c) == pc' = "exit" /\ code' = c

Goto(label) == pc' = label /\ UNCHANGED code

\* main's answer to a call: go on when it succeeded, else print and return 1.
Unless1(failed, label) == IF failed THEN Exit(1) ELSE Goto(label)
-----------------------------------------------------------------------------
(* --via-decode contradicts an explicit --kv-cache off.                    *)
ParseArgs ==
  /\ pc = "args"
  /\ IF opts.viaDecode /\ opts.kvCache = "off" THEN Exit(2) ELSE Goto("load")
  /\ UNCHANGED <<contractVars, opts, ids, logits, next, steps, dump>>

(* The tokenizer, the model, their agreement on the vocabulary size, the   *)
(* encoding, and the logits buffer of n_ids rows.                          *)
LoadAndEncode(ok) ==
  /\ pc = "load"
  /\ Unless1(~ok, "path")
  /\ ids' = IF ok /\ opts.truncate \in 1 .. Len(opts.prompt) - 1
            THEN Take(opts.prompt, opts.truncate) ELSE IF ok THEN opts.prompt ELSE ids
  /\ UNCHANGED <<contractVars, opts, logits, next, steps, dump>>

SelectPath ==
  /\ pc = "path"
  /\ SetDecodePath(IF opts.viaDecode \/ opts.kvCache = "on" THEN "cache" ELSE "nocache")
  /\ Goto("reserve")
  /\ UNCHANGED <<opts, ids, logits, next, steps, dump>>

\* Mutant: one position too many.
WantCtxPlusOne == Len(ids) + opts.generate + 1

WantCtx == Len(ids) + opts.generate

\* The status of model_reserve is not looked at.
ReserveScratch(mem) ==
  /\ pc = "reserve"
  /\ Reserve(WantCtx, mem)
  /\ Goto(IF path = "cache" THEN "kv" ELSE "prefill")
  /\ UNCHANGED <<opts, ids, logits, next, steps, dump>>

ReserveCache(mem) ==
  /\ pc = "kv"
  /\ KvReserve(WantCtx, mem)
  /\ Unless1(last'.status # "OK", "prefill")
  /\ UNCHANGED <<opts, ids, logits, next, steps, dump>>
-----------------------------------------------------------------------------
(* The prefill over the whole prompt, or the matrix assembled from the     *)
(* cached path alone.  `first` is ids[0]: for an empty prompt the buffer   *)
(* holds no token, and whatever was in the memory is read.                 *)
PrefillWhole(mem) ==
  /\ pc = "prefill" /\ ~opts.viaDecode
  /\ Prefill(ids, TRUE, mem)
  /\ Unless1(last'.status # "OK", "dump")
  /\ logits' = IF last'.status = "OK" THEN last'.logits ELSE logits
  /\ UNCHANGED <<opts, ids, next, steps, dump>>

PrefillFirst(first, mem) ==
  /\ pc = "prefill" /\ opts.viaDecode
  /\ ids # <<>> => first = ids[1]
  /\ Prefill(<<first>>, TRUE, mem)
  /\ Unless1(last'.status # "OK", IF Len(ids) > 1 THEN "assemble" ELSE "dump")
  /\ logits' = IF last'.status = "OK" THEN last'.logits ELSE logits
  /\ UNCHANGED <<opts, ids, next, steps, dump>>

AssembleRow(mem) ==
  /\ pc = "assemble"
  /\ DecodeStepCached(Take(ids, Len(logits) + 1), TRUE, mem)
  /\ Unless1(last'.status # "OK", IF Len(logits) + 1 < Len(ids) THEN "assemble" ELSE "dump")
  /\ logits' = IF last'.status = "OK" THEN logits \o last'.logits ELSE logits
  /\ UNCHANGED <<opts, ids, next, steps, dump>>

(* The dump of n_ids rows, and the argmax of row n_ids - 1 (of whatever    *)
(* lies before the buffer, when n_ids is 0).                               *)
\* Mutant: the argmax of the first row.
DumpAndPickFirst(ok, garbage) ==
  /\ pc = "dump"
  /\ Unless1(opts.dump /\ ~ok, "generate")
  /\ dump' = IF opts.dump /\ ok THEN Take(logits, Len(ids)) ELSE dump
  /\ next' = IF ids = <<>> THEN garbage ELSE Argmax[logits[1]]
  /\ UNCHANGED <<contractVars, opts, ids, logits, steps>>

DumpAndPick(ok, garbage) ==
  /\ pc = "dump"
  /\ Unless1(opts.dump /\ ~ok, "generate")
  /\ dump' = IF opts.dump /\ ok THEN Take(logits, Len(ids)) ELSE dump
  /\ next' = IF ids = <<>> THEN garbage ELSE Argmax[logits[Len(ids)]]
  /\ UNCHANGED <<contractVars, opts, ids, logits, steps>>
-----------------------------------------------------------------------------
(* The greedy loop: the token picked last is appended, and unless it was   *)
(* the last one asked for, one decode step picks the next from row 0.      *)
PushToken ==
  /\ pc = "generate"
  /\ ids' = IF steps < opts.generate THEN Append(ids, next) ELSE ids
  /\ Goto(IF steps + 1 < opts.generate THEN "decode" ELSE "print")
  /\ UNCHANGED <<contractVars, opts, logits, next, steps, dump>>

DecodeNext(mem) ==
  /\ pc = "decode"
  /\ DecodeStep(ids, TRUE, mem)
  /\ Unless1(last'.status # "OK", "generate")
  /\ logits' = IF last'.status = "OK" THEN [logits EXCEPT ![1] = last'.logits[1]] ELSE logits
  /\ next' = IF last'.status = "OK" THEN Argmax[logits'[1]] ELSE next
  /\ steps' = IF last'.status = "OK" THEN steps + 1 ELSE steps
  /\ UNCHANGED <<opts, ids, dump>>

\* tok_decode, which refuses when the text outgrows 16 bytes a token.
PrintText(ok) ==
  /\ pc = "print"
  /\ Exit(IF ok THEN 0 ELSE 1)
  /\ UNCHANGED <<contractVars, opts, ids, logits, next, steps, dump>>

GenerateNext ==
  \/ ParseArgs
  \/ \E ok \in BOOLEAN : LoadAndEncode(ok)
  \/ SelectPath
  \/ \E mem \in BOOLEAN : ReserveScratch(mem)
  \/ \E mem \in BOOLEAN : ReserveCache(mem)
  \/ \E mem \in BOOLEAN : PrefillWhole(mem)
  \/ \E first \in Tokens \cup {BadToken}, mem \in BOOLEAN : PrefillFirst(first, mem)
  \/ \E mem \in BOOLEAN : AssembleRow(mem)
  \/ \E ok \in BOOLEAN, garbage \in Tokens : DumpAndPick(ok, garbage)
  \/ PushToken
  \/ \E mem \in BOOLEAN : DecodeNext(mem)
  \/ \E ok \in BOOLEAN : PrintText(ok)

GenerateSpec == GenerateInit /\ [][GenerateNext]_allVars
-----------------------------------------------------------------------------
GenerateTypeOK ==
  /\ path \in Paths /\ capacity \in 0 .. NCtx /\ Len(held) <= capacity
  /\ opts \in Options
  /\ pc \in {"args", "load", "path", "reserve", "kv", "prefill", "assemble", "dump",
             "generate", "decode", "print", "exit"}
  /\ ids \in Seq(Tokens) /\ logits \in Seq(Contexts)
  /\ next \in Tokens \cup {"none"} /\ steps \in Nat /\ code \in 0 .. 2

\* The tokens the prompt keeps after --truncate, and greedily extended by n.
Kept ==
  IF opts.truncate \in 1 .. Len(opts.prompt) - 1 THEN Take(opts.prompt, opts.truncate)
  ELSE opts.prompt

Greedy(n) ==
  LET extended[i \in 0 .. n] == IF i = 0 THEN Kept
                                ELSE Append(extended[i - 1], Argmax[extended[i - 1]])
  IN  extended[n]

(* The text is the greedy continuation of the prompt, whatever the path    *)
(* and however the prompt's logits were assembled: a prompt that is not    *)
(* empty and a run that exits 0 print exactly --generate greedy tokens.    *)
GreedyText ==
  pc = "exit" /\ code = 0 /\ Kept # <<>> => ids = Greedy(opts.generate)

(* The dumped matrix has one row per prompt token, row t the logits of the *)
(* first t tokens, also when the cached decode steps assembled it.         *)
DumpIsPrefill ==
  dump # <<>> => dump = [t \in 1 .. Len(Kept) |-> Take(Kept, t)]

(* Whenever the program decodes on the cache path, the cache holds exactly *)
(* the tokens before the last one, and at the end everything but the last  *)
(* token generated: the length check never refuses a step of this program. *)
CacheFollowsText ==
  path = "cache" /\ Kept # <<>> =>
    /\ pc = "decode" => held = Butlast(ids)
    /\ pc = "assemble" => held = Take(ids, Len(logits))
    /\ pc = "exit" /\ code = 0 =>
         held = IF opts.generate = 0 THEN ids ELSE Butlast(ids)

(* When a run fits: the cache path asks for room for every token it prints *)
(* before it starts, the no-cache path needs room only for those it        *)
(* decodes, one less.                                                      *)
Want == Len(Kept) + opts.generate

Fits == IF path = "cache" \/ opts.generate = 0 THEN Want <= NCtx ELSE Want - 1 <= NCtx

(* A run that fits is refused nothing but memory, whatever it did before;  *)
(* a run that does not fit never exits 0.                                  *)
ExitsByContext ==
  pc = "exit" /\ Kept # <<>> =>
    IF Fits THEN last.status \in {"OK", "NOMEM"} ELSE code # 0

(* A run whose scratch was reserved never runs out of memory in the middle *)
(* of its work: only the cache's own allocation can still fail.            *)
ReservedRunsOn ==
  pc = "exit" /\ Kept # <<>> /\ room >= Want /\ last.status = "NOMEM" =>
    path = "cache" /\ capacity = 0

(* The logits buffer has a row for every row written to it: the assembled  *)
(* matrix is positions x vocab, in the layout prefill would have written.  *)
RowsFitBuffer == pc \notin {"args", "load"} => Len(logits) <= Len(Kept)
=============================================================================
