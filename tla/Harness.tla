------------------------------- MODULE Harness -------------------------------
(***************************************************************************)
(* The benchmark harness bench/harness.py: its run and merge commands,     *)
(* one process at a time, over the results files they leave on disk.       *)
(* Beside it the environment: the preflight finds the machine as it should *)
(* be or not, the timing driver is rebuilt, a driver fails or does not     *)
(* confirm what it was asked, and the host kills the harness between any   *)
(* two of its steps (and its driver with it).                              *)
(*                                                                         *)
(* Data abstraction: a document is its records, the order it claims, the   *)
(* construction chosen per configuration, the build and the prompt set it  *)
(* names, and the pairs the regression comparison put side by side. A      *)
(* record is its configuration, where and how it was measured (its chunk,  *)
(* the command that measured it, and its place in that chunk's timed pass, *)
(* are kept to state the properties), and its verdict; figures are left    *)
(* out. A build number stands for the commit, the build timestamp, the     *)
(* device, the compilers and their flags.                                  *)
(***************************************************************************)
EXTENDS Integers, Sequences, FiniteSets, FiniteSetsExt, SequencesExt

CONSTANTS
  Commands,        \* the command lines, as RunCommand and MergeCommand make them
  Files, NoFile,   \* the results files, and the option not given
  D3,              \* D3_FIXTURE
  NoPrompt,        \* what the record of a matrix product has for a prompt set
  Flags,           \* the compared fields of a build, a function of its number
  ProbeTimes,      \* the milliseconds a probe may report
  Floor,           \* W3_PER_SAMPLE_FLOOR_MS
  MaxInvocations   \* bound: how many commands are started

ASSUME HarnessAssumption ==
  /\ NoFile \notin Files
  /\ ProbeTimes \subseteq Nat /\ Floor \in Nat \ {0} /\ MaxInvocations \in Nat
  /\ 1 \in DOMAIN Flags /\ DOMAIN Flags = 1 .. Cardinality(DOMAIN Flags)

(* What parse_configs_arg accepts; matrix products have no path.            *)
Configurations ==
  [kind : {"prefill", "decode"}, tokens : Int, path : {"cache", "nocache"}]
    \cup [kind : {"gemm"}, tokens : Int, path : {"none"}]

(* What argparse makes of a command line: a merge names at least one part.  *)
ASSUME CommandAssumption == \A c \in Commands :
  /\ c.verb \in {"run", "merge"} /\ c.out \in Files /\ c.compare \in Files \cup {NoFile}
  /\ c.list \in Seq(Configurations) /\ c.parts \in Seq(Files)
  /\ c.fixture # NoPrompt
  /\ c.verb = "merge" => c.parts # <<>>

VARIABLES
  build,     \* the build of the driver on disk
  files,     \* the results files
  stage,     \* where the command is, "idle" between commands
  command,   \* its command line, NoCommand between commands
  doc,       \* the document being made
  chunk,     \* the commands started so far
  status,    \* the exit status of the last one
  before     \* history: the files when it started, or ended

vars == <<build, files, stage, command, doc, chunk, status, before>>

-----------------------------------------------------------------------------
Config(kind, tokens, path) == [kind |-> kind, tokens |-> tokens, path |-> path]
Gemm(n) == Config("gemm", n, "none")

(* A no-cache configuration keeps the key of the stage before it.           *)
\* Mutant: the path is left out of the key.
KeyNoPath(c) == <<c.kind, c.tokens>>
Key(c) == IF c.path = "cache" THEN <<c.kind, c.tokens, c.path>> ELSE <<c.kind, c.tokens>>

RunCommand(list, fixture, allow, only, compare, correctness, out) ==
  [verb |-> "run", list |-> list, parts |-> <<>>, fixture |-> fixture, allow |-> allow,
   only |-> only, compare |-> compare, correctness |-> correctness, out |-> out]

MergeCommand(parts, compare, correctness, out) ==
  [verb |-> "merge", list |-> <<>>, parts |-> parts, fixture |-> D3, allow |-> FALSE,
   only |-> "all", compare |-> compare, correctness |-> correctness, out |-> out]

NoCommand == MergeCommand(<<>>, NoFile, "absent", NoFile)

Absent   == [state |-> "absent"]
Torn     == [state |-> "torn"]
Whole(d) == [state |-> "whole", doc |-> d]

NoDoc == [records |-> <<>>, order |-> <<>>, plan |-> <<>>, build |-> 1,
          prompt |-> D3, compared |-> {}]

Killed == 9

Init ==
  /\ build = 1
  /\ files = [f \in Files |-> Absent]
  /\ before = files
  /\ stage = "idle" /\ doc = NoDoc /\ chunk = 0 /\ status = 0
  /\ command = NoCommand

-----------------------------------------------------------------------------
(* The environment.                                                         *)

Rebuild ==
  /\ build + 1 \in DOMAIN Flags
  /\ build' = build + 1
  /\ UNCHANGED <<files, stage, command, doc, chunk, status, before>>

-----------------------------------------------------------------------------
(* Leaving the command, or going on with it.                                *)

Return(code) ==
  /\ stage' = "idle" /\ status' = code
  /\ command' = NoCommand /\ doc' = NoDoc /\ before' = files'
  /\ UNCHANGED <<build, chunk>>

Leave(code) == UNCHANGED files /\ Return(code)

Continue(next, d) ==
  /\ stage' = next /\ doc' = d
  /\ UNCHANGED <<build, files, command, chunk, status, before>>

Kill == stage # "idle" /\ Leave(Killed)

(* resolve_prompt_set: a prompt set other than D3 has to be allowed.        *)
PromptSetRefused(c) == c.verb = "run" /\ c.fixture # D3 /\ ~c.allow

RefusePromptSet ==
  /\ stage = "idle" /\ chunk < MaxInvocations
  /\ \E c \in Commands : PromptSetRefused(c)
  /\ chunk' = chunk + 1 /\ status' = 1
  /\ UNCHANGED <<build, files, stage, command, doc, before>>

Start ==
  /\ stage = "idle" /\ chunk < MaxInvocations
  /\ chunk' = chunk + 1 /\ before' = files
  /\ \E c \in Commands :
       /\ ~PromptSetRefused(c) /\ command' = c
       /\ stage' = IF c.verb = "run" THEN "preflight" ELSE "merge"
  /\ UNCHANGED <<build, files, doc, status>>

-----------------------------------------------------------------------------
(* run: preflight, probe, timed pass.                                       *)

(* The fingerprint differs, or the graphics clock is not locked.            *)
PreflightRefuses == stage = "preflight" /\ Leave(3)

PreflightOnly == stage = "preflight" /\ command.only = "preflight" /\ Leave(0)

PreflightPasses ==
  /\ stage = "preflight" /\ command.only # "preflight"
  /\ Continue("probe", doc)

(* select_construction: one iteration a bracket, or enough to fill it.      *)
\* Mutant: the bracket is filled from below.
RepeatFactorRoundedDown(ms) == Floor \div ms
RepeatFactor(ms) == IF ms >= Floor THEN 1 ELSE (Floor + ms - 1) \div ms

Probeable(list) == { Key(c) : c \in { c \in ToSet(list) : c.kind \in {"prefill", "decode"} } }

(* The driver's probe pass exits with an error, or its lines do not parse.  *)
ProbeFails == stage = "probe" /\ Leave(1)

Probe ==
  /\ stage = "probe"
  /\ \E ms \in [Probeable(command.list) -> ProbeTimes] :
       LET zero     == \E k \in DOMAIN ms : ms[k] = 0
           selected == [k \in DOMAIN ms |-> RepeatFactor(ms[k])]
           batched  == \E k \in DOMAIN ms : selected[k] > 1
       IN \/ zero /\ Leave(1)
          \/ ~zero /\ batched /\ Leave(5)
          \/ ~zero /\ ~batched /\ command.only = "probe" /\ Leave(0)
          \/ /\ ~zero /\ ~batched /\ command.only = "all"
             /\ Continue("timed", [doc EXCEPT !.plan = selected])

TimedPassFails == stage = "timed" /\ Leave(1)

(* The driver annotates a pass over a prompt with the prompt set it read, a *)
(* matrix product with none.                                                *)
PromptOf(config, fixture) == IF config.kind = "gemm" THEN NoPrompt ELSE fixture

(* One record per configuration, in order (BenchDriver); any driver may be  *)
(* named, so its repeat_applied is 1 or anything else, 0.                   *)
TimedPass ==
  /\ stage = "timed"
  /\ \E applied \in [DOMAIN command.list -> {0, 1}], valid \in [DOMAIN command.list -> BOOLEAN] :
       Continue("report",
         [doc EXCEPT
            !.records = [i \in DOMAIN command.list |->
                           [config |-> command.list[i], chunk |-> chunk, place |-> i,
                            build |-> build, applied |-> applied[i], valid |-> valid[i],
                            prompt |-> PromptOf(command.list[i], command.fixture)]],
            !.order  = command.list,
            !.build  = build,
            !.prompt = command.fixture])

-----------------------------------------------------------------------------
(* verify_repeat_confirmation: R = 1 where no construction was chosen.      *)
\* Mutant: only configurations with a construction are checked.
UnconfirmedWhereChosen(records, plan) == \E i \in DOMAIN records :
  LET k == Key(records[i].config) IN k \in DOMAIN plan /\ records[i].applied # plan[k]

Unconfirmed(records, plan) == \E i \in DOMAIN records :
  LET k == Key(records[i].config)
  IN records[i].applied # (IF k \in DOMAIN plan THEN plan[k] ELSE 1)

(* The prior record of a key is the last one in the named file.             *)
Prior(records, k) ==
  records[Max({ i \in DOMAIN records : Key(records[i].config) = k })]

Keys(records) == { Key(records[i].config) : i \in DOMAIN records }

(* compare_regression: the pairs it compares rather than refuses. Products  *)
(* name no prompt set on either side, so theirs never differ.               *)
\* Mutant: the prompt sets are not looked at.
ComparedAnyPrompt(d) ==
  IF command.compare = NoFile \/ files[command.compare] = Absent THEN {}
  ELSE LET prior == files[command.compare].doc
       IN { pair \in { <<Prior(prior.records, Key(r.config)), r>> :
                       r \in { r \in ToSet(d.records) : Key(r.config) \in Keys(prior.records) } } :
              /\ pair[1].valid /\ pair[2].valid
              /\ Flags[prior.build] = Flags[d.build] }

Compared(d) ==
  IF command.compare = NoFile \/ files[command.compare] = Absent THEN {}
  ELSE LET prior == files[command.compare].doc
           Comparable(p, r) == /\ p.prompt = r.prompt
                               /\ r.valid /\ p.valid
                               /\ Flags[prior.build] = Flags[d.build]
       IN { pair \in { <<Prior(prior.records, Key(r.config)), r>> :
                       r \in { r \in ToSet(d.records) : Key(r.config) \in Keys(prior.records) } } :
              Comparable(pair[1], pair[2]) }

CompareTorn     == command.compare # NoFile /\ files[command.compare] = Torn
CorrectnessTorn == command.correctness = "torn"

(* cmd_run after the timed pass: nothing is written before the confirmation. *)
\* Mutant: the results file is opened before the confirmation is checked.
ReportOpensFirst ==
  /\ stage = "report"
  /\ \/ /\ Unconfirmed(doc.records, doc.plan)
        /\ files' = [files EXCEPT ![command.out] = Torn] /\ Return(4)
     \/ /\ ~Unconfirmed(doc.records, doc.plan)
        /\ IF CorrectnessTorn \/ CompareTorn THEN Leave(1)
           ELSE Continue("open", [doc EXCEPT !.compared = Compared(doc)])

Report ==
  /\ stage = "report"
  /\ LET unconfirmed == Unconfirmed(doc.records, doc.plan)
         unreadable  == CorrectnessTorn \/ CompareTorn
     IN \/ unconfirmed /\ Leave(4)
        \/ ~unconfirmed /\ unreadable /\ Leave(1)
        \/ /\ ~unconfirmed /\ ~unreadable
           /\ Continue("open", [doc EXCEPT !.compared = Compared(doc)])

-----------------------------------------------------------------------------
(* write_results: the file is truncated by open and filled by json.dump.    *)

OpenOut ==
  /\ stage = "open"
  /\ files' = [files EXCEPT ![command.out] = Torn] /\ stage' = "write"
  /\ UNCHANGED <<build, command, doc, chunk, status, before>>

WriteOut ==
  /\ stage = "write"
  /\ files' = [files EXCEPT ![command.out] = Whole(doc)] /\ Return(0)

-----------------------------------------------------------------------------
(* merge: the parts named on the command line, in the order named.          *)

Part(i) == files[command.parts[i]]

(* cmd_merge reads them in order and stops at the first it cannot read.     *)
MergeUnreadable ==
  /\ stage = "merge"
  /\ \E i \in DOMAIN command.parts :
       /\ \A j \in 1 .. i - 1 : Part(j).state = "whole"
       /\ \/ Part(i) = Absent /\ Leave(2)
          \/ Part(i) = Torn /\ Leave(1)

Parts == [i \in DOMAIN command.parts |-> Part(i).doc]

(* merge_parts refuses a key it has seen,                                   *)
\* Mutant: only the parts' first records are compared.
OverlapsAtHead(parts) == \E i, j \in DOMAIN parts :
  i # j /\ Key(Head(parts[i].records).config) = Key(Head(parts[j].records).config)
Overlaps(parts) ==
  LET records == FlattenSeq([i \in DOMAIN parts |-> parts[i].records])
  IN Cardinality(Keys(records)) < Len(records)

(* and parts of different builds.                                           *)
\* Mutant: only the compared fields have to agree, a rebuild does not count.
DisagreeOnFlags(parts) == \E i, j \in DOMAIN parts : Flags[parts[i].build] # Flags[parts[j].build]
Disagree(parts) == \E i, j \in DOMAIN parts : parts[i].build # parts[j].build

(* constructions.update: the later part's choice stands.                    *)
PlanOf(parts) ==
  [k \in UNION { DOMAIN parts[i].plan : i \in DOMAIN parts } |->
     parts[Max({ i \in DOMAIN parts : k \in DOMAIN parts[i].plan })].plan[k]]

(* The first part lends the document its build and its prompt set.          *)
\* Mutant: and its order.
UnionOfFirstOrder(parts) ==
  [records  |-> FlattenSeq([i \in DOMAIN parts |-> parts[i].records]),
   order    |-> parts[1].order,
   plan     |-> PlanOf(parts),
   build    |-> parts[1].build,
   prompt   |-> parts[1].prompt,
   compared |-> {}]
\* Mutant: a record goes before those there are.
UnionOfPrepended(parts) ==
  [records  |-> Reverse(FlattenSeq([i \in DOMAIN parts |-> parts[i].records])),
   order    |-> Reverse(FlattenSeq([i \in DOMAIN parts |-> parts[i].order])),
   plan     |-> PlanOf(parts),
   build    |-> parts[1].build,
   prompt   |-> parts[1].prompt,
   compared |-> {}]
UnionOf(parts) ==
  [records  |-> FlattenSeq([i \in DOMAIN parts |-> parts[i].records]),
   order    |-> FlattenSeq([i \in DOMAIN parts |-> parts[i].order]),
   plan     |-> PlanOf(parts),
   build    |-> parts[1].build,
   prompt   |-> parts[1].prompt,
   compared |-> {}]

(* A torn comparison file raises a ValueError here, which cmd_merge catches *)
(* with the refusals; a torn correctness file does too.                     *)
Merge ==
  /\ stage = "merge"
  /\ \A i \in DOMAIN command.parts : Part(i).state = "whole"
  /\ LET union   == UnionOf(Parts)
         refused == \/ Overlaps(Parts) \/ Disagree(Parts)
                    \/ Unconfirmed(union.records, union.plan)
                    \/ CompareTorn \/ CorrectnessTorn
     IN \/ refused /\ Leave(4)
        \/ ~refused /\ Continue("open", [union EXCEPT !.compared = Compared(union)])

-----------------------------------------------------------------------------
Next ==
  \/ Rebuild \/ Kill
  \/ RefusePromptSet \/ Start
  \/ PreflightRefuses \/ PreflightOnly \/ PreflightPasses
  \/ ProbeFails \/ Probe \/ TimedPassFails \/ TimedPass
  \/ Report \/ OpenOut \/ WriteOut
  \/ MergeUnreadable \/ Merge

Spec == Init /\ [][Next]_vars

-----------------------------------------------------------------------------
Published == { files[f].doc : f \in { f \in Files : files[f].state = "whole" } }

Builds == DOMAIN Flags

IsRecord(r) ==
  /\ r.chunk \in 1 .. MaxInvocations /\ r.build \in Builds
  /\ r.applied \in {0, 1} /\ r.valid \in BOOLEAN
  /\ \E c \in Commands : /\ r.place \in DOMAIN c.list /\ c.list[r.place] = r.config
                          /\ r.prompt = PromptOf(r.config, c.fixture)

IsDocument(d) ==
  /\ \A i \in DOMAIN d.records : IsRecord(d.records[i])
  /\ d.build \in Builds
  /\ \A k \in DOMAIN d.plan : d.plan[k] \in Nat \ {0}
  /\ \A pair \in d.compared : IsRecord(pair[1]) /\ IsRecord(pair[2])

(* The types; in particular no construction has a factor of 0.              *)
HarnessTypeOK ==
  /\ build \in Builds
  /\ DOMAIN files = Files
  /\ \A f \in Files : files[f] \in {Absent, Torn} \/ IsDocument(files[f].doc)
  /\ stage \in {"idle", "preflight", "probe", "timed", "report", "open", "write", "merge"}
  /\ command \in Commands \cup {NoCommand} /\ (stage = "idle") = (command = NoCommand)
  /\ IsDocument(doc)
  /\ chunk \in 0 .. MaxInvocations /\ status \in 0 .. 5 \cup {Killed}

(* Whatever driver was named, whatever was merged and whenever it was       *)
(* killed, a results file on disk holds no record whose repeat factor the   *)
(* driver did not confirm, matrix products included.                        *)
PublishedIsConfirmed == \A d \in Published : \A i \in DOMAIN d.records :
  LET k == Key(d.records[i].config)
  IN d.records[i].applied = 1 /\ (k \in DOMAIN d.plan => d.plan[k] = 1)

(* A document made from several chunks holds a configuration at most once,  *)
(* merges of merges included.                                               *)
MergedOnce == \A d \in Published :
  Cardinality({ d.records[i].chunk : i \in DOMAIN d.records }) > 1
    => \A i, j \in DOMAIN d.records : i # j => d.records[i].config # d.records[j].config

(* All records of a document were measured by one build of the driver, the  *)
(* one it names, although the driver may be rebuilt between chunks.         *)
OneMeasurement == \A d \in Published : \A i \in DOMAIN d.records : d.records[i].build = d.build

(* The order a document claims is that of its records, in which those of a  *)
(* chunk follow one another as they were measured, from its first on, and   *)
(* no measurement stands twice, through merges of merges. The chunks stand  *)
(* in the order they were named to the merge, whenever they were measured.  *)
OrderIsMeasured == \A d \in Published :
  /\ d.order = [i \in DOMAIN d.records |-> d.records[i].config]
  /\ \A i \in DOMAIN d.records :
       \/ d.records[i].place = 1
       \/ /\ i > 1 /\ d.records[i - 1].chunk = d.records[i].chunk
          /\ d.records[i - 1].place = d.records[i].place - 1
  /\ \A i, j \in DOMAIN d.records :
       i # j => \/ d.records[i].chunk # d.records[j].chunk
                \/ d.records[i].place # d.records[j].place

(* A change reported between two files is between two valid measurements of *)
(* one configuration, path included, with one prompt set (matrix products   *)
(* have none, and are compared whatever the documents' sets are) and builds *)
(* whose compared fields agree, each the build that measured the record.    *)
ComparedLikeWithLike == \A d \in Published : \A pair \in d.compared :
  /\ pair[1].config = pair[2].config /\ pair[1].prompt = pair[2].prompt
  /\ pair[1].valid /\ pair[2].valid
  /\ Flags[pair[1].build] = Flags[pair[2].build]

(* A command that refuses (2 to 5) leaves every results file as it was.     *)
RefusalLeavesFiles ==
  [][stage # "idle" /\ stage' = "idle" /\ status' \in 2 .. 5 => files' = before]_vars

(* Every cache configuration and its no-cache control are in the same       *)
(* chunk, as the note says that the merge writes into its document.         *)
PairsTogether == \A d \in Published : \A i, j \in DOMAIN d.records :
  LET a == d.records[i].config  b == d.records[j].config
  IN (a.kind = b.kind /\ a.tokens = b.tokens /\ a.path = "cache" /\ b.path = "nocache")
       => d.records[i].chunk = d.records[j].chunk
=============================================================================
