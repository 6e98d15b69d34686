------------------------------ MODULE ModelLoad ------------------------------
(***************************************************************************)
(* The two programs that read the weight file through module SafeTensors:  *)
(* the inventory tool, which writes what the file's header declares        *)
(* (main of src/safetensors.c), and model_load of src/model.c, which later *)
(* loads the tensors the engine needs where the inventory says they are.   *)
(* In between the weight file and the configuration may be replaced; any   *)
(* allocation, open or read may fail, and a write may stop short.          *)
(*                                                                         *)
(* Data abstraction: the configuration is a record of the fields it has;   *)
(* the inventory keeps the values a reader looks up, a record per line.  A *)
(* line that was cut short has no orientation, so that it is not found: it *)
(* is left out.                                                            *)
(***************************************************************************)
EXTENDS SafeTensors, TLC

CONSTANTS
  Bias,         \* the name of a weight's bias, by the name of the weight
  HeadNames,    \* the tensor names that contain "lm_head"
  Sessions      \* the files the tool reads, those model_load reads, and how model_load is
                \* asked to read the attention's projection

(* The numbers of layers and of features are parsed into an int.           *)
ASSUME SessionAssumption ==
  \A s \in Sessions :
    /\ s.tool.weights \in Weights /\ s.load.weights \in Weights
    /\ \A f \in {"n_layer", "n_embd"} :
         f \in DOMAIN s.load.config => s.load.config[f] \in Int

VARIABLES
  pc, session,
  inventory,    \* the lines and the configuration values of the inventory, if there is one
  made,         \* history: the inventory is whole
  model,        \* the model under construction
  status

loadVars == <<pc, session, inventory, made, model, status>>
vars == <<loadVars, readerVars>>

NoInventory == [exists |-> FALSE, config |-> <<>>, lines |-> <<>>, tied |-> "null"]
NoModel == [config |-> <<>>, records |-> FALSE, layers |-> FALSE, buffers |-> <<>>, recorded |-> <<>>]

LoadInit ==
  /\ pc = "start" /\ session \in Sessions
  /\ inventory = NoInventory /\ made = FALSE
  /\ model = NoModel /\ status = "OK"
  /\ file = session.tool.weights /\ st = ClosedFile /\ live = {} /\ wild = FALSE

CallStOpen(w) == file' = w /\ st' = [ClosedFile EXCEPT !.stage = "called"]
HeldFile == IF st.stage = "returned" /\ st.rc = "OK" THEN Held(st) ELSE {}
-----------------------------------------------------------------------------
(* The inventory tool.                                                     *)
ToolFields == {"n_embd", "n_head", "n_layer", "n_ctx", "vocab_size", "n_positions"}

\* The evidence for the axes of a matrix: its bias, else the configuration.
\* Mutant: the axis that the bias has the length of is taken for the input.
OrientationSwapped(table, t, c) ==
  LET bias == IF t.name \in DOMAIN Bias THEN Find(table, Bias[t.name]) ELSE 0
      long(axis) == bias # 0 /\ Len(table[bias].dims) = 1 /\ table[bias].dims[1] = t.dims[axis]
  IN  IF Len(t.dims) # 2 THEN "not_applicable"
      ELSE IF t.dims[1] = t.dims[2] THEN "unresolved_by_shape"
      ELSE IF long(1) THEN "axis0_input_axis1_output"
      ELSE IF long(2) THEN "axis0_output_axis1_input"
      ELSE IF t.dims[1] \in {c.vocab_size, c.n_ctx} /\ t.dims[2] = c.n_embd
      THEN "axis0_index_axis1_feature" ELSE "unresolved"

Orientation(table, t, c) ==
  LET bias == IF t.name \in DOMAIN Bias THEN Find(table, Bias[t.name]) ELSE 0
      long(axis) == bias # 0 /\ Len(table[bias].dims) = 1 /\ table[bias].dims[1] = t.dims[axis]
  IN  IF Len(t.dims) # 2 THEN "not_applicable"
      ELSE IF t.dims[1] = t.dims[2] THEN "unresolved_by_shape"
      ELSE IF long(1) THEN "axis0_output_axis1_input"
      ELSE IF long(2) THEN "axis0_input_axis1_output"
      ELSE IF t.dims[1] \in {c.vocab_size, c.n_ctx} /\ t.dims[2] = c.n_embd
      THEN "axis0_index_axis1_feature" ELSE "unresolved"

\* The matrix a head that is not stored is tied to.
TiedTo(table, c) ==
  LET vocab == { k \in DOMAIN table : table[k].dims \in {<<c.vocab_size, c.n_embd>>,
                                                          <<c.n_embd, c.vocab_size>>} }
  IN  IF Cardinality(vocab) = 1 /\ \A k \in DOMAIN table : table[k].name \notin HeadNames
      THEN table[CHOOSE k \in vocab : TRUE].name ELSE "null"

\* Mutant: the offset is the one in the data segment.
LineOfRelative(table, k, c) ==
  LET t == table[k] IN
  [name |-> t.name, dtype |-> t.dtype, dims |-> t.dims, file_offset |-> t.begin,
   nbytes |-> t.nbytes, orientation |-> Orientation(table, t, c)]

LineOf(table, k, c) ==
  LET t == table[k] IN
  [name |-> t.name, dtype |-> t.dtype, dims |-> t.dims, file_offset |-> t.file_offset,
   nbytes |-> t.nbytes, orientation |-> Orientation(table, t, c)]

\* What is on disk after n lines; the configuration values are written before them.
Written(table, c, n) ==
  [exists |-> TRUE, config |-> IF n < 0 THEN <<>> ELSE [f \in ToolFields |-> c[f]],
   lines |-> [k \in 1 .. n |-> LineOf(table, k, c)],
   tied |-> IF n < 0 THEN "null" ELSE TiedTo(table, c)]

CallTool ==
  /\ pc = "start" /\ pc' = "tool open"
  /\ CallStOpen(session.tool.weights)
  /\ UNCHANGED <<session, inventory, made, model, status, live, wild>>

\* The tool exits: its file is closed, its configuration text freed.
ToolExit(texts) ==
  /\ pc' = "written" /\ st' = ClosedFile
  /\ Heap({}, HeldFile \cup texts)

ToolOpened ==
  /\ pc = "tool open" /\ st.stage = "returned"
  /\ IF st.rc = "OK" THEN pc' = "tool config" /\ UNCHANGED <<st, live, wild>>
     ELSE ToolExit({})
  /\ UNCHANGED <<session, inventory, made, model, status, file>>

ToolConfig(readable) ==
  /\ pc = "tool config"
  /\ IF ~readable THEN ToolExit({})
     ELSE /\ pc' = "tool write" /\ Heap({<<"tool", "cfg">>}, {}) /\ UNCHANGED st
  /\ UNCHANGED <<session, inventory, made, model, status, file>>

\* A write that fails, or a kill, leaves the first lines; nobody looks.
ToolWrite(n) ==
  /\ pc = "tool write"
  /\ LET c == session.tool.config IN
     /\ ToolFields \subseteq DOMAIN c /\ n <= Len(st.table)
     /\ inventory' = Written(st.table, c, n) /\ made' = (n = Len(st.table))
  /\ ToolExit({<<"tool", "cfg">>})
  /\ UNCHANGED <<session, model, status, file>>

\* A field is missing, or the output file does not open.
ToolCannotWrite ==
  /\ pc = "tool write"
  /\ ToolExit({<<"tool", "cfg">>})
  /\ UNCHANGED <<session, inventory, made, model, status, file>>
-----------------------------------------------------------------------------
(* model_load.                                                             *)
config == session.load.config

Texts == {<<"load", "cfg_text">>, <<"load", "inv_text">>}

\* What model_free releases.  A layer's buffers are reached through the layers.
HeldModel(m) ==
  {<<"model", "self">>}
  \cup (IF m.records THEN {<<"model", "records">>} ELSE {})
  \cup (IF m.layers THEN {<<"model", "layers">>} ELSE {})
  \cup { <<"buffer", k>> : k \in { j \in DOMAIN m.buffers : j <= 4 \/ m.layers } }

\* The exit every failure takes once the model exists; `got` is what the step allocated.
\* Mutant: the weight file is left open.
FailKeepsFile(m, got, temporary, rc) ==
  /\ pc' = "failed" /\ status' = rc /\ model' = NoModel /\ st' = ClosedFile
  /\ Heap(got, Texts \cup HeldModel(m) \cup temporary)

Fail(m, got, temporary, rc) ==
  /\ pc' = "failed" /\ status' = rc /\ model' = NoModel /\ st' = ClosedFile
  /\ Heap(got, HeldFile \cup Texts \cup HeldModel(m) \cup temporary)

LoadUnchanged == UNCHANGED <<session, inventory, made>>

\* The two texts and the model; a text that cannot be read for lack of memory was not opened.
CallLoad ==
  /\ pc = "written"
  /\ \/ /\ \E rc \in {"OPEN"} \cup (IF inventory.exists THEN {"NOMEM"} ELSE {}) : status' = rc
        /\ pc' = "failed" /\ UNCHANGED model /\ Heap({}, {})
     \/ /\ inventory.exists
        /\ pc' = "checks" /\ status' = "OK"
        /\ model' = [NoModel EXCEPT !.config = config]
        /\ Heap(Texts \cup HeldModel(NoModel), {})
  /\ LoadUnchanged /\ UNCHANGED <<file, st>>

LoadFields == {"n_layer", "n_head", "n_embd", "n_ctx", "vocab_size", "layer_norm_epsilon",
               "activation_function"}

ConfigStatus(c, inv) ==
  IF ~LoadFields \subseteq DOMAIN c THEN "CONFIG"
  ELSE IF c.n_head <= 0 \/ c.n_embd % c.n_head # 0 THEN "CONFIG"
  ELSE IF c.activation_function # "gelu_new" THEN "CONFIG"
  ELSE IF \E f \in {"n_embd", "n_layer", "n_head", "vocab_size"} :
            f \notin DOMAIN inv.config \/ inv.config[f] # c[f] THEN "INVENTORY"
  ELSE "OK"

CheckConfig ==
  /\ pc = "checks"
  /\ LET rc == ConfigStatus(config, inventory) IN
     IF rc # "OK" THEN Fail(model, {}, {}, rc) /\ UNCHANGED file
     ELSE /\ pc' = "weights" /\ CallStOpen(session.load.weights)
          /\ UNCHANGED <<model, status, live, wild>>
  /\ LoadUnchanged

WeightsOpened ==
  /\ pc = "weights" /\ st.stage = "returned"
  /\ IF st.rc # "OK" THEN Fail(model, {}, {}, "WEIGHTS")
     ELSE pc' = "tables" /\ UNCHANGED <<model, status, st, live, wild>>
  /\ LoadUnchanged /\ UNCHANGED file

\* Both tables are asked for before either is looked at; no layers below zero.
AllocTables(records, layers) ==
  /\ pc = "tables" /\ (layers => config.n_layer >= 0)
  /\ LET m   == [model EXCEPT !.records = records, !.layers = layers]
         got == HeldModel(m) \ HeldModel(model)
     IN  IF ~records \/ ~layers THEN Fail(m, got, {}, "NOMEM")
         ELSE pc' = "tensors" /\ model' = m /\ Heap(got, {}) /\ UNCHANGED <<status, st>>
  /\ LoadUnchanged /\ UNCHANGED file

\* The tensors in the order they are loaded, each with its extents.
PerLayer(E) ==
  << <<"ln_1.weight", <<E>>>>, <<"ln_1.bias", <<E>>>>,
     <<"attn.c_attn.weight", <<E, 3 * E>>>>, <<"attn.c_attn.bias", <<3 * E>>>>,
     <<"attn.c_proj.weight", <<E, E>>>>, <<"attn.c_proj.bias", <<E>>>>,
     <<"ln_2.weight", <<E>>>>, <<"ln_2.bias", <<E>>>>,
     <<"mlp.c_fc.weight", <<E, 4 * E>>>>, <<"mlp.c_fc.bias", <<4 * E>>>>,
     <<"mlp.c_proj.weight", <<4 * E, E>>>>, <<"mlp.c_proj.bias", <<E>>>> >>

Wanted(c) ==
  LET E == c.n_embd IN
  [k \in 1 .. 4 + 12 * c.n_layer |->
     IF k <= 4 THEN << <<"wte.weight", <<c.vocab_size, E>>>>, <<"wpe.weight", <<c.n_ctx, E>>>>,
                       <<"ln_f.weight", <<E>>>>, <<"ln_f.bias", <<E>>>> >>[k]
     ELSE LET field == PerLayer(E)[((k - 5) % 12) + 1]
          IN  <<"h." \o ToString((k - 5) \div 12) \o "." \o field[1], field[2]>>]

\* The bias of a layer's matrix is the tensor that follows it.
ASSUME BiasAssumption ==
  \A s \in Sessions : LET c == s.load.config IN
    {"n_layer", "n_embd", "n_ctx", "vocab_size"} \subseteq DOMAIN c =>
      \A k \in { j \in DOMAIN Wanted(c) : j > 4 /\ Len(Wanted(c)[j][2]) = 2 } :
        Wanted(c)[k][1] \in DOMAIN Bias /\ Bias[Wanted(c)[k][1]] = Wanted(c)[k + 1][1]

\* load_tensor: the inventory's line, then the file's own entry, against the extents.
\* Mutant: the place of the tensor is not compared.
TensorMatchesAnywhere(name, dims) ==
  LET line  == Find(inventory.lines, name)
      entry == Find(st.table, name)
      e     == inventory.lines[line]
      t     == st.table[entry]
  IN  IF line = 0 THEN "INVENTORY"
      ELSE IF e.dtype # "F32" THEN "DTYPE"
      ELSE IF e.dims # dims THEN "SHAPE"
      ELSE IF entry = 0 THEN "INVENTORY"
      ELSE IF t.dtype # "F32" THEN "DTYPE"
      ELSE IF t.dims # e.dims \/ t.nbytes # e.nbytes THEN "INVENTORY"
      ELSE IF Elements(dims) * DtypeSize["F32"] # t.nbytes THEN "SHAPE"
      ELSE "OK"

TensorMatches(name, dims) ==
  LET line  == Find(inventory.lines, name)
      entry == Find(st.table, name)
      e     == inventory.lines[line]
      t     == st.table[entry]
  IN  IF line = 0 THEN "INVENTORY"
      ELSE IF e.dtype # "F32" THEN "DTYPE"
      ELSE IF e.dims # dims THEN "SHAPE"
      ELSE IF entry = 0 THEN "INVENTORY"
      ELSE IF t.dtype # "F32" THEN "DTYPE"
      ELSE IF t.dims # e.dims \/ t.nbytes # e.nbytes \/ t.file_offset # e.file_offset
      THEN "INVENTORY"
      ELSE IF Elements(dims) * DtypeSize["F32"] # t.nbytes THEN "SHAPE"
      ELSE "OK"

\* An n x n matrix of four-byte elements, transposed in place.
TransposeSquare(bytes, n) ==
  [b \in DOMAIN bytes |->
     LET element == (b - 1) \div 4
     IN  bytes[4 * ((element % n) * n + (element \div n)) + ((b - 1) % 4) + 1]]

IsProjection(k) == k > 4 /\ (k - 5) % 12 = 4
RecordedName == [k \in {1, 2, 7, 9, 13, 15} |->
  <<"wte.weight", "wpe.weight", "h.*.attn.c_attn.weight", "h.*.attn.c_proj.weight",
    "h.*.mlp.c_fc.weight", "h.*.mlp.c_proj.weight">>[Cardinality({ j \in {1, 2, 7, 9, 13, 15} : j <= k })]]

\* record_tensor: at most one line of the table for each of layer 0's matrices.
Record(k, name) ==
  LET e == inventory.lines[Find(inventory.lines, name)] IN
  IF k \in DOMAIN RecordedName
  THEN Append(model.recorded, [name |-> RecordedName[k], orientation |-> e.orientation,
                               transposed |-> IsProjection(k) /\ session.reading = "TRANSPOSED"])
  ELSE model.recorded

\* The next tensor; mem: its buffer is allocated, ok: it is read.
LoadTensor(mem, ok) ==
  /\ pc = "tensors" /\ Len(model.buffers) < Len(Wanted(config))
  /\ LET k     == Len(model.buffers) + 1
         want  == Wanted(config)[k]
         rc    == TensorMatches(want[1], want[2])
         t     == st.table[Find(st.table, want[1])]
         bytes == BytesOf(file, t)
         new   == {<<"buffer", k>>}
     IN  IF rc # "OK" THEN Fail(model, {}, {}, rc)
         ELSE IF ~mem THEN Fail(model, {}, {}, "NOMEM")
         ELSE IF ~ok \/ ReadOutcomes(file, t, t.nbytes) # {"READ", "OK"}
         THEN Fail(model, new, new, "WEIGHTS")
         ELSE /\ model' = [model EXCEPT
                   !.buffers = Append(@, IF IsProjection(k) /\ session.reading = "TRANSPOSED"
                                         THEN TransposeSquare(bytes, config.n_embd) ELSE bytes),
                   !.recorded = Record(k, want[1])]
              /\ Heap(new, {}) /\ UNCHANGED <<pc, status, st>>
  /\ LoadUnchanged /\ UNCHANGED file

LoadReturns ==
  /\ pc = "tensors" /\ Len(model.buffers) = Len(Wanted(config))
  /\ pc' = "loaded" /\ st' = ClosedFile
  /\ Heap({}, HeldFile \cup Texts)
  /\ LoadUnchanged /\ UNCHANGED <<model, status, file>>

ModelFree ==
  /\ pc = "loaded" /\ pc' = "freed"
  /\ model' = NoModel /\ Heap({}, HeldModel(model))
  /\ LoadUnchanged /\ UNCHANGED <<status, file, st>>

LoadNext ==
  \/ StOpen /\ UNCHANGED loadVars
  \/ CallTool
  \/ ToolOpened
  \/ \E readable \in BOOLEAN : ToolConfig(readable)
  \/ \E n \in -1 .. Len(st.table) : ToolWrite(n)
  \/ ToolCannotWrite
  \/ CallLoad
  \/ CheckConfig
  \/ WeightsOpened
  \/ \E records, layers \in BOOLEAN : AllocTables(records, layers)
  \/ \E mem, ok \in BOOLEAN : LoadTensor(mem, ok)
  \/ LoadReturns
  \/ ModelFree

LoadSpec == LoadInit /\ [][LoadNext]_vars
-----------------------------------------------------------------------------
(* Nothing is released twice, and whichever exit is taken, of the reader,  *)
(* the tool or the loader, it leaves exactly what its caller is given: an  *)
(* open file, a model, or nothing at all.  No table outgrows its array.    *)
ReleasedOnce ==
  /\ ~wild
  /\ Len(st.table) <= st.cap
  /\ pc \in {"start", "written", "failed", "freed"} => live = {}
  /\ pc = "loaded" => live = HeldModel(model) /\ Len(model.buffers) = 4 + 12 * config.n_layer
  /\ st.stage = "returned" =>
       { o \in live : o[1] \in {"st", "key", "value"} } = (IF st.rc = "OK" THEN Held(st) ELSE {})

\* The entry a file's header declares under a name, if it does.
EntryOf(w, name) == LET table == TableOf(w) IN
  IF WellFormed(w) /\ Find(table, name) # 0 THEN table[Find(table, name)] ELSE [dtype |-> "none"]

HasTensors(w, c) ==
  \A k \in DOMAIN Wanted(c) :
    LET t == EntryOf(w, Wanted(c)[k][1]) IN
    t.dtype = "F32" /\ t.dims = Wanted(c)[k][2]

(* A model that loads holds, tensor by tensor, the bytes that the file it  *)
(* was loaded from declares under the tensor's name, and the file the      *)
(* inventory was made from declared them in the same place: an inventory   *)
(* that is stale or was cut short loads nothing.  The place is the file's: *)
(* behind a longer header, a range of the data begins earlier.             *)
LoadsWhatWasInventoried ==
  pc = "loaded" =>
    LET w   == session.load.weights
        old == session.tool.weights
    IN  /\ HasTensors(w, config)
        /\ \A k \in DOMAIN model.buffers :
             LET t == EntryOf(w, Wanted(config)[k][1])
                 o == EntryOf(old, Wanted(config)[k][1])
                 bytes == SubSeq(w.cells, w.prefix + t.begin + 1, w.prefix + t.end)
             IN  /\ o.dtype = t.dtype /\ \A f \in {"dims", "file_offset", "nbytes"} : o[f] = t[f]
                 /\ model.buffers[k] = IF session.reading = "TRANSPOSED" /\ k > 4 /\ k % 12 = 9
                                       THEN TransposeSquare(bytes, config.n_embd) ELSE bytes

(* The inventory of the very files that are loaded never stands in the     *)
(* way: when it is whole, what can be refused is the configuration or the  *)
(* tensors themselves.                                                     *)
FreshInventoryLoads ==
  pc = "failed" /\ made /\ session.load = session.tool =>
    \/ status \in {"OPEN", "NOMEM", "WEIGHTS"}
    \/ status = "CONFIG" /\ ConfigStatus(config, inventory) = "CONFIG"
    \/ status \in {"SHAPE", "DTYPE", "INVENTORY"} /\ ~HasTensors(file, config)

(* The loader multiplies by every matrix of a layer as [input, output]     *)
(* without asking the inventory for its axes, and always uses wte as the   *)
(* head; the inventory never pinned the opposite axes or another head, and *)
(* left open only what is square (with no features, all of it).            *)
ReadAsPinned ==
  pc = "loaded" =>
    /\ inventory.tied \in {"null", "wte.weight"}
    /\ \A k \in { j \in DOMAIN model.buffers : j > 4 /\ Len(Wanted(config)[j][2]) = 2 } :
         inventory.lines[Find(inventory.lines, Wanted(config)[k][1])].orientation
           = IF IsProjection(k) \/ config.n_embd = 0 THEN "unresolved_by_shape"
             ELSE "axis0_input_axis1_output"
=============================================================================
