----------------------------- MODULE SafeTensors -----------------------------
(***************************************************************************)
(* The weight-file reader of src/safetensors.c: st_open reads a header and *)
(* fills the table of tensors an entry at a time, st_find and              *)
(* st_tensor_read answer from that table, st_close gives everything back.  *)
(*                                                                         *)
(* Data abstraction: a file is its length prefix and a sequence of cells,  *)
(* one cell to a byte; a header's cell is a token of module JsonScan, or   *)
(* <<"raw">>, a string too long for any buffer, which st_skip_value passes *)
(* over in place.  Every other cell is a byte no scanner takes: a literal  *)
(* such as null, a negative or fractional number, one that overflows 64    *)
(* bits, a \u escape, a byte of the data segment.  No file has a string    *)
(* with a control byte or an escape the parsers do not know.  Offsets are  *)
(* the file's.                                                             *)
(***************************************************************************)
EXTENDS JsonScan, Memory

CONSTANTS
  Weights,      \* the contents a weight file may have
  UMax,         \* UINT64_MAX
  MaxDims,      \* ST_MAX_DIMS
  FirstCap      \* the entries st_grow makes room for at first

PrefixBytes == 8
IMax == UMax \div 2

(* A number that a scanner takes fits 64 bits.                             *)
ASSUME ReaderAssumption ==
  /\ UMax \in Nat /\ MaxDims \in Nat \ {0} /\ FirstCap \in Nat \ {0}
  /\ \A w \in Weights :
       /\ w.tiny \in BOOLEAN /\ w.prefix \in Nat
       /\ w.cells \in Seq({ w.cells[k] : k \in DOMAIN w.cells })
       /\ \A k \in DOMAIN w.cells : w.cells[k][1] = "num" => w.cells[k][2] \in 0 .. UMax

DtypeSize == [BOOL |-> 1, U8 |-> 1, I8 |-> 1, U16 |-> 2, I16 |-> 2, F16 |-> 2, BF16 |-> 2,
              U32 |-> 4, I32 |-> 4, F32 |-> 4, U64 |-> 8, I64 |-> 8, F64 |-> 8]

FileSize(w) == IF w.tiny THEN PrefixBytes - 1 ELSE PrefixBytes + Len(w.cells)
Header(w) == SubSeq(w.cells, 1, w.prefix)
DataBytes(w) == Len(w.cells) - w.prefix
DataOffset(w) == PrefixBytes + w.prefix
-----------------------------------------------------------------------------
\* Mutant: a string that is only skipped is decoded all the same.
SkipDecoded(h, from) == SkipValue(h, from, {"str", "num"})

\* st_skip_value: a string it only skips may hold what the others reject.
Skip(h, from) == SkipValue(h, from, {"str", "raw", "num"})
-----------------------------------------------------------------------------
(* st_parse_tensor: a member's own errors, then the entry's.               *)
Shape(h, from) ==
  LET dim[p \in Nat] ==
        IF ~IsA(h, p, "num") THEN Reject("BAD_JSON")
        ELSE IF (p - from - 1) \div 2 >= MaxDims THEN Reject("TOO_MANY_DIMS")
        ELSE IF h[p][2] > IMax THEN Reject("BAD_SHAPE")
        ELSE IF At(h, p + 1, ",") THEN dim[p + 2]
        ELSE IF At(h, p + 1, "]") THEN Read(p + 2)
        ELSE Reject("BAD_JSON")
  IN  IF ~At(h, from, "[") THEN Reject("BAD_JSON")
      ELSE IF At(h, from + 1, "]") THEN Read(from + 2)
      ELSE dim[from + 1]

Dims(h, from) ==
  [k \in 1 .. (Shape(h, from).at - from - 1) \div 2 |-> h[from + 2 * k - 1][2]]

Offsets(h, p) ==
  IF /\ At(h, p, "[") /\ IsA(h, p + 1, "num") /\ At(h, p + 2, ",")
     /\ IsA(h, p + 3, "num") /\ At(h, p + 4, "]")
  THEN Read(p + 5) ELSE Reject("BAD_JSON")

TensorMember(h, p) ==
  IF ~KeyAt(h, p) THEN Reject("BAD_JSON")
  ELSE CASE h[p][2] = "dtype" ->
              IF ~IsA(h, p + 2, "str") THEN Reject("BAD_JSON")
              ELSE IF h[p + 2][2] \in DOMAIN DtypeSize THEN Read(p + 3)
              ELSE Reject("BAD_DTYPE")
         [] h[p][2] = "shape" -> Shape(h, p + 2)
         [] h[p][2] = "data_offsets" -> Offsets(h, p + 2)
         [] OTHER -> Skip(h, p + 2)

\* The number of elements; -1 when a partial product overflows.
\* Mutant: the product is taken modulo the width.
ElementsWrap(dims) ==
  LET product[k \in 0 .. Len(dims)] ==
        IF k = 0 THEN 1 ELSE (product[k - 1] * dims[k]) % (UMax + 1)
  IN  product[Len(dims)]

Elements(dims) ==
  LET product[k \in 0 .. Len(dims)] ==
        IF k = 0 THEN 1
        ELSE IF product[k - 1] = -1 \/ product[k - 1] * dims[k] > UMax THEN -1
        ELSE product[k - 1] * dims[k]
  IN  product[Len(dims)]

Tensor(h, name, begin, w) ==
  LET o == LastOf(h, begin, "data_offsets") + 2 IN
  [name |-> name, dtype |-> h[LastOf(h, begin, "dtype") + 2][2],
   dims |-> Dims(h, LastOf(h, begin, "shape") + 2),
   begin |-> h[o + 1][2], end |-> h[o + 3][2],
   file_offset |-> DataOffset(w) + h[o + 1][2], nbytes |-> h[o + 3][2] - h[o + 1][2]]

TensorStatus(h, members, name, w) ==
  LET keys  == { h[p][2] : p \in members.begin }
      t     == Tensor(h, name, members.begin, w)
      elems == Elements(t.dims)
  IN  IF members.rc # "OK" THEN members.rc
      ELSE IF ~{"dtype", "data_offsets"} \subseteq keys THEN "BAD_JSON"
      ELSE IF "shape" \notin keys THEN "BAD_SHAPE"
      ELSE IF t.end < t.begin \/ t.end > DataBytes(w) THEN "RANGE"
      ELSE IF elems = -1 \/ elems * DtypeSize[t.dtype] > UMax THEN "SIZE_MISMATCH"
      ELSE IF elems * DtypeSize[t.dtype] # t.nbytes THEN "SIZE_MISMATCH"
      ELSE "OK"

\* st_parse_metadata: strings to strings.
MetadataMember(h, p) ==
  IF KeyAt(h, p) /\ IsA(h, p + 2, "str") THEN Read(p + 3) ELSE Reject("BAD_JSON")
-----------------------------------------------------------------------------
VARIABLES
  file,      \* the weight file that is read
  st         \* st_open's progress, and the st_file it fills

readerVars == <<file, st, heapVars>>

ClosedFile ==
  [stage |-> "closed", rc |-> "OK", at |-> 1, table |-> <<>>, cap |-> 0,
   meta |-> <<>>, metaCap |-> 0, hasMeta |-> FALSE]

\* What st_close releases: the pointers of f that are set.
Held(f) ==
  {<<"st", "fp">>, <<"st", "file">>}
  \cup (IF f.cap > 0 THEN {<<"st", "tensors">>} ELSE {})
  \cup (IF f.metaCap > 0 \/ f.meta # <<>> THEN {<<"st", "meta">>} ELSE {})
  \cup ({"key", "value"} \X DOMAIN f.meta)

HeaderText == {<<"st", "header">>}

\* st_grow: the capacity after making room for `need` entries.
Grown(cap, need) ==
  LET double[c \in Nat] == IF c >= need THEN c ELSE double[2 * c]
  IN  IF need <= cap THEN cap ELSE double[IF cap = 0 THEN FirstCap ELSE 2 * cap]

\* st_open fails: f is what has been filled so far, `text` the header if it was read.
GiveUp(f, got, text, rc) ==
  /\ st' = [ClosedFile EXCEPT !.stage = "returned", !.rc = rc]
  /\ Heap(got, Held(f) \cup text)

\* fopen and calloc.
StFopen ==
  /\ st.stage = "called"
  /\ \/ \E rc \in {"OPEN", "NOMEM"} :
          st' = [ClosedFile EXCEPT !.stage = "returned", !.rc = rc] /\ Heap({}, {})
     \/ st' = [ClosedFile EXCEPT !.stage = "opened"] /\ Heap(Held(ClosedFile), {})
  /\ UNCHANGED file

\* The size, the prefix, the header's bytes; any of the calls may fail.
HeaderOutcomes(w) ==
  {"READ"} \cup IF w.tiny \/ w.prefix > Len(w.cells) THEN {"TRUNCATED_HEADER"} ELSE {"NOMEM", "OK"}

ReadHeader ==
  /\ st.stage = "opened"
  /\ \E rc \in HeaderOutcomes(file) :
       IF rc = "OK" THEN st' = [st EXCEPT !.stage = "header"] /\ Heap(HeaderText, {})
       ELSE GiveUp(st, {}, {}, rc)
  /\ UNCHANGED file

\* The stage and the cursor after an entry, or a pair, that ends before p.
Following(h, p, stage) ==
  IF At(h, p, ",") THEN [stage |-> stage, at |-> p + 1]
  ELSE [stage |-> IF stage = "pair" THEN "pairs end" ELSE "entries end", at |-> p]

Goto(f, next) == [f EXCEPT !.stage = next.stage, !.at = next.at]

BeginHeader ==
  /\ st.stage = "header"
  /\ LET h == Header(file) IN
     IF ~At(h, 1, "{") THEN GiveUp(st, {}, HeaderText, "BAD_JSON")
     ELSE /\ st' = Goto(st, [stage |-> IF At(h, 2, "}") THEN "entries end" ELSE "entry", at |-> 2])
          /\ Heap({}, {})
  /\ UNCHANGED file

\* An entry of the header: the metadata, which is read a pair at a time, or a tensor.
ReadTensor(h, mem) ==
  LET name    == h[st.at][2]
      members == Members(h, st.at + 2, [p \in 1 .. Len(h) + 1 |-> TensorMember(h, p)])
      rc      == TensorStatus(h, members, name, file)
      grown   == [st EXCEPT !.cap = Grown(@, Len(st.table) + 1)]
      got     == Held(grown) \ Held(st)
  IN  IF ~mem THEN grown.cap > st.cap /\ GiveUp(st, {}, HeaderText, "NOMEM")
      ELSE IF rc # "OK" THEN GiveUp(grown, got, HeaderText, rc)
      ELSE /\ st' = [Goto(grown, Following(h, members.at, "entry")) EXCEPT
                       !.table = Append(@, Tensor(h, name, members.begin, file))]
           /\ Heap(got, {})

ReadEntry(mem) ==
  /\ st.stage = "entry"
  /\ LET h == Header(file) IN
     IF ~KeyAt(h, st.at) THEN GiveUp(st, {}, HeaderText, "BAD_JSON")
     ELSE IF h[st.at][2] # "__metadata__" THEN ReadTensor(h, mem)
     ELSE IF ~At(h, st.at + 2, "{") THEN GiveUp(st, {}, HeaderText, "BAD_JSON")
     ELSE /\ st' = [Goto(st, IF At(h, st.at + 3, "}") THEN Following(h, st.at + 4, "entry")
                             ELSE [stage |-> "pair", at |-> st.at + 3])
                    EXCEPT !.hasMeta = TRUE, !.metaCap = 0]
          /\ Heap({}, {})
  /\ UNCHANGED file

\* A pair of the metadata; `mem` is what there is memory for.
ReadPair(mem) ==
  /\ st.stage = "pair"
  /\ LET h     == Header(file)
         grown == [st EXCEPT !.metaCap = Grown(@, Len(st.meta) + 1)]
         added == [grown EXCEPT !.meta = Append(@, <<h[st.at][2], h[st.at + 2][2]>>)]
     IN  IF ~(KeyAt(h, st.at) /\ IsA(h, st.at + 2, "str"))
         THEN GiveUp(st, {}, HeaderText, "BAD_JSON")
         ELSE \/ mem = "nothing" /\ grown.metaCap > st.metaCap /\ GiveUp(st, {}, HeaderText, "NOMEM")
              \/ mem = "array" /\ GiveUp(grown, Held(grown) \ Held(st), HeaderText, "NOMEM")
              \/ /\ mem = "all" /\ st' = Goto(added, Following(h, st.at + 3, "pair"))
                 /\ Heap(Held(added) \ Held(st), {})
  /\ UNCHANGED file

EndPairs ==
  /\ st.stage = "pairs end"
  /\ LET h == Header(file) IN
     IF ~At(h, st.at, "}") THEN GiveUp(st, {}, HeaderText, "BAD_JSON")
     ELSE st' = Goto(st, Following(h, st.at + 1, "entry")) /\ Heap({}, {})
  /\ UNCHANGED file

\* The header's '}', after which nothing may follow.
EndEntries ==
  /\ st.stage = "entries end"
  /\ LET h == Header(file) IN
     IF ~At(h, st.at, "}") \/ st.at # Len(h) THEN GiveUp(st, {}, HeaderText, "BAD_JSON")
     ELSE st' = [st EXCEPT !.stage = "returned"] /\ Heap({}, HeaderText)
  /\ UNCHANGED file

StOpen ==
  \/ StFopen
  \/ ReadHeader
  \/ BeginHeader
  \/ \E mem \in BOOLEAN : ReadEntry(mem)
  \/ \E mem \in {"nothing", "array", "all"} : ReadPair(mem)
  \/ EndPairs
  \/ EndEntries
-----------------------------------------------------------------------------
\* st_find: the first of the name, 0 when there is none.
Find(table, name) ==
  LET named == { k \in DOMAIN table : table[k].name = name }
  IN  IF named = {} THEN 0 ELSE CHOOSE k \in named : \A j \in named : k <= j

\* st_metadata, likewise.
Metadata(meta, key) ==
  LET named == { k \in DOMAIN meta : meta[k][1] = key }
  IN  IF named = {} THEN "null" ELSE meta[CHOOSE k \in named : \A j \in named : k <= j][2]

\* st_tensor_read into a buffer of `room` bytes: what it may answer, and what it reads.
ReadOutcomes(w, t, room) ==
  IF room < t.nbytes THEN {"ARG"}
  ELSE IF t.file_offset + t.nbytes > FileSize(w) THEN {"RANGE"}
  ELSE {"READ", "OK"}

BytesOf(w, t) ==
  SubSeq(w.cells, t.file_offset - PrefixBytes + 1, t.file_offset - PrefixBytes + t.nbytes)
-----------------------------------------------------------------------------
(* The header's grammar.                                                   *)
IsValue(h, s) == IsSkipped(h, s, {"str", "raw", "num"})

IsMember(h, s) ==
  LET v == ValueOf(s) IN
  /\ Keyed(h, s)
  /\ CASE h[s[1]][2] = "dtype" -> Single(h, v, "str") /\ h[v[1]][2] \in DOMAIN DtypeSize
       [] h[s[1]][2] = "shape" ->
            /\ Bracketed(h, v, "[") /\ Cardinality(Inside(h, v)) <= MaxDims
            /\ \A e \in Inside(h, v) : Single(h, e, "num") /\ h[e[1]][2] <= IMax
       [] h[s[1]][2] = "data_offsets" ->
            /\ Bracketed(h, v, "[") /\ Cardinality(Inside(h, v)) = 2
            /\ \A e \in Inside(h, v) : Single(h, e, "num")
       [] OTHER -> IsValue(h, v)

Numbers(h, v) == LET e == InOrder(Inside(h, v)) IN [k \in DOMAIN e |-> h[e[k][1]][2]]
LastValue(h, s, key) ==
  LET named == { m \in Inside(h, ValueOf(s)) : h[m[1]][2] = key }
  IN  ValueOf(CHOOSE m \in named : \A n \in named : n[1] <= m[1])

\* The tensor an entry declares, when it declares one.
Declared(h, s, w) ==
  LET range == Numbers(h, LastValue(h, s, "data_offsets")) IN
  [name |-> h[s[1]][2], dtype |-> h[LastValue(h, s, "dtype")[1]][2],
   dims |-> Numbers(h, LastValue(h, s, "shape")), begin |-> range[1], end |-> range[2],
   file_offset |-> PrefixBytes + w.prefix + range[1], nbytes |-> range[2] - range[1]]

\* Without a width: the bytes that the elements up to the k-th extent take.
Bytes(t, k) ==
  LET product[j \in 0 .. k] == IF j = 0 THEN 1 ELSE product[j - 1] * t.dims[j]
  IN  product[k] * DtypeSize[t.dtype]

IsTensor(h, s, w) ==
  LET v == ValueOf(s)
      t == Declared(h, s, w)
  IN  /\ Keyed(h, s) /\ h[s[1]][2] # "__metadata__" /\ Bracketed(h, v, "{")
      /\ \A m \in Inside(h, v) : IsMember(h, m)
      /\ {"dtype", "shape", "data_offsets"} \subseteq { h[m[1]][2] : m \in Inside(h, v) }
      /\ t.begin <= t.end /\ t.end <= DataBytes(w)
      /\ Bytes(t, Len(t.dims)) = t.nbytes

IsMetadata(h, s) ==
  /\ Keyed(h, s) /\ h[s[1]][2] = "__metadata__" /\ Bracketed(h, ValueOf(s), "{")
  /\ \A m \in Inside(h, ValueOf(s)) : Keyed(h, m) /\ Single(h, ValueOf(m), "str")

WellFormed(w) ==
  LET h == Header(w)
      all == <<1, Len(h) + 1>>
  IN  /\ ~w.tiny /\ w.prefix <= Len(w.cells) /\ Bracketed(h, all, "{")
      /\ \A s \in Inside(h, all) : IsMetadata(h, s) \/ IsTensor(h, s, w)

TableOf(w) ==
  LET h == Header(w)
      tensors == InOrder({ s \in Inside(h, <<1, Len(h) + 1>>) : h[s[1]][2] # "__metadata__" })
  IN  [k \in DOMAIN tensors |-> Declared(h, tensors[k], w)]

\* An entry of a header of the grammar declares one of the keys of a tensor twice.
RepeatsMember(w) ==
  LET h == Header(w) IN
  WellFormed(w) /\ \E s \in Inside(h, <<1, Len(h) + 1>>) :
    /\ IsTensor(h, s, w)
    /\ \E m, n \in Inside(h, ValueOf(s)) :
         m # n /\ h[m[1]] = h[n[1]] /\ h[m[1]][2] \in {"dtype", "shape", "data_offsets"}

(* The files are those the head of safetensors.c and the code agree about: *)
(* it says that duplicate required keys are rejected (line 31), and the    *)
(* code takes the last one.                                                *)
ASSUME MembersAssumption == \A w \in Weights : ~RepeatsMember(w)

(* st_open accepts no header but those of the grammar, and its table is    *)
(* what the header declares: every tensor once and in order, of unknown    *)
(* members nothing, every range in the file and with exactly the elements  *)
(* of the shape, in unbounded arithmetic.                                  *)
TableIsHeader ==
  st.stage = "returned" /\ st.rc = "OK" => WellFormed(file) /\ st.table = TableOf(file)

(* It refuses none of them, whatever the order of their members, unless a  *)
(* shape's product overflows: even before an extent of zero.               *)
WellFormedOpens ==
  LET narrow(t) == \A k \in DOMAIN t.dims : Bytes(t, k) <= UMax IN
  st.stage = "returned" /\ st.rc \notin {"OK", "OPEN", "READ", "NOMEM"} =>
    ~(WellFormed(file) /\ \A k \in DOMAIN TableOf(file) : narrow(TableOf(file)[k]))
=============================================================================
