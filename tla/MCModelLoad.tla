----------------------------- MODULE MCModelLoad -----------------------------
(***************************************************************************)
(* Weight files for the reader and for the loader.  The reader's are small *)
(* headers: every sequence of up to three members in one entry without a   *)
(* repetition, unknown members of every nesting around the limit, and      *)
(* every single-token edit of a header with metadata and two tensors.  The *)
(* loader's are whole models of no, one and two layers, one without        *)
(* features, and variants.                                                 *)
(***************************************************************************)
EXTENDS ModelLoad, JsonText

Nums(s) == Arr([k \in DOMAIN s |-> <<Num(s[k])>>])

DtypeIs(d) == Of("dtype", <<Str(d)>>)
ShapeIs(dims) == Of("shape", Nums(dims))
RangeIs(b, e) == Of("data_offsets", Nums(<<b, e>>))
Entry(name, d, dims, b, e) == Of(name, Obj(<<DtypeIs(d), ShapeIs(dims), RangeIs(b, e)>>))

Data(n) == [k \in 1 .. n |-> <<"data", k>>]
File(header, n) == [tiny |-> FALSE, prefix |-> Len(header), cells |-> header \o Data(n)]

Pool ==
  { DtypeIs("F32"), DtypeIs("U8"), DtypeIs("F99"), ShapeIs(<<1>>), ShapeIs(<<>>), ShapeIs(<<2, 2>>),
    ShapeIs(<<1, 2, 1, 1>>), ShapeIs(<<32, 32>>), ShapeIs(<<32, 0, 32>>), ShapeIs(<<32, 32, 0>>),
    ShapeIs(<<600>>), ShapeIs(<<300>>), RangeIs(0, 4), RangeIs(4, 0), RangeIs(4, 8), RangeIs(5, 9), RangeIs(0, 0),
    Of("x", <<Num(1)>>) }

KeysOf(m) == { m[k][1] : k \in DOMAIN m }
Triples ==
  { Obj(<<Of("t", Obj(m))>>) :
      m \in { n \in UNION { [1 .. k -> Pool] : k \in 0 .. 3 } : Cardinality(KeysOf(n)) = Len(n) } }

\* With an unknown member added to the three.
Four ==
  { Obj(<<Of("t", Obj(<<DtypeIs("F32"), ShapeIs(d), RangeIs(0, 4), Of("x", <<v>>)>>))>>) :
      d \in { <<1>>, <<2, 2>> }, v \in { Num(1), Str("v"), <<"raw">>, <<"word">> } }

Scalars == { <<Num(0)>>, <<Str("v")>>, << <<"raw">> >>, << <<"word">> >> }
Nested ==
  LET wrap(S) == { Arr(<<v>>) : v \in S } \cup { Arr(<<v, v>>) : v \in S }
                 \cup { Obj(<<Of("k", v)>>) : v \in S } \cup { Arr(<<>>), Obj(<<>>) }
  IN  Scalars \cup wrap(Scalars) \cup wrap(wrap(Scalars))
      \cup { Arr(<<v>>) : v \in wrap(wrap(Scalars)) }
Unknown ==
  { Obj(<<Of("t", Obj(<<DtypeIs("U8"), Of("x", v), ShapeIs(<<1>>), RangeIs(0, 1)>>))>>) : v \in Nested }

Whole ==
  Obj(<<Of("__metadata__", Obj(<<Of("format", <<Str("pt")>>), Of("k", <<Str("v")>>)>>)),
        Entry("t", "U8", <<2>>, 0, 2), Of("u", Obj(<<RangeIs(2, 2), ShapeIs(<<0>>), DtypeIs("I16")>>))>>)
Alphabet == { <<"{">>, <<"}">>, <<"[">>, <<"]">>, <<",">>, Colon, Num(1), <<"raw">>, <<"word">>,
              Str("t"), Str("dtype"), Str("__metadata__") }
Edits ==
  { SubSeq(Whole, 1, k - 1) \o new \o SubSeq(Whole, k + 1, Len(Whole)) :
      k \in DOMAIN Whole, new \in {<<>>} \cup { <<t>> : t \in Alphabet } }
  \cup { SubSeq(Whole, 1, k) \o <<t>> \o SubSeq(Whole, k + 1, Len(Whole)) :
          k \in 0 .. Len(Whole), t \in Alphabet }

\* Metadata that comes twice, that is empty, that outgrows the first room.
Metadatas ==
  LET meta(n) == Of("__metadata__", Obj([k \in 1 .. n |-> Of("k", <<Str("v")>>)])) IN
  { Obj(<<meta(n), meta(k)>>) : n, k \in 0 .. 3 } \cup { Obj(<<>>), <<>> }
  \cup { Obj([k \in 1 .. 4 |-> Entry("t", "U8", <<1>>, k, k + 1)]) }

Headers == { File(h, 8) : h \in Triples \cup Four \cup Unknown \cup Edits \cup Metadatas }
           \cup { [tiny |-> tiny, prefix |-> Len(Whole) + n, cells |-> Whole \o Data(2)] :
                    tiny \in BOOLEAN, n \in -1 .. 3 }

(* Whole models: the tensors of a configuration one after the other.       *)
Config(n_layer, n_embd, vocab) ==
  [n_layer |-> n_layer, n_head |-> 1, n_embd |-> n_embd, n_ctx |-> 2, n_positions |-> 2,
   vocab_size |-> vocab, layer_norm_epsilon |-> "1e-05", activation_function |-> "gelu_new"]
Without(c, f) == [g \in DOMAIN c \ {f} |-> c[g]]

c0 == Config(0, 2, 3)
c1 == Config(1, 2, 3)
c2 == Config(2, 1, 3)
cNone == Config(1, 0, 3)

Count(dims) == IF Len(dims) = 1 THEN dims[1] ELSE dims[1] * dims[2]
\* tensors: << name, dtype, dims >>, after the other entries and with a gap before the first
Laid(others, tensors, gap) ==
  LET size(k) == Count(tensors[k][3]) * DtypeSize[tensors[k][2]]
      end[k \in 0 .. Len(tensors)] == IF k = 0 THEN gap ELSE end[k - 1] + size(k)
  IN  File(Obj(others \o [k \in DOMAIN tensors |->
              Entry(tensors[k][1], tensors[k][2], tensors[k][3], end[k - 1], end[k])]),
           end[Len(tensors)])
Model(tensors) == Laid(<<>>, tensors, 0)
Plain(c) == [k \in DOMAIN Wanted(c) |-> <<Wanted(c)[k][1], "F32", Wanted(c)[k][2]>>]
Swap(s, i, j) == [s EXCEPT ![i] = s[j], ![j] = s[i]]

f0 == Model(Plain(c0))
f1 == Model(Plain(c1))
f2 == Model(Plain(c2))
fNone == Model(Plain(cNone))
moved0 == Model(Swap(Plain(c0), 3, 4))
moved1 == Model(Swap(Plain(c1), 9, 11))
Variants ==
  { f0, moved0,
    Model([Plain(c0) EXCEPT ![3][2] = "F16"]),
    Model([Plain(c0) EXCEPT ![2][3] = <<4, 1>>]),
    Model(SubSeq(Plain(c0), 1, 3)),
    Model(Append(Plain(c0), <<"lm_head.weight", "F32", <<3, 2>>>>)),
    Model(<< <<"ln_f.bias", "F32", <<2>>>> >> \o Plain(c0)),
    Model(Append(Plain(c0), <<"ln_f.bias", "F32", <<3>>>>)),
    [f0 EXCEPT !.prefix = @ - 1],
    \* Each tensor in the same place of the file, behind headers of different lengths.
    Laid(<<>>, Plain(c0), 5), Laid(<<Of("__metadata__", Obj(<<>>))>>, Plain(c0), 0) }

ConfigVariants ==
  { c0, Config(0, 2, 4), Config(-1, 2, 3), [c0 EXCEPT !.n_ctx = 3], [c0 EXCEPT !.n_head = 0],
    [c0 EXCEPT !.n_head = 3], [c0 EXCEPT !.activation_function = "relu"],
    Without(c0, "n_positions"), Without(c0, "vocab_size") }

On(w, c) == [weights |-> w, config |-> c]
Session(tool, load, reading) == [tool |-> tool, load |-> load, reading |-> reading]

MCSessions ==
  { Session(On(w, c0), On(w, c0), "AS_STORED") : w \in Headers }
  \cup { Session(On(w, c0), On(v, c0), "AS_STORED") : w, v \in Variants }
  \cup { Session(On(f0, c), On(f0, d), "AS_STORED") : c, d \in ConfigVariants }
  \cup { Session(On(w, c1), On(v, c1), r) : w, v \in {f1, moved1}, r \in {"AS_STORED", "TRANSPOSED"} }
  \cup { Session(On(f2, c2), On(f2, c2), "AS_STORED"), Session(On(fNone, cNone), On(fNone, cNone), "AS_STORED") }

MCWeights == Headers \cup Variants \cup {f1, f2, fNone, moved1}
MCBias ==
  LET biased(l) == { "h." \o ToString(l) \o "." \o m : m \in {"ln_1", "attn.c_attn", "attn.c_proj", "ln_2",
                                                            "mlp.c_fc", "mlp.c_proj"} }
      stems == {"ln_f"} \cup biased(0) \cup biased(1)
  IN  [name \in { s \o ".weight" : s \in stems } |->
         (CHOOSE s \in stems : s \o ".weight" = name) \o ".bias"]
=============================================================================
