--------------------------- MODULE MCTokenizerLoad ---------------------------
(***************************************************************************)
(* Artifacts for the loader: every single-token edit of a small one, every *)
(* vocabulary, list of merges and added token from small pools, and every  *)
(* spelling over the bytes at which UTF-8 changes its mind.  None has     *)
(* tokens after its object, and none that loads an id twice.               *)
(***************************************************************************)
EXTENDS TokenizerLoad, JsonText

MCNames == [model |-> <<109>>, vocab |-> <<118>>, merges |-> <<101>>, added_tokens |-> <<97>>,
            content |-> <<99>>, id |-> <<105>>]
other == <<120>>
A == <<65>>
B == <<66>>
AB == <<65, 66>>

\* entries: << spelling, id >>; lines and contents are bytes.
Vocab(entries) == Of(MCNames.vocab, Obj([k \in DOMAIN entries |-> Of(entries[k][1], <<Num(entries[k][2])>>)]))
Lines(lines) == Of(MCNames.merges, Arr([k \in DOMAIN lines |-> <<Str(lines[k])>>]))
Added(tokens) == Of(MCNames.added_tokens, Arr(tokens))
ContentIs(s) == Of(MCNames.content, <<Str(s)>>)
IdIs(n) == Of(MCNames.id, <<Num(n)>>)

Line == <<65, 32, 66>>
Base(vocab, lines, tokens) ==
  Obj(<<Added(tokens), Of(MCNames.model, Obj(<<Vocab(vocab), Lines(lines)>>))>>)
Small == << <<A, 0>>, <<B, 1>>, <<AB, 2>> >>

Whole ==
  Obj(<<Of(other, Arr(<< << <<"word">> >>, <<Num(1)>> >>)),
        Of(MCNames.model, Obj(<<Of(other, Obj(<<>>)), Vocab(SubSeq(Small, 1, 2)), Lines(<<Line>>)>>)),
        Added(<<Obj(<<IdIs(1), ContentIs(A)>>)>>)>>)
Tokens == { <<"{">>, <<"}">>, <<"[">>, <<"]">>, <<",">>, Colon, Num(1), <<"word">>, <<"bad">>,
            Str(A), Str(Line), Str(MCNames.content) }
Edited ==
  { SubSeq(Whole, 1, k - 1) \o new \o SubSeq(Whole, k + 1, Len(Whole)) :
      k \in DOMAIN Whole, new \in {<<>>} \cup { <<t>> : t \in Tokens } }
  \cup { SubSeq(Whole, 1, k) \o <<t>> \o SubSeq(Whole, k + 1, Len(Whole)) :
          k \in 0 .. Len(Whole), t \in Tokens }

Edits == { a \in Edited : TopSpan(a)[2] \notin 1 .. Len(a) }

UpTo(n, S) == UNION { [1 .. k -> S] : k \in 0 .. n }
Vocabularies ==
  { a \in { Base(v, <<Line>>, <<>>) : v \in UpTo(3, {A, B} \X {0, 1, 2, 5}) } :
      Loadable(a) => Cardinality(DOMAIN DeclaredVocab(a)) = Len(VocabEntries(a)) }
MergeLists ==
  { Base(Small, m, <<>>) :
      m \in UpTo(3, {Line, <<66, 32, 65>>, <<65, 32, 32, 66>>, A, <<32, 65>>, <<65, 32>>}) }
AddedTokens ==
  LET members == { ContentIs(A), ContentIs(AB), IdIs(0), IdIs(7), Of(other, Arr(<<>>)) } IN
  { Base(Small, <<Line>>, <<Obj(m)>>) : m \in UpTo(3, members) }
  \cup { Base(Small, <<Line>>, [k \in 1 .. n |-> Obj(<<ContentIs(A), IdIs(k)>>)]) : n \in 0 .. 3 }

\* A vocabulary that is empty, a model that is, and no model at all.
Empties ==
  { Obj(<<>>), Obj(<<Added(<<>>)>>), Obj(<<Of(MCNames.model, Obj(<<>>))>>),
    Obj(<<Of(MCNames.model, Obj(<<Lines(<<Line>>)>>))>>), Obj(<<Of(MCNames.model, Obj(<<Vocab(Small)>>))>>) }

Probes ==
  ({0, 127, 128, 191, 192, 193, 194, 196, 197, 198, 223, 224, 245, 255} \X {1, 32, 127, 128, 162, 173, 191, 192})
  \cup ({224, 225, 237, 239} \X {127, 128, 159, 160, 191, 192} \X {65, 128, 191, 192})
  \cup ({240, 241, 244, 245} \X {128, 143, 144, 191, 192} \X {65, 128, 191} \X {128, 191, 192})

Session(artifact, read, decode, room) ==
  [artifact |-> artifact, read |-> read, decode |-> decode, room |-> room]
Loading(artifacts) == { Session(a, {Len(a)}, {}, {}) : a \in artifacts }
Decoding(spellings, ids, room) ==
  LET a == Base([k \in DOMAIN spellings |-> <<spellings[k], k - 1>>], <<Line>>, <<>>)
  IN  Session(a, {Len(a)}, ids, room)

MCSessions ==
  Loading(Edits \cup Vocabularies \cup MergeLists \cup AddedTokens \cup Empties)
  \cup { Session(Whole, 0 .. Len(Whole), { <<0>>, <<1, 0, 1>>, <<0, 2>>, <<-1>> }, 0 .. 3) }
  \cup { Decoding(<<s>>, {<<0>>}, {4}) : s \in Probes }
  \cup { Decoding([j \in 1 .. 16 |-> Symbol[16 * k + j - 1]], { <<j>> : j \in 0 .. 15 } \cup { <<3, 15>> }, {0, 1})
            : k \in 0 .. 15 }

MCStrHash(s) == IF s = <<>> THEN 0 ELSE s[1] + Len(s)
MCPairHash(l, r) == 3 * MCStrHash(l) + MCStrHash(r)
=============================================================================
