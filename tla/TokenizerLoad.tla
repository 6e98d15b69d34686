---------------------------- MODULE TokenizerLoad ----------------------------
(***************************************************************************)
(* tok_load of src/tokenizer.c: the artifact is parsed an item of a table  *)
(* at a time, the spellings and the merges are hashed, and the tables are  *)
(* then looked up and decoded from until tok_free.  Any allocation may     *)
(* fail and the file may be read short.  Module Tokenizer encodes with the *)
(* tables this module loads.                                               *)
(*                                                                         *)
(* Data abstraction: the artifact is a sequence of tokens (JsonScan); a    *)
(* string is its bytes, and true, false and null are <<"word">>.  A copy   *)
(* of a string is named by the position of the token it was read from.     *)
(* Ids fit an int.                                                         *)
(***************************************************************************)
EXTENDS JsonScan, Memory

CONSTANTS
  Sessions,             \* artifacts: the tokens, how many of them may be read, what is decoded
  Names,                \* the bytes that spell the members' names
  VocabCap, MergeCap, AddedCap,   \* the first room of the three tables
  MinBuckets,           \* the least size of a hash table
  StrHash(_), PairHash(_, _)

ASSUME ArtifactAssumption ==
  /\ {VocabCap, MergeCap, AddedCap, MinBuckets} \subseteq Nat \ {0}
  /\ DOMAIN Names = {"model", "vocab", "merges", "added_tokens", "content", "id"}
  /\ \A a, b \in DOMAIN Names : Names[a] = Names[b] => a = b
  /\ \A s \in Sessions :
       /\ s.artifact \in Seq({ s.artifact[p] : p \in DOMAIN s.artifact })
       /\ s.read \subseteq 0 .. Len(s.artifact)
       /\ \A p \in DOMAIN s.artifact : IsA(s.artifact, p, "num") => s.artifact[p][2] \in Nat

VARIABLES
  session,
  pc,
  text,      \* what was read of the artifact
  where,     \* the table or object whose items are parsed
  at,        \* the cursor
  keys,      \* the members' names that are held while their values are parsed
  cap,       \* the parser's own count of the room of its table
  tok,       \* the tokenizer under construction
  answer,    \* what tok_decode returned
  status,
  starved    \* history: an allocation failed

artifactVars == <<session, pc, text, where, at, keys, cap, tok, answer, status, starved, heapVars>>

NoTok == [room |-> [vocab |-> 0, merges |-> 0, added |-> 0], spelling |-> <<>>, nVocab |-> 0,
          merges |-> <<>>, added |-> <<>>, vhash |-> <<>>, mhash |-> <<>>]
NoAnswer == [ids |-> <<>>, room |-> 0, out |-> <<>>, rc |-> "OK"]

ArtifactInit ==
  /\ session \in Sessions
  /\ pc = "start" /\ text = <<>> /\ where = "top" /\ at = 1 /\ keys = <<>> /\ cap = 0
  /\ tok = NoTok /\ answer = NoAnswer /\ status = "OK" /\ starved = FALSE
  /\ live = {} /\ wild = FALSE
-----------------------------------------------------------------------------
(* Characters and the byte-level alphabet.                                 *)
Utf8Put(c) ==
  IF c < 128 THEN <<c>>
  ELSE IF c < 2048 THEN <<192 + (c \div 64), 128 + (c % 64)>>
  ELSE IF c < 65536 THEN <<224 + (c \div 4096), 128 + ((c \div 64) % 64), 128 + (c % 64)>>
  ELSE <<240 + (c \div 262144), 128 + ((c \div 4096) % 64), 128 + ((c \div 64) % 64), 128 + (c % 64)>>

NoChar == [len |-> 0, cp |-> 0]

\* The character at p; none when it is malformed.
\* Mutant: overlong forms and surrogates are characters.
Utf8NextLoose(s, p) ==
  LET c == s[p]
      n == IF c < 128 THEN 1 ELSE IF c < 192 THEN 0 ELSE IF c < 224 THEN 2
           ELSE IF c < 240 THEN 3 ELSE IF c < 245 THEN 4 ELSE 0
      low(k) == s[p + k] % 64
      cp == CASE n = 2 -> (c % 32) * 64 + low(1)
              [] n = 3 -> (c % 16) * 4096 + low(1) * 64 + low(2)
              [] n = 4 -> (c % 8) * 262144 + low(1) * 4096 + low(2) * 64 + low(3)
              [] OTHER -> c
  IN  IF n = 0 \/ p + n - 1 > Len(s) \/ \E k \in 1 .. n - 1 : s[p + k] \div 64 # 2
      THEN NoChar ELSE [len |-> n, cp |-> cp]

Utf8Next(s, p) ==
  LET c == s[p]
      n == IF c < 128 THEN 1 ELSE IF c < 194 THEN 0 ELSE IF c < 224 THEN 2
           ELSE IF c < 240 THEN 3 ELSE IF c < 245 THEN 4 ELSE 0
      low(k) == s[p + k] % 64
      cp == CASE n = 2 -> (c % 32) * 64 + low(1)
              [] n = 3 -> (c % 16) * 4096 + low(1) * 64 + low(2)
              [] n = 4 -> (c % 8) * 262144 + low(1) * 4096 + low(2) * 64 + low(3)
              [] OTHER -> c
  IN  IF n = 0 \/ p + n - 1 > Len(s) \/ \E k \in 1 .. n - 1 : s[p + k] \div 64 # 2 THEN NoChar
      ELSE IF n = 3 /\ (cp < 2048 \/ cp \in 55296 .. 57343) THEN NoChar
      ELSE IF n = 4 /\ cp \notin 65536 .. 1114111 THEN NoChar
      ELSE [len |-> n, cp |-> cp]

Byte == 0 .. 255
Printable == (33 .. 126) \cup (161 .. 172) \cup (174 .. 255)

\* build_byte_alphabet
ByteToCp ==
  [b \in Byte |-> IF b \in Printable THEN b
                  ELSE 256 + Cardinality({ a \in Byte \ Printable : a < b })]
CpToByte ==
  [c \in 0 .. 511 |-> IF \E b \in Byte : ByteToCp[b] = c THEN CHOOSE b \in Byte : ByteToCp[b] = c
                      ELSE -1]
Symbol == [b \in Byte |-> Utf8Put(ByteToCp[b])]
-----------------------------------------------------------------------------
(* What a failure, and tok_free, release.                                  *)
Copy(p) == <<"copy", p>>
Copies(t) ==
  { Copy(t.spelling[i]) : i \in { j \in 0 .. t.nVocab - 1 : t.spelling[j] # 0 } }
  \cup ({"left", "right"} \X { t.merges[k] : k \in DOMAIN t.merges })
  \cup { Copy(t.added[k].content) : k \in DOMAIN t.added }
Arrays(t) ==
  { <<"array", a>> : a \in { b \in DOMAIN t.room : t.room[b] > 0 } }
  \cup (IF t.vhash # <<>> THEN {<<"array", "vhash">>} ELSE {})
  \cup (IF t.mhash # <<>> THEN {<<"array", "mhash">>} ELSE {})
Held(t) == {<<"tok", "self">>} \cup Arrays(t) \cup Copies(t)
Text == {<<"text", "self">>}

\* tok_load fails: `got` is what the step allocated, t the tokenizer it leaves.
Fail(t, got, rc) ==
  /\ pc' = "returned" /\ status' = rc /\ tok' = NoTok /\ keys' = <<>>
  /\ Heap(got, Held(t) \cup (live \cap Text) \cup { Copy(keys[k]) : k \in DOMAIN keys })
  /\ UNCHANGED <<where, at, cap>>

\* After the item of w that ends before p.
NextItem(w, p) ==
  /\ where' = w
  /\ IF At(text, p, ",") THEN pc' = "item" /\ at' = p + 1 ELSE pc' = "end" /\ at' = p

Unmoved == UNCHANGED <<session, text, answer>>

\* fopen and its checks; then the tokenizer and the first brace.  fread may stop short.
ReadArtifact(n) ==
  /\ pc = "start"
  /\ \/ pc' = "returned" /\ status' = "OPEN" /\ Heap({}, {}) /\ UNCHANGED <<text, where, at, starved>>
     \/ /\ pc' = "returned" /\ status' = "NOMEM" /\ starved' = TRUE
        /\ Heap(Text, Text) /\ UNCHANGED <<text, where, at>>
     \/ /\ text' = SubSeq(session.artifact, 1, n)
        /\ IF At(text', 1, "{")
           THEN /\ pc' = "item" /\ where' = "top" /\ at' = 2 /\ UNCHANGED status
                /\ Heap(Text \cup Held(NoTok), {})
           ELSE /\ pc' = "returned" /\ status' = "BAD_JSON" /\ UNCHANGED <<where, at>>
                /\ Heap(Text \cup Held(NoTok), Text \cup Held(NoTok))
        /\ UNCHANGED starved
  /\ UNCHANGED <<session, keys, cap, tok, answer>>

SkipTo(p) == SkipValue(text, p, {"str", "num", "word"})

SkipMember ==
  LET s == SkipTo(at + 2) IN
  IF s.rc # "OK" THEN Fail(tok, {}, "BAD_JSON")
  ELSE NextItem(where, s.at) /\ Heap({}, {}) /\ UNCHANGED <<keys, cap, tok, status>>

\* The table or object `w` that is the member's value; its name is held until it ends.
EnterTable(w, open) ==
  IF ~At(text, at + 2, open) THEN Fail(tok, {}, "BAD_JSON")
  ELSE /\ pc' = (IF At(text, at + 3, CloseOf(open)) THEN "end" ELSE "item")
       /\ where' = w /\ at' = at + 3 /\ cap' = 0
       /\ keys' = Append(keys, at) /\ Heap({Copy(at)}, {})
       /\ UNCHANGED <<tok, status>>

\* A member of the artifact, or of its model.  mem: the strings it reads can be allocated.
Member(mem) ==
  /\ pc = "item" /\ where \in {"top", "model"} /\ starved' = (starved \/ ~mem)
  /\ IF ~mem \/ ~KeyAt(text, at) THEN Fail(tok, {}, "BAD_JSON")
     ELSE LET is(o, m) == where = o /\ text[at][2] = Names[m] IN
          IF is("top", "model") /\ At(text, at + 2, "{") /\ At(text, at + 3, "}")
          THEN Fail(tok, {}, "NO_VOCAB")
          ELSE IF is("top", "model") THEN EnterTable("model", "{")
          ELSE IF is("top", "added_tokens") THEN EnterTable("added", "[")
          ELSE IF is("model", "vocab") THEN EnterTable("vocab", "{")
          ELSE IF is("model", "merges") THEN EnterTable("merges", "[")
          ELSE SkipMember
  /\ Unmoved

\* The end of a table or object, and the return to what holds it.
Close == [vocab |-> "}", merges |-> "]", added |-> "]", model |-> "}", top |-> "}"]
Holder == [vocab |-> "model", merges |-> "model", added |-> "top", model |-> "top"]

EndTable ==
  /\ pc = "end"
  /\ IF ~At(text, at, Close[where]) THEN Fail(tok, {}, "BAD_JSON")
     ELSE IF where = "top"
     THEN pc' = "parsed" /\ Heap({}, Text) /\ UNCHANGED <<where, at, keys, cap, tok, status>>
     ELSE /\ NextItem(Holder[where], at + 1)
          /\ keys' = SubSeq(keys, 1, Len(keys) - 1) /\ Heap({}, {Copy(keys[Len(keys)])})
          /\ UNCHANGED <<cap, tok, status>>
  /\ Unmoved /\ UNCHANGED starved
-----------------------------------------------------------------------------
(* The items of the three tables.  A write past its array is wild.         *)
Doubled(c, need) ==
  LET double[k \in Nat] == IF k >= need THEN k ELSE double[2 * k] IN double[c]

Stored(t, got, replaced, index, room) ==
  /\ tok' = t /\ live' = (live \cup got) \ replaced
  /\ wild' = (wild \/ ~(replaced \subseteq live) \/ index >= room)

\* parse_vocab.  mem: what there is memory for.
\* Mutant: the spelling an id already has is overwritten.
VocabEntryKeeps(mem) ==
  /\ pc = "item" /\ where = "vocab" /\ starved' = (starved \/ mem # "all")
  /\ IF mem = "nothing" \/ ~KeyAt(text, at) \/ ~IsA(text, at + 2, "num")
     THEN Fail(tok, {}, "BAD_JSON")
     ELSE LET id   == text[at + 2][2]
              room == IF id + 1 > cap THEN Doubled(IF cap = 0 THEN VocabCap ELSE cap, id + 1) ELSE cap
              kept == [i \in 0 .. room - 1 |-> IF i < cap THEN tok.spelling[i] ELSE 0]
          IN  IF mem = "name" THEN room > cap /\ Fail(tok, {}, "NOMEM")
              ELSE /\ Stored([tok EXCEPT !.room.vocab = room, !.spelling = [kept EXCEPT ![id] = at],
                                         !.nVocab = IF id + 1 > @ THEN id + 1 ELSE @],
                             {Copy(at), <<"array", "vocab">>}, {}, id, room)
                   /\ cap' = room /\ NextItem("vocab", at + 3) /\ UNCHANGED <<keys, status>>
  /\ Unmoved

VocabEntry(mem) ==
  /\ pc = "item" /\ where = "vocab" /\ starved' = (starved \/ mem # "all")
  /\ IF mem = "nothing" \/ ~KeyAt(text, at) \/ ~IsA(text, at + 2, "num")
     THEN Fail(tok, {}, "BAD_JSON")
     ELSE LET id   == text[at + 2][2]
              room == IF id + 1 > cap THEN Doubled(IF cap = 0 THEN VocabCap ELSE cap, id + 1) ELSE cap
              kept == [i \in 0 .. room - 1 |-> IF i < cap THEN tok.spelling[i] ELSE 0]
          IN  IF mem = "name" THEN room > cap /\ Fail(tok, {}, "NOMEM")
              ELSE /\ Stored([tok EXCEPT !.room.vocab = room, !.spelling = [kept EXCEPT ![id] = at],
                                         !.nVocab = IF id + 1 > @ THEN id + 1 ELSE @],
                             {Copy(at), <<"array", "vocab">>},
                             IF kept[id] = 0 THEN {} ELSE {Copy(kept[id])}, id, room)
                   /\ cap' = room /\ NextItem("vocab", at + 3) /\ UNCHANGED <<keys, status>>
  /\ Unmoved

\* A merge's line up to its first space, and after it.
Spaces(s) == { k \in DOMAIN s : s[k] = 32 }
FirstSpace(s) == CHOOSE k \in Spaces(s) : \A j \in Spaces(s) : k <= j
IsMerge(s) == Spaces(s) # {} /\ FirstSpace(s) \notin {1, Len(s)}
Halves(s) == <<SubSeq(s, 1, FirstSpace(s) - 1), SubSeq(s, FirstSpace(s) + 1, Len(s))>>

\* The room for one more, doubled when the parser counts no more.
RoomFor(n, first) == IF n + 1 <= cap THEN cap ELSE IF cap = 0 THEN first ELSE 2 * cap

\* parse_merges
MergeEntry(mem) ==
  /\ pc = "item" /\ where = "merges" /\ starved' = (starved \/ mem # "all")
  /\ LET n     == Len(tok.merges)
         room  == RoomFor(n, MergeCap)
         grown == [tok EXCEPT !.room.merges = room]
     IN  IF mem = "nothing" \/ ~IsA(text, at, "str") THEN Fail(tok, {}, "BAD_JSON")
         ELSE IF ~IsMerge(text[at][2]) THEN Fail(tok, {}, "BAD_MERGE")
         ELSE \/ mem = "name" /\ room > cap /\ Fail(tok, {}, "NOMEM")
              \/ mem = "array" /\ Fail(grown, {<<"array", "merges">>}, "NOMEM")
              \/ /\ mem = "all"
                 /\ Stored([grown EXCEPT !.merges = Append(@, at)],
                           {<<"left", at>>, <<"right", at>>, <<"array", "merges">>}, {}, n, room)
                 /\ cap' = room /\ NextItem("merges", at + 1) /\ UNCHANGED <<keys, status>>
  /\ Unmoved

\* parse_added: of repeated members the last counts.
AddedMember(p) ==
  IF ~KeyAt(text, p) THEN Reject("BAD_JSON")
  ELSE CASE text[p][2] = Names.content ->
              IF IsA(text, p + 2, "str") THEN Read(p + 3) ELSE Reject("BAD_JSON")
         [] text[p][2] = Names.id ->
              IF IsA(text, p + 2, "num") THEN Read(p + 3) ELSE Reject("BAD_JSON")
         [] OTHER -> SkipTo(p + 2)

AddedEntry(mem) ==
  /\ pc = "item" /\ where = "added" /\ starved' = (starved \/ mem # "all")
  /\ LET n       == Len(tok.added)
         room    == RoomFor(n, AddedCap)
         members == Members(text, at, [p \in 1 .. Len(text) + 1 |-> AddedMember(p)])
         value(m) == LastOf(text, members.begin, Names[m]) + 2
     IN  IF mem = "nothing" \/ members.rc # "OK"
            \/ ~{Names.content, Names.id} \subseteq { text[p][2] : p \in members.begin }
         THEN Fail(tok, {}, "BAD_JSON")
         ELSE IF mem = "name" THEN room > cap /\ Fail(tok, {}, "NOMEM")
         ELSE /\ Stored([tok EXCEPT !.room.added = room,
                           !.added = Append(@, [content |-> value("content"), id |-> text[value("id")][2]])],
                        {Copy(value("content")), <<"array", "added">>}, {}, n, room)
              /\ cap' = room /\ NextItem("added", members.at) /\ UNCHANGED <<keys, status>>
  /\ Unmoved

\* The checks of the whole: something to look up, and no id without a spelling.
CheckTables ==
  /\ pc = "parsed"
  /\ IF tok.nVocab = 0 \/ (tok.merges # <<>> /\ \E i \in 0 .. tok.nVocab - 1 : tok.spelling[i] = 0)
     THEN Fail(tok, {}, "NO_VOCAB")
     ELSE IF tok.merges = <<>> THEN Fail(tok, {}, "NO_MERGES")
     ELSE pc' = "checked" /\ Heap({}, {}) /\ UNCHANGED <<where, at, keys, cap, tok, status>>
  /\ Unmoved /\ UNCHANGED starved
-----------------------------------------------------------------------------
(* The hash tables, by open addressing.                                    *)
ASSUME HashAssumption ==
  \A s \in Sessions : \A p \in { q \in DOMAIN s.artifact : IsA(s.artifact, q, "str") } :
    LET str == s.artifact[p][2] IN
    StrHash(str) \in Nat /\ (IsMerge(str) => PairHash(Halves(str)[1], Halves(str)[2]) \in Nat)

\* Mutant: room for the entries and no more.
BucketsExact(n) == Doubled(MinBuckets, n)

Buckets(n) == Doubled(MinBuckets, 2 * n)

\* The first slot from h on that is empty or holds a wanted entry; -1: there is none.
Slot(table, h, wanted) ==
  LET size == Cardinality(DOMAIN table)
      probe[k \in 0 .. size] ==
        LET i == (h + k) % size IN
        IF k = size THEN -1
        ELSE IF table[i] \in {-1} \cup wanted THEN i ELSE probe[k + 1]
  IN  probe[0]

\* A table of the entries 0 .. n-1, by their hashes.
Filled(n, hash) ==
  LET empty == [i \in 0 .. Buckets(n) - 1 |-> -1]
      put[k \in 0 .. n] ==
        IF k = 0 THEN empty
        ELSE LET t == put[k - 1]
             IN  [t EXCEPT ![Slot(t, hash[k - 1], {})] = k - 1]
  IN  put[n]

Spelling(t, id) == text[t.spelling[id]][2]
Pair(t, k) == Halves(text[t.merges[k + 1]][2])

HashVocab(mem) ==
  /\ pc = "checked" /\ starved' = (starved \/ ~mem)
  /\ IF ~mem THEN Fail(tok, {}, "NOMEM")
     ELSE /\ tok' = [tok EXCEPT !.vhash = Filled(tok.nVocab, [id \in 0 .. tok.nVocab - 1 |-> StrHash(Spelling(tok, id))])]
          /\ pc' = "hashed" /\ Heap({<<"array", "vhash">>}, {}) /\ UNCHANGED <<where, at, keys, cap, status>>
  /\ Unmoved

HashMerges(mem) ==
  /\ pc = "hashed" /\ starved' = (starved \/ ~mem)
  /\ IF ~mem THEN Fail(tok, {}, "NOMEM")
     ELSE /\ tok' = [tok EXCEPT !.mhash = Filled(Len(tok.merges), [k \in 0 .. Len(tok.merges) - 1 |->
                                                    PairHash(Pair(tok, k)[1], Pair(tok, k)[2])])]
          /\ pc' = "loaded" /\ Heap({<<"array", "mhash">>}, {}) /\ UNCHANGED <<where, at, keys, cap, status>>
  /\ Unmoved

\* The id of a spelling and the rank of a pair; -1 when there is none, -2 when the
\* search does not end.
VhashGet(s) ==
  LET i == Slot(tok.vhash, StrHash(s), { id \in 0 .. tok.nVocab - 1 : Spelling(tok, id) = s })
  IN  IF i = -1 THEN -2 ELSE tok.vhash[i]

MhashGet(l, r) ==
  LET i == Slot(tok.mhash, PairHash(l, r), { k \in 0 .. Len(tok.merges) - 1 : Pair(tok, k) = <<l, r>> })
  IN  IF i = -1 THEN -2 ELSE tok.mhash[i]
-----------------------------------------------------------------------------
(* tok_decode.  Errors are negative bytes.                                 *)
UnknownSymbol == -1
BadId == -2

BytesOf(s) ==
  LET from[p \in 1 .. Len(s) + 4] ==
        LET c == Utf8Next(s, p) IN
        IF p > Len(s) THEN <<>>
        ELSE IF c.len = 0 \/ c.cp >= 512 THEN <<UnknownSymbol>>
        ELSE IF CpToByte[c.cp] < 0 THEN <<UnknownSymbol>>
        ELSE <<CpToByte[c.cp]>> \o from[p + c.len]
  IN  from[1]

\* Until the first error or the end of the buffer.
Decode(ids, room) ==
  /\ pc = "loaded"
  /\ LET bytes[k \in 1 .. Len(ids) + 1] ==
           IF k > Len(ids) THEN <<>>
           ELSE IF ids[k] \notin 0 .. tok.nVocab - 1 THEN <<BadId>>
           ELSE BytesOf(Spelling(tok, ids[k])) \o bytes[k + 1]
         stops == { j \in DOMAIN bytes[1] : bytes[1][j] < 0 \/ j > room }
         stop  == CHOOSE j \in stops : \A i \in stops : j <= i
     IN  answer' = [ids |-> ids, room |-> room,
                    out |-> IF stops = {} THEN bytes[1] ELSE SubSeq(bytes[1], 1, stop - 1),
                    rc  |-> IF stops = {} THEN "OK"
                            ELSE CASE bytes[1][stop] = UnknownSymbol -> "UNKNOWN_SYMBOL"
                                   [] bytes[1][stop] = BadId -> "BAD_ID"
                                   [] OTHER -> "TRUNCATED"]
  /\ pc' = "decoded"
  /\ UNCHANGED <<session, text, where, at, keys, cap, tok, status, starved, heapVars>>

TokFree ==
  /\ pc \in {"loaded", "decoded"} /\ pc' = "freed"
  /\ tok' = NoTok /\ Heap({}, Held(tok))
  /\ UNCHANGED <<session, text, where, at, keys, cap, answer, status, starved>>

ArtifactNext ==
  \/ \E n \in session.read : ReadArtifact(n)
  \/ \E mem \in BOOLEAN : Member(mem) \/ HashVocab(mem) \/ HashMerges(mem)
  \/ EndTable
  \/ \E mem \in {"nothing", "name", "all"} : VocabEntry(mem) \/ AddedEntry(mem)
  \/ \E mem \in {"nothing", "name", "array", "all"} : MergeEntry(mem)
  \/ CheckTables
  \/ \E ids \in session.decode, room \in session.room : Decode(ids, room)
  \/ TokFree

ArtifactSpec == ArtifactInit /\ [][ArtifactNext]_artifactVars
-----------------------------------------------------------------------------
(* What an artifact declares, by the grammar; each table at most once.     *)
TopSpan(h) ==
  LET ends == { e \in 3 .. Len(h) + 1 : Nest(h, 1, e) = 0 }
  IN  <<1, IF ends = {} THEN 0 ELSE CHOOSE e \in ends : \A f \in ends : e <= f>>

Skippable(h, s) == IsSkipped(h, ValueOf(s), {"str", "num", "word"})

IsVocab(h, v) ==
  Bracketed(h, v, "{") /\ \A e \in Inside(h, v) : Keyed(h, e) /\ Single(h, ValueOf(e), "num")
IsMerges(h, v) ==
  Bracketed(h, v, "[") /\ \A e \in Inside(h, v) : Single(h, e, "str") /\ IsMerge(h[e[1]][2])
IsAddedToken(h, e) ==
  /\ Bracketed(h, e, "{") /\ \A m \in Inside(h, e) : Keyed(h, m)
  /\ {Names.content, Names.id} \subseteq { h[m[1]][2] : m \in Inside(h, e) }
  /\ \A m \in Inside(h, e) :
       CASE h[m[1]][2] = Names.content -> Single(h, ValueOf(m), "str")
         [] h[m[1]][2] = Names.id -> Single(h, ValueOf(m), "num")
         [] OTHER -> Skippable(h, m)
IsModel(h, v) ==
  /\ Bracketed(h, v, "{") /\ Inside(h, v) # {}
  /\ \A m \in Inside(h, v) :
       /\ Keyed(h, m)
       /\ CASE h[m[1]][2] = Names.vocab -> IsVocab(h, ValueOf(m))
            [] h[m[1]][2] = Names.merges -> IsMerges(h, ValueOf(m))
            [] OTHER -> Skippable(h, m)
IsArtifact(h) ==
  LET span == TopSpan(h) IN
  /\ Bracketed(h, span, "{") /\ Inside(h, span) # {}
  /\ \A m \in Inside(h, span) :
       /\ Keyed(h, m)
       /\ CASE h[m[1]][2] = Names.model -> IsModel(h, ValueOf(m))
            [] h[m[1]][2] = Names.added_tokens ->
                 Bracketed(h, ValueOf(m), "[") /\ \A e \in Inside(h, ValueOf(m)) : IsAddedToken(h, e)
            [] OTHER -> Skippable(h, m)

\* The values of the members of that name among the spans.
ValuesOf(h, spans, name) == { ValueOf(m) : m \in { n \in spans : h[n[1]][2] = Names[name] } }
ItemsOf(h, values) == InOrder(UNION { Inside(h, v) : v \in values })
ModelMembers(h) == UNION { Inside(h, v) : v \in ValuesOf(h, Inside(h, TopSpan(h)), "model") }

VocabEntries(h) == ItemsOf(h, ValuesOf(h, ModelMembers(h), "vocab"))
DeclaredVocab(h) ==
  LET entries == VocabEntries(h)
      id(k)   == h[ValueOf(entries[k])[1]][2]
  IN  [i \in { id(k) : k \in DOMAIN entries } |->
         h[entries[CHOOSE k \in DOMAIN entries :
                     id(k) = i /\ \A j \in DOMAIN entries : id(j) = i => j <= k][1]][2]]
DeclaredMerges(h) ==
  LET lines == ItemsOf(h, ValuesOf(h, ModelMembers(h), "merges"))
  IN  [k \in DOMAIN lines |-> Halves(h[lines[k][1]][2])]
DeclaredAdded(h) ==
  LET tokens == ItemsOf(h, ValuesOf(h, Inside(h, TopSpan(h)), "added_tokens"))
      last(k, name) == h[LastOf(h, { m[1] : m \in Inside(h, tokens[k]) }, Names[name]) + 2][2]
  IN  [k \in DOMAIN tokens |-> [content |-> last(k, "content"), id |-> last(k, "id")]]

Loadable(h) ==
  /\ IsArtifact(h)
  /\ DOMAIN DeclaredVocab(h) = 0 .. Cardinality(DOMAIN DeclaredVocab(h)) - 1
  /\ DOMAIN DeclaredVocab(h) # {} /\ DeclaredMerges(h) # <<>>

LeastOf(S) == IF S = {} THEN -1 ELSE CHOOSE i \in S : \A j \in S : i <= j

(* The artifacts are those the comments and the code agree about.  Nothing *)
(* follows their object: anything unbalanced is said to be rejected        *)
(* (tokenizer.c:252), and the code does not look there.  One that loads    *)
(* gives no id twice: the vocabulary's size is said to be the number of    *)
(* its entries (tokenizer.h:42), and in the code is that of its ids.       *)
ASSUME PlainAssumption == \A s \in Sessions :
  LET h == s.artifact IN
  /\ TopSpan(h)[2] \notin 1 .. Len(h)
  /\ Loadable(h) => Cardinality(DOMAIN DeclaredVocab(h)) = Len(VocabEntries(h))

(* tok_load accepts the artifacts of the grammar that give every id below  *)
(* the vocabulary's size a spelling, and no others; what it built is what  *)
(* they declare.  A lookup ends whatever collides, and finds the least id  *)
(* of a spelling and the first rank of a pair, or that there is none.      *)
TablesAreDeclared ==
  /\ pc = "returned" /\ status # "OPEN" /\ ~starved => ~Loadable(text)
  /\ pc = "loaded" =>
       LET vocab   == DeclaredVocab(text)
           merges  == DeclaredMerges(text)
           strings == {<<>>} \cup { text[p][2] : p \in { q \in DOMAIN text : IsA(text, q, "str") } }
                      \cup { merges[k][h] : k \in DOMAIN merges, h \in {1, 2} }
       IN  /\ Loadable(text)
           /\ tok.nVocab = Len(VocabEntries(text))
           /\ \A i \in DOMAIN vocab : Spelling(tok, i) = vocab[i]
           /\ [k \in DOMAIN merges |-> Pair(tok, k - 1)] = merges /\ Len(tok.merges) = Len(merges)
           /\ [k \in DOMAIN tok.added |-> [content |-> text[tok.added[k].content][2], id |-> tok.added[k].id]]
                = DeclaredAdded(text)
           /\ \A s \in strings : VhashGet(s) = LeastOf({ i \in DOMAIN vocab : vocab[i] = s })
           /\ \A l, r \in strings :
                MhashGet(l, r) = LeastOf({ k - 1 : k \in { j \in DOMAIN merges : merges[j] = <<l, r>> } })

(* No spelling, half, content, member name or array is released twice,     *)
(* missed or kept by mistake, whichever step fails, and no item is written *)
(* past its array: a load that fails holds nothing, one that succeeds just *)
(* what tok_free will release.                                             *)
LoadHoldsTables ==
  /\ ~wild
  /\ pc \in {"start", "returned", "freed"} => live = {}
  /\ pc \in {"loaded", "decoded"} => live = Held(tok)
  /\ pc \in {"item", "end", "parsed", "checked", "hashed"} =>
       live = Held(tok) \cup { Copy(keys[k]) : k \in DOMAIN keys }
              \cup (IF pc \in {"item", "end"} THEN Text ELSE {})

\* Table 3-7 of the Unicode standard: the byte ranges of well-formed characters.
Follow == 128 .. 191
WellFormedBytes ==
  { <<0 .. 127>>, <<194 .. 223, Follow>>, <<{224}, 160 .. 191, Follow>>,
    <<(225 .. 236) \cup {238, 239}, Follow, Follow>>, <<{237}, 128 .. 159, Follow>>,
    <<{240}, 144 .. 191, Follow, Follow>>, <<241 .. 243, Follow, Follow, Follow>>, <<{244}, 128 .. 143, Follow, Follow>> }
CharOf(s) == \E row \in WellFormedBytes : Len(row) = Len(s) /\ \A k \in DOMAIN s : s[k] \in row[k]

\* The bytes whose symbols spell s, when there are: the symbols are cut out of s.
SpelledBytes(s) ==
  LET from[p \in 1 .. Len(s) + 1] ==
        IF p > Len(s) THEN {<<>>}
        ELSE UNION { { <<b>> \o rest : rest \in from[p + Len(Symbol[b])] } :
                       b \in { c \in Byte : Symbol[c] = SubSeq(s, p, LeastOf({Len(s), p + Len(Symbol[c]) - 1})) } }
  IN  from[1]

(* A character is read wherever the Unicode standard has one, and nowhere  *)
(* else, and read back it is the same; every byte has a symbol of its own, *)
(* and an id decodes to the bytes its spelling is made of, or is refused   *)
(* because it is made of none.                                             *)
SpellingsDecode ==
  pc = "decoded" =>
    /\ \A id \in { answer.ids[k] : k \in DOMAIN answer.ids } \cap (0 .. tok.nVocab - 1) :
         LET s == Spelling(tok, id) IN
         \A p \in DOMAIN s :
           LET c == Utf8Next(s, p)
               chars == { n \in 1 .. Len(s) - p + 1 : CharOf(SubSeq(s, p, p + n - 1)) }
           IN  /\ chars = IF c.len = 0 THEN {} ELSE {c.len}
               /\ c.len > 0 => Utf8Put(c.cp) = SubSeq(s, p, p + c.len - 1)
    /\ Len(answer.out) <= answer.room
    /\ answer.rc \in {"OK", "TRUNCATED", "UNKNOWN_SYMBOL"} /\ Len(answer.ids) = 1 =>
         LET whole == SpelledBytes(Spelling(tok, answer.ids[1])) IN
         /\ Cardinality(whole) <= 1
         /\ answer.rc = "OK" => answer.out \in whole
         /\ answer.rc = "UNKNOWN_SYMBOL" => whole = {}
         /\ answer.rc = "TRUNCATED" => Len(answer.out) = answer.room /\ answer.out \notin whole
=============================================================================
