------------------------------ MODULE Tokenizer ------------------------------
(***************************************************************************)
(* Encoding and decoding of src/tokenizer.c: added tokens split the input, *)
(* the pre-tokenizer cuts a segment into pieces, the merge loop shortens   *)
(* the symbols of a piece, and their ids are written to the caller's       *)
(* buffer; decoding spells the ids out again.                              *)
(*                                                                         *)
(* Data abstraction: a symbol, and the id of a symbol, is the sequence of  *)
(* bytes it spells (the byte-level alphabet is a bijection).  Positions    *)
(* are 1-based; an end is the position after the last byte.  A table is    *)
(* the part of the loaded artifact that encoding reads.                    *)
(***************************************************************************)
EXTENDS Naturals, Sequences, SequencesExt

CONSTANTS
  Texts,          \* the byte strings to encode
  Class,          \* the class of every well-formed character, a byte sequence
  SpaceByte,      \* the byte ' '
  Contractions,   \* the contraction forms
  Tables,         \* artifacts: the merges by rank, the vocabulary, the added tokens
  Caps            \* the sizes of output buffers

Classes == {"letter", "number", "other", "space"}

Joined(pair) == pair[1] \o pair[2]

(* What the trained artifact has, and the merge loop needs: no two merges  *)
(* make the same symbol, and a merge only joins symbols that are one byte  *)
(* or made by a merge of lower rank.  (CONTRACTIONS, the forms after an    *)
(* apostrophe, are such that none begins with another.)                    *)
WellRanked(merges) ==
  \A k \in DOMAIN merges :
    /\ \A j \in DOMAIN merges : Joined(merges[j]) = Joined(merges[k]) => j = k
    /\ \A h \in {1, 2} : Len(merges[k][h]) = 1
                         \/ \E j \in 1 .. k - 1 : Joined(merges[j]) = merges[k][h]

ASSUME TokenizerAssumption ==
  /\ Class \in [DOMAIN Class -> Classes]
  /\ <<SpaceByte>> \in DOMAIN Class /\ Class[<<SpaceByte>>] = "space"
  /\ \A c \in DOMAIN Class : Len(c) \in {1, 2}
  /\ Caps \subseteq Nat
  /\ \A t \in Texts : t \in Seq(Range(t))
  /\ \A c \in Contractions : /\ Len(c) \in Nat \ {0}
                             /\ \A d \in Contractions : IsPrefix(c, d) => c = d
  /\ \A t \in Tables : /\ DOMAIN t.merges = 1 .. Len(t.merges) /\ WellRanked(t.merges)
                       /\ t.added \subseteq t.vocab
                       /\ \A a \in t.added : Len(a) \in Nat \ {0}

VARIABLES
  table,     \* the artifact
  text,      \* the input
  cap,       \* the size of the output buffer
  pc,        \* where tok_encode is
  seg,       \* the start of the segment after the last added token
  i,         \* the scan for added tokens
  p,         \* the start of the piece
  syms,      \* the symbols of the piece in the merge loop
  ids,       \* ids[0 .. *n_out - 1]
  out,       \* the bytes tok_decode wrote
  status

tokVars == <<table, text, cap, pc, seg, i, p, syms, ids, out, status>>

TokInit ==
  /\ table \in Tables /\ text \in Texts /\ cap \in Caps
  /\ pc = "scan" /\ seg = 1 /\ i = 1 /\ p = 1
  /\ syms = <<>> /\ ids = <<>> /\ out = <<>> /\ status = "OK"

End == Len(text) + 1

Bytes(from, to) == SubSeq(text, from, to - 1)

Finish(s) == pc' = "encoded" /\ status' = s
-----------------------------------------------------------------------------
(* The pre-tokenizer.  A byte that begins no well-formed character before  *)
(* `to` is one character of class "other".                                 *)
CharLen(at, to) ==
  IF Bytes(at, at + 1) \in DOMAIN Class THEN 1
  ELSE IF at + 1 < to /\ Bytes(at, at + 2) \in DOMAIN Class THEN 2 ELSE 1

ClassAt(at, to) ==
  LET c == Bytes(at, at + CharLen(at, to)) IN IF c \in DOMAIN Class THEN Class[c] ELSE "other"

\* The end of the run of characters of one class that begins at `from`.
RunEnd(from, to, class) ==
  LET run[k \in from .. to] ==
        IF k < to /\ ClassAt(k, to) = class THEN run[k + CharLen(k, to)] ELSE k
  IN  run[from]

\* Where the last character of that run begins.
LastOfRun(from, to, class) ==
  LET last[k \in from .. to] ==
        LET next == k + CharLen(k, to) IN
        IF next < to /\ ClassAt(next, to) = class THEN last[next] ELSE k
  IN  last[from]

Contracted(at, to) == { c \in Contractions : at + Len(c) <= to /\ Bytes(at, at + Len(c)) = c }

\* Mutant: a run of whitespace keeps its last character.
PieceEndGreedy(at, to) ==
  LET from == IF text[at] = SpaceByte /\ at + 1 < to THEN at + 1 ELSE at
  IN  IF Contracted(at, to) # {} THEN at + Len(CHOOSE c \in Contracted(at, to) : TRUE)
      ELSE IF ClassAt(from, to) # "space" THEN RunEnd(from, to, ClassAt(from, to))
      ELSE RunEnd(at, to, "space")

\* Mutant: a single whitespace character gives itself up.
PieceEndEmpty(at, to) ==
  LET from == IF text[at] = SpaceByte /\ at + 1 < to THEN at + 1 ELSE at
      end  == RunEnd(at, to, "space")
  IN  IF Contracted(at, to) # {} THEN at + Len(CHOOSE c \in Contracted(at, to) : TRUE)
      ELSE IF ClassAt(from, to) # "space" THEN RunEnd(from, to, ClassAt(from, to))
      ELSE IF end = to THEN end ELSE LastOfRun(at, to, "space")

PieceEnd(at, to) ==
  LET from == IF text[at] = SpaceByte /\ at + 1 < to THEN at + 1 ELSE at
      end  == RunEnd(at, to, "space")
      last == LastOfRun(at, to, "space")
  IN  IF Contracted(at, to) # {} THEN at + Len(CHOOSE c \in Contracted(at, to) : TRUE)
      ELSE IF ClassAt(from, to) # "space" THEN RunEnd(from, to, ClassAt(from, to))
      ELSE IF end = to \/ last = at THEN end ELSE last
-----------------------------------------------------------------------------
(* The merge loop.                                                         *)
Rank(merges, x, y) == { r \in DOMAIN merges : merges[r] = <<x, y>> }

Ranks(merges, s) == UNION { Rank(merges, s[k], s[k + 1]) : k \in 1 .. Len(s) - 1 }

Least(S) == CHOOSE r \in S : \A q \in S : r <= q

\* One pass: every occurrence of the pair, from the left, none overlapping.
\* Mutant: a merged symbol's right half is looked at again.
MergeAllOverlapping(s, pair) ==
  LET from[k \in 1 .. Len(s) + 2] ==
        IF k > Len(s) THEN <<>>
        ELSE IF k < Len(s) /\ <<s[k], s[k + 1]>> = pair
             THEN <<Joined(pair)>> \o from[k + 1]
             ELSE <<s[k]>> \o from[k + 1]
  IN  from[1]

MergeAll(s, pair) ==
  LET from[k \in 1 .. Len(s) + 2] ==
        IF k > Len(s) THEN <<>>
        ELSE IF k < Len(s) /\ <<s[k], s[k + 1]>> = pair
             THEN <<Joined(pair)>> \o from[k + 2]
             ELSE <<s[k]>> \o from[k + 1]
  IN  from[1]

\* The ids of the symbols: the first that is unknown, or has no room, ends the loop.
\* Mutant: the last place of the buffer is not used.
EmitFailsEarly(s, room) == { k \in DOMAIN s : s[k] \notin table.vocab \/ k >= room }

EmitFails(s, room) == { k \in DOMAIN s : s[k] \notin table.vocab \/ k > room }
-----------------------------------------------------------------------------
(* tok_encode: the scan for added tokens, longest first at each position.  *)
AddedAt(at) == { a \in table.added : at + Len(a) <= End /\ Bytes(at, at + Len(a)) = a }

Longest(S) == CHOOSE a \in S : \A b \in S : Len(b) <= Len(a)

ScanByte ==
  /\ pc = "scan" /\ i < End /\ AddedAt(i) = {}
  /\ i' = i + 1
  /\ UNCHANGED <<table, text, cap, pc, seg, p, syms, ids, out, status>>

\* The segment that ends at an added token, or at the end of the input.
EncodeSegment ==
  /\ pc = "scan" /\ (i = End \/ AddedAt(i) # {})
  /\ pc' = "segment" /\ p' = seg
  /\ UNCHANGED <<table, text, cap, seg, i, syms, ids, out, status>>

StartPiece(mem) ==
  /\ pc = "segment" /\ p < i
  /\ IF mem THEN pc' = "merge" /\ UNCHANGED status ELSE Finish("NOMEM")
  /\ syms' = [k \in 1 .. PieceEnd(p, i) - p |-> <<text[p + k - 1]>>]
  /\ UNCHANGED <<table, text, cap, seg, i, p, ids, out>>

\* Mutant: the highest rank first.
MergePassHighest ==
  /\ pc = "merge" /\ Ranks(table.merges, syms) # {}
  /\ syms' = MergeAll(syms, table.merges[CHOOSE r \in Ranks(table.merges, syms) :
                                           \A q \in Ranks(table.merges, syms) : q <= r])
  /\ UNCHANGED <<table, text, cap, pc, seg, i, p, ids, out, status>>

MergePass ==
  /\ pc = "merge" /\ Ranks(table.merges, syms) # {}
  /\ syms' = MergeAll(syms, table.merges[Least(Ranks(table.merges, syms))])
  /\ UNCHANGED <<table, text, cap, pc, seg, i, p, ids, out, status>>

EmitPiece ==
  /\ pc = "merge" /\ Ranks(table.merges, syms) = {}
  /\ LET fails == EmitFails(syms, cap - Len(ids))
         stop  == Least(fails)
     IN  IF fails = {}
         THEN /\ ids' = ids \o syms /\ p' = PieceEnd(p, i)
              /\ pc' = "segment" /\ UNCHANGED status
         ELSE /\ ids' = ids \o SubSeq(syms, 1, stop - 1) /\ UNCHANGED p
              /\ Finish(IF syms[stop] \notin table.vocab THEN "UNKNOWN_SYMBOL" ELSE "TRUNCATED")
  /\ UNCHANGED <<table, text, cap, seg, i, syms, out>>

\* After the segment: the added token, or the return of the last segment's status.
\* Mutant: the added token is written without looking at the room.
EndSegmentNoRoom ==
  /\ pc = "segment" /\ p = i
  /\ IF i = End THEN Finish("OK") /\ UNCHANGED <<ids, i, seg>>
     ELSE LET a == Longest(AddedAt(i)) IN
          /\ ids' = Append(ids, a) /\ i' = i + Len(a) /\ seg' = i + Len(a)
          /\ pc' = "scan" /\ UNCHANGED status
  /\ UNCHANGED <<table, text, cap, p, syms, out>>

EndSegment ==
  /\ pc = "segment" /\ p = i
  /\ IF i = End THEN Finish("OK") /\ UNCHANGED <<ids, i, seg>>
     ELSE IF Len(ids) >= cap THEN Finish("TRUNCATED") /\ UNCHANGED <<ids, i, seg>>
     ELSE LET a == Longest(AddedAt(i)) IN
          /\ ids' = Append(ids, a) /\ i' = i + Len(a) /\ seg' = i + Len(a)
          /\ pc' = "scan" /\ UNCHANGED status
  /\ UNCHANGED <<table, text, cap, p, syms, out>>

\* tok_decode of what was encoded, into a buffer of `size` bytes.
Spelled == FlattenSeq(ids)

Decode(size) ==
  /\ pc = "encoded"
  /\ pc' = "decoded"
  /\ out' = IF Len(Spelled) > size THEN SubSeq(Spelled, 1, size) ELSE Spelled
  /\ status' = IF Len(Spelled) > size THEN "TRUNCATED" ELSE "OK"
  /\ UNCHANGED <<table, text, cap, seg, i, p, syms, ids>>

TokNext ==
  \/ ScanByte
  \/ EncodeSegment
  \/ \E mem \in BOOLEAN : StartPiece(mem)
  \/ MergePass
  \/ EmitPiece
  \/ EndSegment
  \/ \E size \in Caps : Decode(size)

\* tok_encode and tok_decode are C functions that run to their return.
TokSpec == TokInit /\ [][TokNext]_tokVars /\ WF_tokVars(TokNext)
-----------------------------------------------------------------------------
(* Every variable has its type, and no id is written past the buffer.      *)
TokTypeOK ==
  /\ table \in Tables /\ text \in Texts
  /\ pc \in {"scan", "segment", "merge", "encoded", "decoded"}
  /\ seg \in 1 .. End /\ i \in seg .. End /\ p \in 1 .. End
  /\ ids \in Seq(table.vocab) /\ Len(ids) <= cap
  /\ status \in {"OK", "NOMEM", "UNKNOWN_SYMBOL", "TRUNCATED"}

(* The pattern the pre-tokenizer stands for, an alternative at a time:     *)
(*   'form | ?letters | ?numbers | ?others | spaces(?!non-space) | spaces  *)
(* The first alternative with a match is taken, at its longest.            *)
Starts(at, to) ==
  LET from[k \in at .. to] == IF k >= to THEN {} ELSE {k} \cup from[k + CharLen(k, to)]
  IN  from[at]

AllOf(class, from, end, to) ==
  /\ from < end /\ end \in Starts(from, to) \cup {to}
  /\ \A k \in Starts(from, to) : k < end => ClassAt(k, to) = class

Alternative(n, at, end, to) ==
  CASE n = 1 -> Bytes(at, end) \in Contractions
    [] n \in 2 .. 4 ->
         LET class == <<"letter", "number", "other">>[n - 1] IN
         \/ AllOf(class, at, end, to)
         \/ text[at] = SpaceByte /\ at + 1 < to /\ AllOf(class, at + 1, end, to)
    [] n = 5 -> /\ AllOf("space", at, end, to)
                /\ end < to => ClassAt(end, to) = "space"
    [] n = 6 -> AllOf("space", at, end, to)

PatternEnd(at, to) ==
  LET ends(n) == { e \in at + 1 .. to : Alternative(n, at, e, to) }
      n == Least({ k \in 1 .. 6 : ends(k) # {} })
  IN  CHOOSE e \in ends(n) : \A f \in ends(n) : f <= e

(* Every piece is the one the pattern cuts, whitespace runs, contractions, *)
(* malformed and truncated characters included.                            *)
PiecesFollowPattern == pc = "segment" /\ p < i => PieceEnd(p, i) = PatternEnd(p, i)

(* Merging all the occurrences of the best pair at once gives the symbols  *)
(* that merging one pair at a time gives, the leftmost of the lowest rank  *)
(* first: the tokens are those of the reference, however pairs overlap.    *)
MergeFirst(s) ==
  IF Ranks(table.merges, s) = {} THEN s
  ELSE LET pair == table.merges[Least(Ranks(table.merges, s))]
           at   == Least({ k \in 1 .. Len(s) - 1 : <<s[k], s[k + 1]>> = pair })
       IN  SubSeq(s, 1, at - 1) \o <<Joined(pair)>> \o SubSeq(s, at + 2, Len(s))

OneByOne(s) ==
  LET after[k \in 0 .. Len(s)] == IF k = 0 THEN s ELSE MergeFirst(after[k - 1])
  IN  after[Len(s)]

MergedOneByOne ==
  pc = "merge" /\ Ranks(table.merges, syms) = {} =>
    syms = OneByOne([k \in 1 .. PieceEnd(p, i) - p |-> <<text[p + k - 1]>>])

(* A buffer of as many ids as the input has bytes is never too small; when *)
(* a smaller one is, it was filled (tokenizer.h).                          *)
NeverTooSmall ==
  pc = "encoded" /\ status = "TRUNCATED" => cap < Len(text) /\ Len(ids) = cap

(* What has been written spells a prefix of the input at every moment, and *)
(* all of it when the encoding succeeds: decoding is its exact inverse,    *)
(* added tokens and malformed bytes included.                              *)
RoundTrip ==
  /\ IsPrefix(Spelled, text)
  /\ pc = "encoded" /\ status = "OK" => Spelled = text
  /\ pc = "decoded" => IsPrefix(out, text) /\ (status = "OK" => out = Spelled)

(* Both functions return: no piece is empty.                               *)
TokReturns == <>(pc = "decoded")
=============================================================================
