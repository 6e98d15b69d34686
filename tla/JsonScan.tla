------------------------------ MODULE JsonScan ------------------------------
(***************************************************************************)
(* The scanning that the readers of the weight file (src/safetensors.c)    *)
(* and of the tokenizer's artifact (src/tokenizer.c) have in common.  Each *)
(* has its own scanner and its own subset of JSON; what differs is a       *)
(* parameter here.                                                         *)
(*                                                                         *)
(* Data abstraction: a text is a sequence of tokens.  <<"{">> and the      *)
(* other five are punctuation, <<"str", s>> a string, <<"num", n>> an      *)
(* integer; the readers say which others they have.  A token no scanner    *)
(* accepts is <<"bad">>.  White space is left out.  Positions are 1-based. *)
(***************************************************************************)
EXTENDS Integers, Sequences, FiniteSets

CONSTANT MaxDepth    \* the nesting a skipped value may have

ASSUME ScanAssumption == MaxDepth \in Nat

(* The scanner.  `At` is st_peek; a step of a parser gives its status and  *)
(* the position after what it read.                                        *)
At(h, p, c) == p \in DOMAIN h /\ h[p] = <<c>>
IsA(h, p, kind) == p \in DOMAIN h /\ h[p][1] = kind
KeyAt(h, p) == IsA(h, p, "str") /\ At(h, p + 1, ":")

Read(p) == [rc |-> "OK", at |-> p]
Reject(rc) == [rc |-> rc, at |-> 0]

CloseOf(open) == IF open = "{" THEN "}" ELSE "]"

(* A member nobody reads: `open` is "value" at one, and the bracket of the  *)
(* array or object whose next element begins at p otherwise.               *)
SkipValue(h, from, Scalars) ==
  LET skip[x \in Nat \X Nat \X {"value", "{", "["}] ==
        LET p     == x[1]
            depth == x[2]
            open  == x[3]
            inner == skip[<<IF open = "[" THEN p ELSE p + 2, depth + 1, "value">>]
        IN  IF open = "value"
            THEN IF depth > MaxDepth THEN Reject("BAD_JSON")
                 ELSE IF \E k \in Scalars : IsA(h, p, k) THEN Read(p + 1)
                 ELSE IF At(h, p, "{") \/ At(h, p, "[")
                 THEN IF At(h, p + 1, CloseOf(h[p][1])) THEN Read(p + 2)
                      ELSE skip[<<p + 1, depth, h[p][1]>>]
                 ELSE Reject("BAD_JSON")
            ELSE IF (open = "{" /\ ~KeyAt(h, p)) \/ inner.rc # "OK" THEN Reject("BAD_JSON")
            ELSE IF At(h, inner.at, ",") THEN skip[<<inner.at + 1, depth, open>>]
            ELSE IF At(h, inner.at, CloseOf(open)) THEN Read(inner.at + 1)
            ELSE Reject("BAD_JSON")
  IN  skip[<<from, 0, "value">>]

(* The members of an object, from its '{' to its '}': where those that     *)
(* could be read begin.  `member` says how the one at a position reads.    *)
Members(h, from, member) ==
  LET rest[p \in Nat] ==
        LET m == member[p] IN
        IF m.rc # "OK" THEN [rc |-> m.rc, at |-> 0, begin |-> {}]
        ELSE IF At(h, m.at, ",")
        THEN LET r == rest[m.at + 1] IN [r EXCEPT !.begin = @ \cup {p}]
        ELSE IF At(h, m.at, "}") THEN [rc |-> "OK", at |-> m.at + 1, begin |-> {p}]
        ELSE [rc |-> "BAD_JSON", at |-> 0, begin |-> {p}]
  IN  IF ~At(h, from, "{") THEN [rc |-> "BAD_JSON", at |-> 0, begin |-> {}]
      ELSE IF At(h, from + 1, "}") THEN [rc |-> "OK", at |-> from + 2, begin |-> {}]
      ELSE rest[from + 1]

\* Members may repeat: the last one of a name is the one that counts.
LastOf(h, begin, key) ==
  CHOOSE p \in begin : h[p][2] = key /\ \A q \in begin : h[q][2] = key => q <= p
-----------------------------------------------------------------------------
(* The grammar, by splitting at commas instead of scanning.                *)
Nest(h, i, k) ==
  Cardinality({ j \in i .. k - 1 : h[j] \in {<<"{">>, <<"[">>} })
  - Cardinality({ j \in i .. k - 1 : h[j] \in {<<"}">>, <<"]">>} })

\* The spans <<from, to>> between the outermost commas of the positions from i up to j.
Parts(h, i, j) ==
  LET cuts == { k \in i .. j - 1 : h[k] = <<",">> /\ Nest(h, i, k) = 0 } IN
  IF i = j THEN {}
  ELSE { <<a, CHOOSE b \in cuts \cup {j} : b >= a /\ \A c \in cuts : c >= a => b <= c>>
           : a \in {i} \cup { k + 1 : k \in cuts } }

Bracketed(h, s, open) == s[2] >= s[1] + 2 /\ At(h, s[1], open) /\ At(h, s[2] - 1, CloseOf(open))
Inside(h, s) == Parts(h, s[1] + 1, s[2] - 1)
Single(h, s, kind) == s[2] = s[1] + 1 /\ IsA(h, s[1], kind)
ValueOf(s) == <<s[1] + 2, s[2]>>
Keyed(h, s) == s[2] > s[1] + 2 /\ KeyAt(h, s[1])

IsSkipped(h, span, Scalars) ==
  LET value[x \in (Nat \X Nat) \X Nat] ==
        LET s     == x[1]
            depth == x[2]
        IN  /\ depth <= MaxDepth
            /\ \/ \E kind \in Scalars : Single(h, s, kind)
               \/ Bracketed(h, s, "[") /\ \A e \in Inside(h, s) : value[<<e, depth + 1>>]
               \/ /\ Bracketed(h, s, "{")
                  /\ \A e \in Inside(h, s) : Keyed(h, e) /\ value[<<ValueOf(e), depth + 1>>]
  IN  value[<<span, 0>>]

InOrder(spans) ==
  [k \in 1 .. Cardinality(spans) |->
     CHOOSE s \in spans : Cardinality({ t \in spans : t[1] <= s[1] }) = k]
=============================================================================
