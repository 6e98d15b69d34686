------------------------- MODULE TokenizerLoadProofs -------------------------
(***************************************************************************)
(* LoadHoldsTables of TokenizerLoad, and what a lookup in the loaded       *)
(* tables finds, for every artifact that opens no table twice, whichever   *)
(* allocations fail and however short the file is read.                    *)
(*                                                                         *)
(* The scanner is a recursive function: its equation (IsSkip, IsMembers)   *)
(* says that whatever it reads ends later than it begins.  A copy of a     *)
(* string is named by the position it was read from, so that one read      *)
(* later is a new one: ArtifactInv rests on that (Behind, OneOwner).       *)
(*                                                                         *)
(* HashInv adds what the hash tables hold.  A search stops as no table is  *)
(* more than half full; that it stops at the least of the wanted entries   *)
(* is because the entries were put in by their order (Placed).             *)
(***************************************************************************)
EXTENDS TokenizerLoad, SequenceLemmas

-----------------------------------------------------------------------------
(* The scanner only moves forward.                                         *)

Opens == {"value", "{", "["}
Results == [rc : {"OK", "BAD_JSON"}, at : Nat]

\* A text, as far as the scanner looks at it.
IsText(h) == Len(h) \in Nat /\ DOMAIN h = 1 .. Len(h)

\* One step of SkipValue, on the results s.
SkipStep(h, Scalars, s, p, depth, open) ==
  LET inner == s[<<IF open = "[" THEN p ELSE p + 2, depth + 1, "value">>]
  IN  IF open = "value"
      THEN IF depth > MaxDepth THEN Reject("BAD_JSON")
           ELSE IF \E k \in Scalars : IsA(h, p, k) THEN Read(p + 1)
           ELSE IF At(h, p, "{") \/ At(h, p, "[")
           THEN IF At(h, p + 1, CloseOf(h[p][1])) THEN Read(p + 2)
                ELSE s[<<p + 1, depth, h[p][1]>>]
           ELSE Reject("BAD_JSON")
      ELSE IF (open = "{" /\ ~KeyAt(h, p)) \/ inner.rc # "OK" THEN Reject("BAD_JSON")
      ELSE IF At(h, inner.at, ",") THEN s[<<inner.at + 1, depth, open>>]
      ELSE IF At(h, inner.at, CloseOf(open)) THEN Read(inner.at + 1)
      ELSE Reject("BAD_JSON")

IsSkip(h, Scalars, s) ==
  s = [x \in Nat \X Nat \X Opens |-> SkipStep(h, Scalars, s, x[1], x[2], x[3])]

LEMMA SkipValueIs ==
  ASSUME NEW h, NEW Scalars, NEW from
  PROVE  SkipValue(h, from, Scalars) = (CHOOSE s : IsSkip(h, Scalars, s))[<<from, 0, "value">>]
  BY DEF SkipValue, IsSkip, SkipStep, Opens

\* The same, on the results g of the later places, a place at a time.
After(g, p, depth, open) == IF p \in DOMAIN g THEN g[p][<<depth, open>>] ELSE Reject("BAD_JSON")

ValueFrom(h, Scalars, p, g, depth) ==
  IF depth > MaxDepth THEN Reject("BAD_JSON")
  ELSE IF \E k \in Scalars : IsA(h, p, k) THEN Read(p + 1)
  ELSE IF At(h, p, "{") \/ At(h, p, "[")
  THEN IF At(h, p + 1, CloseOf(h[p][1])) THEN Read(p + 2) ELSE After(g, p + 1, depth, h[p][1])
  ELSE Reject("BAD_JSON")

FirstInner(h, Scalars, p, g, depth, open) ==
  IF open = "[" THEN ValueFrom(h, Scalars, p, g, depth + 1) ELSE After(g, p + 2, depth + 1, "value")

ElementsFrom(h, Scalars, p, g, depth, open) ==
  LET inner == FirstInner(h, Scalars, p, g, depth, open)
  IN  IF (open = "{" /\ ~KeyAt(h, p)) \/ inner.rc # "OK" THEN Reject("BAD_JSON")
      ELSE IF At(h, inner.at, ",") THEN After(g, inner.at + 1, depth, open)
      ELSE IF At(h, inner.at, CloseOf(open)) THEN Read(inner.at + 1)
      ELSE Reject("BAD_JSON")

ScanFrom(h, Scalars, p, g) ==
  [do \in Nat \X Opens |-> IF do[2] = "value" THEN ValueFrom(h, Scalars, p, g, do[1])
                           ELSE ElementsFrom(h, Scalars, p, g, do[1], do[2])]

LEMMA TokenAt ==
  ASSUME NEW h, NEW p, NEW c, At(h, p, c)
  PROVE  p \in DOMAIN h /\ h[p][1] = c
  <1>1. \A x : x = <<c>> => x[1] = c
    OBVIOUS
  <1> QED BY <1>1, Zenon DEF At

LEMMA OpenAt ==
  ASSUME NEW h, NEW p, At(h, p, "{") \/ At(h, p, "[")
  PROVE  h[p][1] \in Opens
  <1>1. h[p][1] = "{" \/ h[p][1] = "["
    BY TokenAt
  <1> QED BY <1>1 DEF Opens

LEMMA AfterType ==
  ASSUME NEW to \in Nat, NEW k \in 0 .. to, NEW g \in [k + 1 .. to -> [Nat \X Opens -> Results]],
         NEW p \in Nat, NEW depth \in Nat, NEW open \in Opens
  PROVE  After(g, p, depth, open) \in Results
  <1>1. Reject("BAD_JSON") \in Results
    BY DEF Reject, Results
  <1>2. <<depth, open>> \in Nat \X Opens
    OBVIOUS
  <1>3. CASE p \in DOMAIN g
    <2>1. g[p] \in [Nat \X Opens -> Results]
      BY <1>3
    <2>2. g[p][<<depth, open>>] \in Results
      BY <1>2, <2>1
    <2> QED BY <1>3, <2>2 DEF After
  <1> QED BY <1>1, <1>3 DEF After

LEMMA ScanFromType ==
  ASSUME NEW h, NEW Scalars, NEW to \in Nat, NEW k \in 0 .. to,
         NEW g \in [k + 1 .. to -> [Nat \X Opens -> Results]]
  PROVE  ScanFrom(h, Scalars, k, g) \in [Nat \X Opens -> Results]
  <1>1. Reject("BAD_JSON") \in Results
    BY DEF Reject, Results
  <1>2. \A p \in Nat : Read(p) \in Results
    BY DEF Read, Results
  <1>3. \A p, d \in Nat : \A o \in Opens : After(g, p, d, o) \in Results
    BY AfterType
  <1>4. ASSUME NEW d \in Nat PROVE ValueFrom(h, Scalars, k, g, d) \in Results
    <2>1. At(h, k, "{") \/ At(h, k, "[") => h[k][1] \in Opens
      BY OpenAt
    <2>2. k \in Nat /\ k + 1 \in Nat /\ k + 2 \in Nat
      OBVIOUS
    <2> QED BY <1>1, <1>2, <1>3, <2>1, <2>2 DEF ValueFrom
  <1>5. ASSUME NEW d \in Nat, NEW o \in Opens PROVE ElementsFrom(h, Scalars, k, g, d, o) \in Results
    <2> DEFINE inner == FirstInner(h, Scalars, k, g, d, o)
    <2>0. "value" \in Opens
      BY DEF Opens
    <2>1. d + 1 \in Nat /\ k + 2 \in Nat /\ "value" \in Opens
      BY <2>0
    <2>2. inner \in Results
      BY <1>3, <1>4, <2>1 DEF FirstInner
    <2>3. inner.at \in Nat /\ inner.at + 1 \in Nat
      BY <2>2 DEF Results
    <2> HIDE DEF inner
    <2>4. Read(inner.at + 1) \in Results /\ After(g, inner.at + 1, d, o) \in Results
      BY <1>2, <1>3, <2>3
    <2> QED BY <1>1, <2>4 DEF ElementsFrom, inner
  <1>6. \A do \in Nat \X Opens : do[1] \in Nat /\ do[2] \in Opens
    OBVIOUS
  <1> QED BY <1>4, <1>5, <1>6 DEF ScanFrom

\* What a result says of the places.
Forward(r, p, n) == r.rc = "OK" => r.at > p /\ r.at <= n

LEMMA SkipExists ==
  ASSUME NEW h, NEW Scalars, IsText(h)
  PROVE  \E s : IsSkip(h, Scalars, s)
  <1> DEFINE to == Len(h) + 1
             V  == [Nat \X Opens -> Results]
             G  == UNION { [k + 1 .. to -> V] : k \in 0 .. to }
             F  == [kg \in (0 .. to) \X G |-> ScanFrom(h, Scalars, kg[1], kg[2])]
  <1>0. Len(h) \in Nat /\ to \in Nat /\ DOMAIN h = 1 .. Len(h)
    BY DEF IsText
  <1>1. \A k \in 0 .. to : \A g \in [k + 1 .. to -> V] : F[<<k, g>>] = ScanFrom(h, Scalars, k, g)
    <2> SUFFICES ASSUME NEW k \in 0 .. to, NEW g \in [k + 1 .. to -> V]
                 PROVE  F[<<k, g>>] = ScanFrom(h, Scalars, k, g)
      OBVIOUS
    <2>1. g \in G
      OBVIOUS
    <2> QED BY <2>1
  <1>2. \A k \in 0 .. to : \A g \in [k + 1 .. to -> V] : F[<<k, g>>] \in V
    <2> SUFFICES ASSUME NEW k \in 0 .. to, NEW g \in [k + 1 .. to -> V] PROVE F[<<k, g>>] \in V
      OBVIOUS
    <2> HIDE DEF F, G, to
    <2>1. ScanFrom(h, Scalars, k, g) \in V
      BY <1>0, ScanFromType
    <2> QED BY <1>1, <2>1
  <1> HIDE DEF to, V, F, G
  <1>3. PICK f \in [0 .. to -> V] : \A k \in 0 .. to : f[k] = F[<<k, [j \in k + 1 .. to |-> f[j]]>>]
    <2>1. 0 \in Int /\ to \in Int /\ LaterStaysIn(0, to, V, F)
      BY <1>0, <1>2 DEF LaterStaysIn
    <2>2. \E f : SolvesByLater(f, 0, to, V, F)
      BY <2>1, CourseOfValues
    <2> QED BY <2>2 DEF SolvesByLater
  <1> DEFINE g(k) == [j \in k + 1 .. to |-> f[j]]
             r(p, d, o) == IF p \in 0 .. to THEN f[p][<<d, o>>] ELSE Reject("BAD_JSON")
             s == [x \in Nat \X Nat \X Opens |-> r(x[1], x[2], x[3])]
  <1>4. ASSUME NEW k \in 0 .. to
        PROVE  g(k) \in [k + 1 .. to -> V] /\ f[k] = ScanFrom(h, Scalars, k, g(k))
    <2>1. g(k) \in [k + 1 .. to -> V]
      <3>1. \A j \in k + 1 .. to : j \in 0 .. to
        OBVIOUS
      <3> QED BY <1>3, <3>1
    <2> QED BY <1>1, <1>3, <2>1
  <1>5. \A p \in Nat, d \in Nat, o \in Opens : s[<<p, d, o>>] = r(p, d, o)
    OBVIOUS
  <1>6. ASSUME NEW k \in 0 .. to, NEW p \in Nat, p > k, NEW d, NEW o
        PROVE  After(g(k), p, d, o) = r(p, d, o)
    <2>1. p \in k + 1 .. to <=> p \in 0 .. to
      BY <1>0, <1>6
    <2>2. DOMAIN g(k) = k + 1 .. to /\ (p \in k + 1 .. to => g(k)[p] = f[p])
      OBVIOUS
    <2> HIDE DEF g
    <2> QED BY <2>1, <2>2 DEF After
  <1>7. ASSUME NEW p \in Nat, NEW d \in Nat, NEW o \in Opens PROVE r(p, d, o) \in Results
    <2>1. Reject("BAD_JSON") \in Results
      BY DEF Reject, Results
    <2>2. p \in 0 .. to => f[p] \in [Nat \X Opens -> Results]
      BY <1>3 DEF V
    <2>3. <<d, o>> \in Nat \X Opens
      OBVIOUS
    <2> QED BY <2>1, <2>2, <2>3
  <1>8. ASSUME NEW k \in 0 .. to, NEW d \in Nat
        PROVE  /\ r(k, d, "value") = ValueFrom(h, Scalars, k, g(k), d)
               /\ \A o \in Opens : o # "value" => r(k, d, o) = ElementsFrom(h, Scalars, k, g(k), d, o)
    <2> HIDE DEF g
    <2>1. f[k] = ScanFrom(h, Scalars, k, g(k))
      BY <1>4
    <2>2. "value" \in Opens /\ \A o \in Opens : <<d, o>> \in Nat \X Opens
      BY DEF Opens
    <2> QED BY <2>1, <2>2 DEF ScanFrom
  <1> HIDE DEF g, r
  <1>9. ASSUME NEW k \in 0 .. to, NEW d \in Nat
        PROVE  r(k, d, "value") = SkipStep(h, Scalars, s, k, d, "value")
    <2>1. k + 1 \in Nat /\ k + 1 > k
      OBVIOUS
    <2>2. At(h, k, "{") \/ At(h, k, "[") => h[k][1] \in Opens
      BY OpenAt
    <2>3. At(h, k, "{") \/ At(h, k, "[") => After(g(k), k + 1, d, h[k][1]) = s[<<k + 1, d, h[k][1]>>]
      <3>1. \A o \in Opens : After(g(k), k + 1, d, o) = s[<<k + 1, d, o>>]
        <4> HIDE DEF s
        <4> QED BY <1>5, <1>6, <2>1
      <3> QED BY <2>2, <3>1
    <2> HIDE DEF s
    <2> QED BY <1>8, <2>3 DEF ValueFrom, SkipStep
  <1>10. \A k \in 0 .. to : \A d \in Nat : \A o \in Opens : Forward(r(k, d, o), k, to)
    <2> DEFINE S == { k \in 0 .. to : \A d \in Nat : \A o \in Opens : Forward(r(k, d, o), k, to) }
    <2>1. ASSUME NEW k \in 0 .. to, \A j \in k + 1 .. to : j \in S PROVE k \in S
      <3>1. ASSUME NEW p \in Nat, p > k, NEW d \in Nat, NEW o \in Opens PROVE Forward(r(p, d, o), k, to)
        <4>1. CASE p \in 0 .. to
          <5>1. p \in S
            BY <2>1, <3>1, <4>1, <1>0
          <5>2. r(p, d, o) \in Results /\ Forward(r(p, d, o), p, to)
            BY <1>7, <5>1
          <5> QED BY <3>1, <5>2 DEF Forward, Results
        <4>2. CASE p \notin 0 .. to
          BY <4>2 DEF r, Reject, Forward
        <4> QED BY <4>1, <4>2
      <3>2. ASSUME NEW d \in Nat PROVE Forward(r(k, d, "value"), k, to)
        <4>1. At(h, k, "{") \/ At(h, k, "[")
                => Forward(After(g(k), k + 1, d, h[k][1]), k, to)
          <5>1. k + 1 \in Nat /\ k + 1 > k
            OBVIOUS
          <5>2. At(h, k, "{") \/ At(h, k, "[") => h[k][1] \in Opens
            BY OpenAt
          <5>3. \A o \in Opens : Forward(After(g(k), k + 1, d, o), k, to)
            BY <1>6, <3>1, <5>1
          <5> QED BY <5>2, <5>3
        <4>2. (\E j \in Scalars : IsA(h, k, j)) => Forward(Read(k + 1), k, to)
          BY <1>0 DEF IsA, Forward, Read, to
        <4>3. \A c : At(h, k + 1, c) => Forward(Read(k + 2), k, to)
          BY <1>0 DEF At, Forward, Read, to
        <4>4. Forward(Reject("BAD_JSON"), k, to)
          BY DEF Forward, Reject
        <4>5. Forward(ValueFrom(h, Scalars, k, g(k), d), k, to)
          BY <4>1, <4>2, <4>3, <4>4 DEF ValueFrom
        <4> QED BY <1>8, <4>5
      <3>3. ASSUME NEW d \in Nat, NEW o \in Opens, o # "value" PROVE Forward(r(k, d, o), k, to)
        <4> DEFINE inner == FirstInner(h, Scalars, k, g(k), d, o)
        <4>0. "value" \in Opens
          BY DEF Opens
        <4>1. d + 1 \in Nat /\ k + 2 \in Nat /\ k + 2 > k /\ "value" \in Opens
          BY <1>0, <4>0
        <4>2. inner = (IF o = "[" THEN r(k, d + 1, "value") ELSE r(k + 2, d + 1, "value"))
          BY <1>6, <1>8, <4>1 DEF FirstInner
        <4>3. inner \in Results /\ Forward(inner, k, to)
          BY <1>7, <3>1, <3>2, <4>1, <4>2
        <4> HIDE DEF inner
        <4>4. inner.at \in Nat /\ (inner.rc = "OK" => inner.at > k)
          BY <4>3 DEF Results, Forward
        <4>5. inner.rc = "OK" => Forward(After(g(k), inner.at + 1, d, o), k, to)
          <5>1. inner.rc = "OK" => inner.at + 1 \in Nat /\ inner.at + 1 > k
            BY <4>4
          <5> QED BY <1>6, <3>1, <5>1
        <4>6. \A c : inner.rc = "OK" /\ At(h, inner.at, c) => Forward(Read(inner.at + 1), k, to)
          BY <1>0, <4>4 DEF At, Forward, Read, to
        <4>7. Forward(Reject("BAD_JSON"), k, to)
          BY DEF Forward, Reject
        <4>8. Forward(ElementsFrom(h, Scalars, k, g(k), d, o), k, to)
          BY <4>5, <4>6, <4>7 DEF ElementsFrom, inner
        <4> QED BY <1>8, <3>3, <4>8
      <3> QED BY <3>2, <3>3
    <2> HIDE DEF S
    <2>2. \A k \in 0 .. to : k \in S
      <3>1. 0 \in Int /\ to \in Int
        BY <1>0
      <3> QED BY <2>1, <3>1, DownwardInduction
    <2> QED BY <2>2 DEF S
  <1>11. ASSUME NEW k \in 0 .. to, NEW d \in Nat, NEW o \in Opens, o # "value"
         PROVE  r(k, d, o) = SkipStep(h, Scalars, s, k, d, o)
    <2> DEFINE inner == FirstInner(h, Scalars, k, g(k), d, o)
               value == IF o = "[" THEN k ELSE k + 2
    <2>0. "value" \in Opens
      BY DEF Opens
    <2>1. d + 1 \in Nat /\ k + 2 \in Nat /\ k + 2 > k /\ "value" \in Opens /\ k \in Nat
      BY <1>0, <2>0
    <2>2. inner = r(value, d + 1, "value") /\ value \in Nat
      BY <1>6, <1>8, <2>1 DEF FirstInner
    <2>3. inner = s[<<value, d + 1, "value">>]
      BY <1>5, <2>1, <2>2
    <2>4. inner \in Results /\ Forward(inner, k, to)
      <3>1. r(k + 2, d + 1, "value") \in Results /\ Forward(r(k + 2, d + 1, "value"), k, to)
        <4>1. CASE k + 2 \in 0 .. to
          <5>1. Forward(r(k + 2, d + 1, "value"), k + 2, to)
            BY <1>10, <2>1, <4>1
          <5>2. r(k + 2, d + 1, "value") \in Results
            BY <1>7, <2>1
          <5> QED BY <1>0, <5>1, <5>2 DEF Forward, Results
        <4>2. CASE k + 2 \notin 0 .. to
          BY <1>7, <2>1, <4>2 DEF r, Forward, Reject
        <4> QED BY <4>1, <4>2
      <3>2. r(k, d + 1, "value") \in Results /\ Forward(r(k, d + 1, "value"), k, to)
        BY <1>7, <1>10, <2>1
      <3> QED BY <2>2, <3>1, <3>2
    <2> HIDE DEF inner
    <2>5. inner.rc = "OK" => After(g(k), inner.at + 1, d, o) = s[<<inner.at + 1, d, o>>]
      <3>1. inner.rc = "OK" => inner.at + 1 \in Nat /\ inner.at + 1 > k
        BY <2>4 DEF Results, Forward
      <3> QED BY <1>5, <1>6, <3>1
    <2> HIDE DEF s
    <2>6. ElementsFrom(h, Scalars, k, g(k), d, o) = SkipStep(h, Scalars, s, k, d, o)
      BY <1>11, <2>3, <2>5 DEF ElementsFrom, SkipStep, inner
    <2> QED BY <1>8, <1>11, <2>6
  <1>12. ASSUME NEW p \in Nat, p \notin 0 .. to, NEW d \in Nat, NEW o \in Opens
         PROVE  r(p, d, o) = SkipStep(h, Scalars, s, p, d, o)
    <2>0. p \notin DOMAIN h /\ r(p, d, o) = Reject("BAD_JSON")
      BY <1>0, <1>12 DEF r, to
    <2>1. CASE o = "value"
      <3> HIDE DEF s
      <3> QED BY <2>0, <2>1 DEF SkipStep, At, IsA
    <2>2. CASE o = "["
      <3>1. s[<<p, d + 1, "value">>].rc # "OK"
        <4>0. "value" \in Opens
          BY DEF Opens
        <4>1. d + 1 \in Nat /\ "value" \in Opens
          BY <4>0
        <4>2. s[<<p, d + 1, "value">>] = r(p, d + 1, "value")
          BY <1>5, <4>1
        <4>3. r(p, d + 1, "value") = Reject("BAD_JSON")
          BY <1>12 DEF r
        <4> QED BY <4>2, <4>3 DEF Reject
      <3> HIDE DEF s
      <3> QED BY <2>0, <2>2, <3>1 DEF SkipStep
    <2>3. CASE o = "{"
      <3> HIDE DEF s
      <3> QED BY <2>0, <2>3 DEF SkipStep, KeyAt, IsA
    <2> QED BY <2>1, <2>2, <2>3 DEF Opens
  <1>13. \A p \in Nat, d \in Nat, o \in Opens : s[<<p, d, o>>] = SkipStep(h, Scalars, s, p, d, o)
    <2> SUFFICES ASSUME NEW p \in Nat, NEW d \in Nat, NEW o \in Opens
                 PROVE  r(p, d, o) = SkipStep(h, Scalars, s, p, d, o)
      BY <1>5
    <2> HIDE DEF s
    <2>1. CASE p \notin 0 .. to
      BY <1>12, <2>1
    <2>2. CASE p \in 0 .. to /\ o = "value"
      BY <1>9, <2>2
    <2>3. CASE p \in 0 .. to /\ o # "value"
      BY <1>11, <2>3
    <2> QED BY <2>1, <2>2, <2>3
  <1>14. IsSkip(h, Scalars, s)
    <2>1. s = [x \in Nat \X Nat \X Opens |-> s[<<x[1], x[2], x[3]>>]]
      BY <1>5
    <2> HIDE DEF s
    <2> QED BY <1>13, <2>1 DEF IsSkip
  <1> QED BY <1>14

\* Whatever satisfies the equation moves forward.
LEMMA SkipResults ==
  ASSUME NEW h, NEW Scalars, NEW s, IsText(h), IsSkip(h, Scalars, s)
  PROVE  \A p, depth \in Nat : \A open \in Opens :
           s[<<p, depth, open>>] \in Results /\ Forward(s[<<p, depth, open>>], p, Len(h) + 1)
  <1> DEFINE to == Len(h) + 1
             Good(p) == \A d \in Nat : \A o \in Opens :
                          s[<<p, d, o>>] \in Results /\ Forward(s[<<p, d, o>>], p, to)
             S == { p \in 0 .. to : Good(p) }
  <1>0. Len(h) \in Nat /\ to \in Nat /\ DOMAIN h = 1 .. Len(h) /\ 0 \in Int /\ to \in Int
    BY DEF IsText
  <1>1. \A p, d \in Nat : \A o \in Opens : s[<<p, d, o>>] = SkipStep(h, Scalars, s, p, d, o)
    BY DEF IsSkip
  <1>2. "value" \in Opens /\ \A o \in Opens : o \in {"value", "[", "{"}
    BY DEF Opens
  <1>r. \A p : Reject("BAD_JSON") \in Results /\ Forward(Reject("BAD_JSON"), p, to)
    BY DEF Reject, Results, Forward
  <1>3. ASSUME NEW p \in Nat, p \notin 0 .. to PROVE Good(p)
    <2> SUFFICES ASSUME NEW d \in Nat, NEW o \in Opens PROVE s[<<p, d, o>>] = Reject("BAD_JSON")
      BY <1>r
    <2>1. p \notin DOMAIN h
      BY <1>0, <1>3
    <2>2. \A e \in Nat : s[<<p, e, "value">>] = Reject("BAD_JSON")
      BY <1>1, <1>2, <2>1 DEF SkipStep, At, IsA
    <2>3. CASE o = "["
      <3>1. s[<<p, d + 1, "value">>] = Reject("BAD_JSON")
        BY <2>2
      <3>2. s[<<p, d, o>>] = SkipStep(h, Scalars, s, p, d, o)
        BY <1>1
      <3>3. s[<<p, d + 1, "value">>].rc # "OK"
        BY <3>1 DEF Reject
      <3> QED BY <2>3, <3>2, <3>3 DEF SkipStep
    <2>4. CASE o = "{"
      BY <1>1, <1>2, <2>1, <2>4 DEF SkipStep, KeyAt, IsA
    <2> QED BY <1>2, <2>2, <2>3, <2>4
  <1>4. ASSUME NEW k \in 0 .. to, \A j \in k + 1 .. to : j \in S PROVE k \in S
    <2> HIDE DEF to
    <2>0. k \in Nat /\ k + 1 \in Nat /\ k + 2 \in Nat
      BY <1>0
    <2>1. ASSUME NEW p \in Nat, p > k, NEW d \in Nat, NEW o \in Opens
          PROVE  s[<<p, d, o>>] \in Results /\ Forward(s[<<p, d, o>>], k, to)
      <3>1. Good(p)
        <4>1. CASE p \in 0 .. to
          <5>1. p \in S
            BY <1>0, <1>4, <2>1, <4>1
          <5> QED BY <5>1
        <4>2. CASE p \notin 0 .. to
          BY <1>3, <4>2
        <4> QED BY <4>1, <4>2
      <3>2. s[<<p, d, o>>] \in Results /\ Forward(s[<<p, d, o>>], p, to)
        BY <3>1
      <3> QED BY <1>0, <2>1, <3>2 DEF Forward, Results
    <2>2. ASSUME NEW d \in Nat
          PROVE  s[<<k, d, "value">>] \in Results /\ Forward(s[<<k, d, "value">>], k, to)
      <3>1. At(h, k, "{") \/ At(h, k, "[")
              => s[<<k + 1, d, h[k][1]>>] \in Results /\ Forward(s[<<k + 1, d, h[k][1]>>], k, to)
        <4>1. \A o \in Opens : s[<<k + 1, d, o>>] \in Results /\ Forward(s[<<k + 1, d, o>>], k, to)
          BY <2>0, <2>1
        <4> QED BY <4>1, OpenAt
      <3>2. (\E j \in Scalars : IsA(h, k, j)) => Read(k + 1) \in Results /\ Forward(Read(k + 1), k, to)
        BY <1>0, <2>0 DEF IsA, Forward, Read, Results, to
      <3>3. \A c : At(h, k + 1, c) => Read(k + 2) \in Results /\ Forward(Read(k + 2), k, to)
        BY <1>0, <2>0 DEF At, Forward, Read, Results, to
      <3>4. s[<<k, d, "value">>] = SkipStep(h, Scalars, s, k, d, "value")
        BY <1>1, <1>2, <2>0
      <3> QED BY <1>r, <3>1, <3>2, <3>3, <3>4 DEF SkipStep
    <2>3. ASSUME NEW d \in Nat, NEW o \in Opens, o # "value"
          PROVE  s[<<k, d, o>>] \in Results /\ Forward(s[<<k, d, o>>], k, to)
      <3> DEFINE inner == s[<<IF o = "[" THEN k ELSE k + 2, d + 1, "value">>]
      <3>1. inner \in Results /\ Forward(inner, k, to)
        <4>1. d + 1 \in Nat /\ k + 2 > k
          BY <2>0
        <4>2. s[<<k + 2, d + 1, "value">>] \in Results /\ Forward(s[<<k + 2, d + 1, "value">>], k, to)
          BY <1>2, <2>0, <2>1, <4>1
        <4>3. s[<<k, d + 1, "value">>] \in Results /\ Forward(s[<<k, d + 1, "value">>], k, to)
          BY <2>2, <4>1
        <4> QED BY <4>2, <4>3
      <3>2. s[<<k, d, o>>] = SkipStep(h, Scalars, s, k, d, o)
        BY <1>1, <2>0
      <3> HIDE DEF inner
      <3>3. inner.at \in Nat /\ (inner.rc = "OK" => inner.at > k)
        BY <3>1 DEF Results, Forward
      <3>4. inner.rc = "OK" => s[<<inner.at + 1, d, o>>] \in Results /\ Forward(s[<<inner.at + 1, d, o>>], k, to)
        <4>1. inner.rc = "OK" => inner.at + 1 \in Nat /\ inner.at + 1 > k
          BY <2>0, <3>3
        <4> QED BY <2>1, <4>1
      <3>5. \A c : inner.rc = "OK" /\ At(h, inner.at, c)
                   => Read(inner.at + 1) \in Results /\ Forward(Read(inner.at + 1), k, to)
        BY <1>0, <2>0, <3>3 DEF At, Forward, Read, Results, to
      <3> QED BY <1>r, <2>3, <3>2, <3>4, <3>5 DEF SkipStep, inner
    <2> QED BY <2>2, <2>3
  <1>5. \A k \in 0 .. to : k \in S
    <2> HIDE DEF S
    <2> QED BY <1>0, <1>4, DownwardInduction
  <1>6. \A p \in Nat : Good(p)
    <2> HIDE DEF Good
    <2> QED BY <1>3, <1>5
  <1> QED BY <1>6

\* A value that is skipped ends after it began.
LEMMA SkipMoves ==
  ASSUME NEW h, NEW Scalars, IsText(h), NEW from \in Nat
  PROVE  /\ SkipValue(h, from, Scalars) \in Results
         /\ Forward(SkipValue(h, from, Scalars), from, Len(h) + 1)
  <1> DEFINE s == CHOOSE x : IsSkip(h, Scalars, x)
  <1>1. IsSkip(h, Scalars, s)
    BY SkipExists
  <1>2. SkipValue(h, from, Scalars) = s[<<from, 0, "value">>]
    BY SkipValueIs
  <1>3. "value" \in Opens
    BY DEF Opens
  <1> HIDE DEF s
  <1> QED BY <1>1, <1>2, <1>3, SkipResults

\* A member's reading that ends after it began, and a reading of members.
MemberResults == [rc : {"OK", "BAD_JSON"}, at : Nat, begin : SUBSET Nat]

MembersStep(h, member, s, p) ==
  LET m == member[p] IN
  IF m.rc # "OK" THEN [rc |-> m.rc, at |-> 0, begin |-> {}]
  ELSE IF At(h, m.at, ",")
  THEN LET r == s[m.at + 1] IN [r EXCEPT !.begin = @ \cup {p}]
  ELSE IF At(h, m.at, "}") THEN [rc |-> "OK", at |-> m.at + 1, begin |-> {p}]
  ELSE [rc |-> "BAD_JSON", at |-> 0, begin |-> {p}]

IsMembers(h, member, s) == s = [p \in Nat |-> MembersStep(h, member, s, p)]

\* What it says of the members that begin at p or later.
ReadsOn(r, member, p, n) ==
  /\ r \in MemberResults /\ Forward(r, p, n)
  /\ \A b \in r.begin : b >= p /\ b <= n /\ (r.rc = "OK" => member[b].rc = "OK" /\ member[b].at < r.at)

LEMMA MembersExists ==
  ASSUME NEW h, NEW member, IsText(h),
         \A p \in 1 .. Len(h) + 1 : member[p] \in Results /\ Forward(member[p], p, Len(h) + 1)
  PROVE  \E s : IsMembers(h, member, s)
  <1> DEFINE to  == Len(h) + 1
             V   == MemberResults
             Go  == { p \in 1 .. to : member[p].rc = "OK" /\ At(h, member[p].at, ",") }
             nxt == [p \in 1 .. to |-> member[p].at + 1]
             F   == [pv \in (1 .. to) \X V |-> [pv[2] EXCEPT !.begin = @ \cup {pv[1]}]]
             Ends(p) ==
               LET m == member[p] IN
               IF m.rc # "OK" THEN [rc |-> "BAD_JSON", at |-> 0, begin |-> {}]
               ELSE IF At(h, m.at, "}") THEN [rc |-> "OK", at |-> m.at + 1, begin |-> {p}]
               ELSE [rc |-> "BAD_JSON", at |-> 0, begin |-> {p}]
             e   == [p \in 1 .. to |-> Ends(p)]
  <1>0. Len(h) \in Nat /\ to \in Nat /\ DOMAIN h = 1 .. Len(h) /\ 1 \in Int /\ to \in Int
    BY DEF IsText
  <1>1. ASSUME NEW p \in 1 .. to
        PROVE  /\ member[p].rc \in {"OK", "BAD_JSON"} /\ member[p].at \in Nat
               /\ member[p].rc = "OK" => member[p].at > p
    BY DEF Results, Forward
  <1>2. \A p, c : At(h, p, c) => p \in 1 .. Len(h)
    BY <1>0 DEF At
  <1>3. LooksLater(1, to, Go, nxt)
    <2> SUFFICES ASSUME NEW p \in 1 .. to, p \in Go PROVE nxt[p] \in p + 1 .. to
      BY DEF LooksLater
    <2>0. member[p].rc = "OK" /\ At(h, member[p].at, ",")
      OBVIOUS
    <2>1. member[p].at > p /\ member[p].at \in Nat
      BY <1>1, <2>0
    <2>2. member[p].at \in 1 .. Len(h)
      BY <1>2, <2>0
    <2>3. \A m \in Nat : m > p /\ m \in 1 .. Len(h) => m + 1 \in p + 1 .. to
      <3> HIDE DEF Go, nxt, F, e, Ends, V, to
      <3>1. p \in Nat
        BY <1>0
      <3> QED BY <1>0, <3>1 DEF to
    <2>4. member[p].at + 1 \in p + 1 .. to
      BY <2>1, <2>2, <2>3
    <2> QED BY <2>4
  <1>4. \A p \in 1 .. to : \A v \in V : F[<<p, v>>] = [v EXCEPT !.begin = @ \cup {p}]
    OBVIOUS
  <1>5. StaysIn(1, to, V, F, e)
    <2> SUFFICES ASSUME NEW p \in 1 .. to PROVE Ends(p) \in V /\ \A v \in V : [v EXCEPT !.begin = @ \cup {p}] \in V
      BY <1>4 DEF StaysIn
    <2>1. {p} \in SUBSET Nat /\ p \in Nat /\ member[p].at + 1 \in Nat /\ {} \in SUBSET Nat
      BY <1>1
    <2>2. Ends(p) \in V
      BY <2>1 DEF MemberResults
    <2>3. \A v \in V : [v EXCEPT !.begin = @ \cup {p}] \in V
      BY <2>1 DEF MemberResults
    <2> QED BY <2>2, <2>3
  <1>6. \A p \in 1 .. to : nxt[p] = member[p].at + 1 /\ e[p] = Ends(p)
                          /\ (p \in Go <=> member[p].rc = "OK" /\ At(h, member[p].at, ","))
    OBVIOUS
  <1> HIDE DEF to, V, Go, nxt, F, e, Ends
  <1>7. PICK g : SolvesDownward(g, 1, to, V, Go, nxt, F, e)
    BY <1>0, <1>3, <1>5, DownwardRecursion
  <1> DEFINE s == [p \in Nat |-> IF p \in 1 .. to THEN g[p] ELSE MembersStep(h, member, g, p)]
  <1>8. ASSUME NEW p \in 1 .. to PROVE g[p] \in V /\ g[p] = IF p \in Go THEN F[<<p, g[nxt[p]]>>] ELSE e[p]
    BY <1>7 DEF SolvesDownward
  <1>9. \A p \in 1 .. to : s[p] = g[p]
    BY <1>0
  <1>a. ASSUME NEW p \in Nat, At(h, member[p].at, ",")
        PROVE  member[p].at + 1 \in 1 .. to /\ s[member[p].at + 1] = g[member[p].at + 1]
    <2>1. member[p].at \in 1 .. Len(h)
      BY <1>2, <1>a
    <2>2. member[p].at + 1 \in 1 .. to
      BY <1>0, <2>1 DEF to
    <2> HIDE DEF s
    <2> QED BY <1>9, <2>2
  <1>b. ASSUME NEW p \in Nat PROVE MembersStep(h, member, s, p) = MembersStep(h, member, g, p)
    <2> HIDE DEF s
    <2> QED BY <1>a DEF MembersStep
  <1>c. ASSUME NEW p \in 1 .. to PROVE g[p] = MembersStep(h, member, g, p)
    <2>1. CASE p \in Go
      <3>0. nxt[p] \in p + 1 .. to
        BY <1>3, <2>1 DEF LooksLater
      <3>1. nxt[p] \in 1 .. to
        BY <1>0, <3>0
      <3>a. g[nxt[p]] \in V
        BY <1>8, <3>1
      <3>2. g[p] = [g[nxt[p]] EXCEPT !.begin = @ \cup {p}]
        BY <1>4, <1>8, <2>1, <3>a
      <3> QED BY <1>6, <2>1, <3>2 DEF MembersStep
    <2>2. CASE p \notin Go
      <3>1. g[p] = Ends(p)
        BY <1>6, <1>8, <2>2
      <3> QED BY <1>1, <1>6, <2>2, <3>1 DEF MembersStep, Ends
    <2> QED BY <2>1, <2>2
  <1>d. IsMembers(h, member, s)
    <2>1. \A p \in Nat : s[p] = IF p \in 1 .. to THEN g[p] ELSE MembersStep(h, member, g, p)
      OBVIOUS
    <2>2. s = [p \in Nat |-> s[p]]
      OBVIOUS
    <2> HIDE DEF s
    <2>3. \A p \in Nat : s[p] = MembersStep(h, member, s, p)
      BY <1>b, <1>c, <2>1
    <2> QED BY <2>2, <2>3 DEF IsMembers
  <1> HIDE DEF s
  <1> QED BY <1>d

LEMMA MembersResult ==
  ASSUME NEW h, NEW member, NEW s, IsText(h), IsMembers(h, member, s),
         \A p \in 1 .. Len(h) + 1 : member[p] \in Results /\ Forward(member[p], p, Len(h) + 1)
  PROVE  \A p \in 1 .. Len(h) + 1 : ReadsOn(s[p], member, p, Len(h) + 1)
  <1> DEFINE to  == Len(h) + 1
             S == { p \in 1 .. to : ReadsOn(s[p], member, p, to) }
  <1>0. Len(h) \in Nat /\ to \in Nat /\ DOMAIN h = 1 .. Len(h) /\ 1 \in Int /\ to \in Int
    BY DEF IsText
  <1>1. ASSUME NEW p \in 1 .. to
        PROVE  /\ member[p].rc \in {"OK", "BAD_JSON"} /\ member[p].at \in Nat
               /\ member[p].rc = "OK" => member[p].at > p /\ member[p].at <= to
               /\ p \in Nat /\ s[p] = MembersStep(h, member, s, p)
    BY DEF Results, Forward, IsMembers
  <1>2. \A p, c : At(h, p, c) => p \in 1 .. Len(h)
    BY <1>0 DEF At
  <1>3. ASSUME NEW p \in 1 .. to, \A j \in p + 1 .. to : j \in S PROVE p \in S
    <2> DEFINE m == member[p]
               n == m.at + 1
               r == s[n]
    <2> HIDE DEF to, m
    <2>0. p \in Nat /\ p >= p /\ p <= to
      BY <1>0
    <2>m. /\ m.rc \in {"OK", "BAD_JSON"} /\ m.at \in Nat /\ (m.rc = "OK" => m.at > p /\ m.at <= to)
          /\ m = member[p]
      BY <1>1 DEF m
    <2>1. CASE m.rc = "OK" /\ At(h, m.at, ",")
      <3>1. n \in p + 1 .. to /\ n \in 1 .. to /\ n > p
        <4>1. m.at \in 1 .. Len(h)
          BY <1>2, <2>1
        <4>2. m.at > p /\ p \in Nat
          BY <2>0, <2>1, <2>m
        <4>3. \A k \in Nat : k > p /\ k \in 1 .. Len(h) => k + 1 \in p + 1 .. to /\ k + 1 \in 1 .. to /\ k + 1 > p
          BY <1>0, <4>2 DEF to
        <4> QED BY <2>m, <4>1, <4>2, <4>3
      <3>2. ReadsOn(r, member, n, to)
        BY <1>3, <3>1
      <3>3. s[p] = [r EXCEPT !.begin = @ \cup {p}]
        BY <1>1, <2>1, <2>m DEF MembersStep
      <3> HIDE DEF r
      <3>4. r \in MemberResults /\ Forward(r, n, to) /\ (r.rc = "OK" => r.at > n)
        BY <3>2 DEF ReadsOn, Forward
      <3>5. /\ s[p].rc = r.rc /\ s[p].at = r.at /\ s[p].begin = r.begin \cup {p}
            /\ s[p] \in MemberResults
        BY <2>0, <3>3, <3>4 DEF MemberResults
      <3>6. Forward(s[p], p, to)
        BY <1>0, <2>0, <3>1, <3>4, <3>5 DEF Forward, MemberResults
      <3>7. ASSUME NEW b \in s[p].begin
            PROVE  b >= p /\ b <= to /\ (s[p].rc = "OK" => member[b].rc = "OK" /\ member[b].at < s[p].at)
        <4>1. CASE b \in r.begin
          <5>1. b \in Nat
            BY <3>4, <4>1 DEF MemberResults
          <5>2. b >= n /\ b <= to /\ (r.rc = "OK" => member[b].rc = "OK" /\ member[b].at < r.at)
            BY <3>2, <4>1 DEF ReadsOn
          <5>3. b >= p
            BY <2>0, <3>1, <5>1, <5>2
          <5> QED BY <3>5, <5>2, <5>3
        <4>2. CASE b = p
          <5>1. r.rc = "OK" => m.at < r.at
            BY <2>m, <3>4 DEF MemberResults
          <5> QED BY <2>0, <2>1, <2>m, <3>5, <4>2, <5>1
        <4> QED BY <3>5, <3>7, <4>1, <4>2
      <3> QED BY <3>5, <3>6, <3>7 DEF ReadsOn
    <2>2. CASE m.rc = "OK" /\ ~At(h, m.at, ",") /\ At(h, m.at, "}")
      <3>1. s[p] = [rc |-> "OK", at |-> m.at + 1, begin |-> {p}]
        BY <1>1, <2>2, <2>m DEF MembersStep
      <3>a. m.at \in 1 .. Len(h) /\ m.at \in Nat /\ m.at > p
        BY <1>2, <2>2, <2>m
      <3>2. m.at + 1 \in Nat /\ {p} \in SUBSET Nat
        BY <2>0, <3>a
      <3>3. m.at + 1 > p /\ m.at + 1 <= to /\ m.at < m.at + 1
        BY <1>0, <2>0, <3>a DEF to
      <3>4. s[p] \in MemberResults
        BY <3>1, <3>2 DEF MemberResults
      <3>5. Forward(s[p], p, to)
        BY <3>1, <3>3 DEF Forward
      <3>6. \A b \in s[p].begin : b = p /\ member[b].rc = "OK" /\ member[b].at < s[p].at
        <4>1. s[p].begin = {p} /\ s[p].at = m.at + 1
          BY <3>1
        <4> QED BY <2>2, <2>m, <3>3, <4>1
      <3> QED BY <2>0, <3>4, <3>5, <3>6 DEF ReadsOn
    <2>3. CASE ~(m.rc = "OK" /\ (At(h, m.at, ",") \/ At(h, m.at, "}")))
      <3>1. s[p] = [rc |-> "BAD_JSON", at |-> 0, begin |-> {}] \/ s[p] = [rc |-> "BAD_JSON", at |-> 0, begin |-> {p}]
        BY <1>1, <2>3, <2>m DEF MembersStep
      <3>2. {p} \in SUBSET Nat /\ {} \in SUBSET Nat
        BY <2>0
      <3>3. s[p] \in MemberResults
        BY <3>1, <3>2 DEF MemberResults
      <3>4. s[p].rc # "OK" /\ \A b \in s[p].begin : b = p
        BY <3>1
      <3> QED BY <2>0, <3>3, <3>4 DEF ReadsOn, Forward
    <2> QED BY <2>1, <2>2, <2>3
  <1> HIDE DEF S
  <1>4. \A p \in 1 .. to : p \in S
    BY <1>0, <1>3, DownwardInduction
  <1> QED BY <1>4 DEF S

\* The members of an object: the result is past all of them.
LEMMA MembersMove ==
  ASSUME NEW h, NEW member, IsText(h), NEW from \in Nat,
         \A p \in 1 .. Len(h) + 1 : member[p] \in Results /\ Forward(member[p], p, Len(h) + 1)
  PROVE  ReadsOn(Members(h, from, member), member, from + 1, Len(h) + 1)
  <1> DEFINE s == CHOOSE x : IsMembers(h, member, x)
  <1>0. Len(h) \in Nat /\ DOMAIN h = 1 .. Len(h)
    BY DEF IsText
  <1>1. IsMembers(h, member, s)
    BY MembersExists
  <1>2. Members(h, from, member)
          = IF ~At(h, from, "{") THEN [rc |-> "BAD_JSON", at |-> 0, begin |-> {}]
            ELSE IF At(h, from + 1, "}") THEN [rc |-> "OK", at |-> from + 2, begin |-> {}]
            ELSE s[from + 1]
    BY DEF Members, IsMembers, MembersStep
  <1> HIDE DEF s
  <1>3. CASE ~At(h, from, "{")
    <2>1. Members(h, from, member) = [rc |-> "BAD_JSON", at |-> 0, begin |-> {}]
      BY <1>2, <1>3
    <2> QED BY <2>1 DEF ReadsOn, MemberResults, Forward
  <1>4. CASE At(h, from, "{") /\ At(h, from + 1, "}")
    <2>1. from + 1 \in 1 .. Len(h)
      BY <1>0, <1>4 DEF At
    <2>2. Members(h, from, member) = [rc |-> "OK", at |-> from + 2, begin |-> {}]
      BY <1>2, <1>4
    <2>3. from + 2 \in Nat /\ from + 2 > from + 1 /\ from + 2 <= Len(h) + 1
      BY <1>0, <2>1
    <2> QED BY <2>2, <2>3 DEF ReadsOn, MemberResults, Forward
  <1>5. CASE At(h, from, "{") /\ ~At(h, from + 1, "}")
    <2>0. from \in 1 .. Len(h)
      BY <1>0, <1>5 DEF At
    <2>1. from + 1 \in 1 .. Len(h) + 1
      BY <1>0, <2>0
    <2>2. ReadsOn(s[from + 1], member, from + 1, Len(h) + 1)
      BY <1>1, <2>1, MembersResult
    <2> QED BY <1>2, <1>5, <2>2
  <1> QED BY <1>3, <1>4, <1>5

-----------------------------------------------------------------------------
(* The room of a table, and the hash tables.                               *)

LEMMA DoubledReaches ==
  ASSUME NEW c \in Nat \ {0}, NEW need \in Nat
  PROVE  Doubled(c, need) \in Nat /\ Doubled(c, need) >= need /\ Doubled(c, need) > 0
  <1> DEFINE d == CHOOSE g : g = [k \in Nat |-> IF k >= need THEN k ELSE g[2 * k]]
  <1>1. d = [k \in Nat |-> IF k >= need THEN k ELSE d[2 * k]]
    BY DoublingExists
  <1>2. Doubled(c, need) = d[c]
    BY DEF Doubled
  <1> HIDE DEF d
  <1>3. d[c] \in Nat /\ d[c] >= need
    BY <1>1, DoublingReaches
  <1>4. CASE need = 0
    <2>1. c >= need
      BY <1>4
    <2>2. d[c] = c
      BY <1>1, <2>1
    <2> QED BY <1>2, <1>3, <2>2
  <1>5. CASE need # 0
    BY <1>2, <1>3, <1>5
  <1> QED BY <1>4, <1>5

LEMMA BucketsEnough ==
  ASSUME NEW n \in Nat
  PROVE  Buckets(n) \in Nat \ {0} /\ Buckets(n) >= 2 * n
  <1>1. MinBuckets \in Nat \ {0} /\ 2 * n \in Nat
    BY ArtifactAssumption
  <1>2. Doubled(MinBuckets, 2 * n) \in Nat /\ Doubled(MinBuckets, 2 * n) >= 2 * n /\ Doubled(MinBuckets, 2 * n) > 0
    BY <1>1, DoubledReaches
  <1> QED BY <1>2 DEF Buckets

\* The entries 0 .. k-1 of a table put where their hashes lead, one after the other.
IsFilling(g, n, hash) ==
  g = [k \in 0 .. n |-> IF k = 0 THEN [i \in 0 .. Buckets(n) - 1 |-> -1]
                        ELSE [g[k - 1] EXCEPT ![Slot(g[k - 1], hash[k - 1], {})] = k - 1]]

LEMMA FillingExists ==
  ASSUME NEW n \in Nat, NEW hash
  PROVE  /\ \E g : IsFilling(g, n, hash)
         /\ \A g : IsFilling(g, n, hash) =>
              \A k \in 0 .. n : g[k] \in [0 .. Buckets(n) - 1 -> -1 .. n - 1]
  <1> DEFINE V == [0 .. Buckets(n) - 1 -> -1 .. n - 1]
             empty == [i \in 0 .. Buckets(n) - 1 |-> -1]
             Put(k, t) == [t EXCEPT ![Slot(t, hash[k - 1], {})] = k - 1]
             F == [kt \in (1 .. n) \X V |-> Put(kt[1], kt[2])]
  <1>1. empty \in V
    OBVIOUS
  <1>2. ASSUME NEW k \in 1 .. n, NEW t \in V PROVE Put(k, t) \in V
    <2>1. k - 1 \in -1 .. n - 1
      OBVIOUS
    <2> QED BY <2>1
  <1>3. \A k \in 1 .. n : \A t \in V : F[<<k, t>>] = Put(k, t)
    OBVIOUS
  <1>4. \A g : IsFilling(g, n, hash) <=>
          g = [k \in 0 .. n |-> IF k = 0 THEN empty ELSE Put(k, g[k - 1])]
    BY DEF IsFilling
  <1> HIDE DEF V, empty, Put, F
  <1>5. ASSUME NEW g, IsFilling(g, n, hash) PROVE \A k \in 0 .. n : g[k] \in V
    <2> DEFINE S == { k \in Nat : k <= n => g[k] \in V }
    <2>1. \A k \in 0 .. n : g[k] = IF k = 0 THEN empty ELSE Put(k, g[k - 1])
      BY <1>4, <1>5
    <2>2. 0 \in S
      BY <1>1, <2>1
    <2>3. ASSUME NEW k \in Nat, k \in S PROVE k + 1 \in S
      <3> SUFFICES ASSUME k + 1 <= n PROVE g[k + 1] \in V
        OBVIOUS
      <3>1. g[k] \in V /\ k + 1 \in 1 .. n /\ k + 1 \in 0 .. n /\ (k + 1) - 1 = k /\ k + 1 # 0
        BY <2>3
      <3>2. g[k + 1] = Put(k + 1, g[k])
        BY <2>1, <3>1
      <3> QED BY <1>2, <3>1, <3>2
    <2> HIDE DEF S
    <2>4. Nat \subseteq S
      BY <2>2, <2>3, Induction
    <2> QED BY <2>4 DEF S
  <1>6. \E g : IsFilling(g, n, hash)
    <2>1. \A k \in 1 .. n : \A t \in V : F[<<k, t>>] \in V
      BY <1>2, <1>3
    <2>a. \E g : SolvesForward(g, n, V, empty, F)
      BY <1>1, <2>1, ForwardRecursion
    <2>2. PICK g \in [0 .. n -> V] :
            \A k \in 0 .. n : g[k] = IF k = 0 THEN empty ELSE F[<<k, g[k - 1]>>]
      BY <2>a DEF SolvesForward
    <2>3. \A k \in 0 .. n : g[k] = IF k = 0 THEN empty ELSE Put(k, g[k - 1])
      <3> SUFFICES ASSUME NEW k \in 0 .. n, k # 0 PROVE g[k] = Put(k, g[k - 1])
        BY <2>2
      <3>1. k \in 1 .. n /\ k - 1 \in 0 .. n
        OBVIOUS
      <3>2. F[<<k, g[k - 1]>>] = Put(k, g[k - 1])
        BY <1>3, <2>2, <3>1
      <3> QED BY <2>2, <3>1, <3>2
    <2>4. g = [k \in 0 .. n |-> IF k = 0 THEN empty ELSE Put(k, g[k - 1])]
      BY <2>2, <2>3
    <2> QED BY <1>4, <2>4
  <1> QED BY <1>5, <1>6 DEF V

LEMMA FilledIs ==
  ASSUME NEW n \in Nat, NEW hash
  PROVE  /\ \E g : IsFilling(g, n, hash) /\ Filled(n, hash) = g[n]
         /\ Filled(n, hash) \in [0 .. Buckets(n) - 1 -> -1 .. n - 1]
         /\ Filled(n, hash) # <<>>
  <1> DEFINE put == CHOOSE g : IsFilling(g, n, hash)
  <1>1. IsFilling(put, n, hash)
    BY FillingExists
  <1>2. Filled(n, hash) = put[n]
    BY DEF Filled, IsFilling
  <1> HIDE DEF put
  <1>3. put[n] \in [0 .. Buckets(n) - 1 -> -1 .. n - 1]
    <2>1. n \in 0 .. n
      OBVIOUS
    <2> QED BY <1>1, <2>1, FillingExists
  <1>4. 0 \in 0 .. Buckets(n) - 1
    BY BucketsEnough
  <1>5. Filled(n, hash) # <<>>
    <2>1. DOMAIN Filled(n, hash) # {}
      BY <1>2, <1>3, <1>4
    <2> QED BY <2>1
  <1> QED BY <1>1, <1>2, <1>3, <1>5

-----------------------------------------------------------------------------
(* What a tokenizer under construction holds, by the positions its strings *)
(* were read from.                                                         *)

Tables == {"vocab", "merges", "added"}
Reading == {"item", "end"}
Settled == {"parsed", "checked", "hashed", "loaded", "decoded"}
Empty == {"start", "returned", "freed"}

\* How many members' names are held in a table or object.
Depth == [top |-> 0, model |-> 1, added |-> 1, vocab |-> 2, merges |-> 2]

TokFields == {"room", "spelling", "nVocab", "merges", "added", "vhash", "mhash"}

\* No table outgrows its array, and above the highest id there is no spelling.
IsTok(t) ==
  /\ DOMAIN t = TokFields
  /\ t.room \in [vocab : Nat, merges : Nat, added : Nat]
  /\ t.spelling \in [0 .. t.room.vocab - 1 -> Nat]
  /\ t.nVocab \in 0 .. t.room.vocab
  /\ \A i \in t.nVocab .. t.room.vocab - 1 : t.spelling[i] = 0
  /\ t.merges \in Seq(Nat) /\ Len(t.merges) <= t.room.merges
  /\ t.added \in Seq([content : Nat, id : Nat]) /\ Len(t.added) <= t.room.added

SpelledAt(t) == { t.spelling[i] : i \in DOMAIN t.spelling } \ {0}
AddedAt(t) == { t.added[k].content : k \in DOMAIN t.added }
OwnedAt(t) == SpelledAt(t) \cup AddedAt(t)
KeysAt(ks) == { ks[k] : k \in DOMAIN ks }
CopiesAt(P) == { Copy(p) : p \in P }
Halved(t) == {"left", "right"} \X { t.merges[k] : k \in DOMAIN t.merges }

\* Every copy has one owner.
OneOwner(t, ks) ==
  /\ \A i, j \in DOMAIN t.spelling : t.spelling[i] = t.spelling[j] /\ t.spelling[i] # 0 => i = j
  /\ SpelledAt(t) \cap AddedAt(t) = {}
  /\ KeysAt(ks) \cap OwnedAt(t) = {}
  /\ \A j, k \in DOMAIN ks : ks[j] = ks[k] => j = k

\* All of them were read before p.
Behind(t, ks, p) == \A q \in OwnedAt(t) \cup KeysAt(ks) : q < p

\* Parsing w at p: the parser's count of the room is the table's, and what is live
\* is the tokenizer's, the names' and the text.
IsReading(w, p, t, ks, c, l) ==
  /\ w \in DOMAIN Depth /\ ks \in Seq(Nat) /\ Len(ks) = Depth[w]
  /\ w \in Tables => c = t.room[w]
  /\ l = Held(t) \cup CopiesAt(KeysAt(ks)) \cup Text
  /\ OneOwner(t, ks) /\ Behind(t, ks, p) /\ p \in Nat \ {0}

IsNumbered(h) == \A p \in DOMAIN h : h[p][1] = "num" => h[p][2] \in Nat

ArtifactInv ==
  /\ session \in Sessions /\ IsText(text) /\ IsNumbered(text)
  /\ pc \in Empty \cup Reading \cup Settled
  /\ IsTok(tok) /\ ~wild
  /\ pc \in Empty => live = {} /\ tok = NoTok /\ keys = <<>>
  /\ pc \in Reading => IsReading(where, at, tok, keys, cap, live)
  /\ pc \in Settled => keys = <<>> /\ live = Held(tok)

LEMMA CopiesAre ==
  ASSUME NEW t, IsTok(t)
  PROVE  Copies(t) = CopiesAt(OwnedAt(t)) \cup Halved(t)
  <1> DEFINE A == { Copy(t.spelling[i]) : i \in { j \in 0 .. t.nVocab - 1 : t.spelling[j] # 0 } }
             B == CopiesAt(SpelledAt(t))
  <1>0. /\ DOMAIN t.spelling = 0 .. t.room.vocab - 1 /\ t.room.vocab \in Nat /\ t.nVocab \in Nat
        /\ t.nVocab <= t.room.vocab
        /\ \A i \in 0 .. t.room.vocab - 1 : t.spelling[i] # 0 => i < t.nVocab
    BY DEF IsTok
  <1>1. \A i : i \in DOMAIN t.spelling /\ t.spelling[i] # 0 <=> i \in 0 .. t.nVocab - 1 /\ t.spelling[i] # 0
    BY <1>0
  <1>2. A = B
    BY <1>1 DEF CopiesAt, SpelledAt
  <1>3. { Copy(t.added[k].content) : k \in DOMAIN t.added } = CopiesAt(AddedAt(t))
    BY DEF CopiesAt, AddedAt
  <1>4. CopiesAt(OwnedAt(t)) = B \cup CopiesAt(AddedAt(t))
    BY DEF CopiesAt, OwnedAt
  <1> HIDE DEF B
  <1>5. Copies(t) = A \cup Halved(t) \cup CopiesAt(AddedAt(t))
    BY <1>3 DEF Copies, Halved
  <1> HIDE DEF A
  <1> QED BY <1>2, <1>4, <1>5

\* A copy is none of the other objects, and is that of one position.
LEMMA CopyApart ==
  ASSUME NEW t, NEW p
  PROVE  /\ Copy(p) \notin Text \cup {<<"tok", "self">>} \cup Arrays(t) \cup Halved(t)
         /\ \A P : Copy(p) \in CopiesAt(P) <=> p \in P
  <1>1. \A a, b, c, d : <<a, b>> = <<c, d>> => a = c /\ b = d
    OBVIOUS
  <1>2. "copy" # "text" /\ "copy" # "tok" /\ "copy" # "array" /\ "copy" # "left" /\ "copy" # "right"
    OBVIOUS
  <1>3. Copy(p) = <<"copy", p>> /\ \A q : Copy(p) = Copy(q) => p = q
    BY <1>1 DEF Copy
  <1>4. Copy(p) \notin Text \cup {<<"tok", "self">>}
    BY <1>1, <1>2, <1>3 DEF Text
  <1>5. Copy(p) \notin Arrays(t)
    <2>1. <<"copy", p>> \notin Arrays(t)
      BY <1>1, <1>2, Zenon DEF Arrays
    <2> QED BY <1>3, <2>1
  <1>6. Copy(p) \notin Halved(t)
    BY <1>2, <1>3 DEF Halved
  <1> QED BY <1>3, <1>4, <1>5, <1>6 DEF CopiesAt

LEMMA HeldIs ==
  ASSUME NEW t, IsTok(t)
  PROVE  /\ Held(t) = {<<"tok", "self">>} \cup Arrays(t) \cup CopiesAt(OwnedAt(t)) \cup Halved(t)
         /\ \A p : Copy(p) \in Held(t) <=> p \in OwnedAt(t)
         /\ Text \cap Held(t) = {}
  <1>1. Held(t) = {<<"tok", "self">>} \cup Arrays(t) \cup CopiesAt(OwnedAt(t)) \cup Halved(t)
    BY CopiesAre DEF Held
  <1>2. \A p : Copy(p) \in Held(t) <=> p \in OwnedAt(t)
    BY <1>1, CopyApart
  <1>3. <<"text", "self">> \notin Held(t)
    <2>1. \A a, b, c, d : <<a, b>> = <<c, d>> => a = c /\ b = d
      OBVIOUS
    <2>2. "text" # "copy" /\ "text" # "tok" /\ "text" # "array" /\ "text" # "left" /\ "text" # "right"
      OBVIOUS
    <2>3. <<"text", "self">> \notin Arrays(t) \cup {<<"tok", "self">>}
      BY <2>1, <2>2, Zenon DEF Arrays
    <2>4. <<"text", "self">> \notin CopiesAt(OwnedAt(t))
      BY <2>1, <2>2, Zenon DEF CopiesAt, Copy
    <2>5. <<"text", "self">> \notin Halved(t)
      BY <2>2 DEF Halved
    <2> QED BY <1>1, <2>3, <2>4, <2>5
  <1> QED BY <1>1, <1>2, <1>3 DEF Text

LEMMA KeyCopiesAre ==
  ASSUME NEW ks
  PROVE  { Copy(ks[k]) : k \in DOMAIN ks } = CopiesAt(KeysAt(ks))
  BY DEF CopiesAt, KeysAt

LEMMA NoTokIsTok == IsTok(NoTok) /\ SpelledAt(NoTok) = {} /\ AddedAt(NoTok) = {} /\ Held(NoTok) = {<<"tok", "self">>}
  <1>1. <<>> \in [0 .. 0 - 1 -> Nat] /\ <<>> \in Seq(Nat) /\ <<>> \in Seq([content : Nat, id : Nat])
    <2>1. 0 .. 0 - 1 = {}
      OBVIOUS
    <2> QED BY <2>1, EmptySeq
  <1>2. Len(<<>>) = 0 /\ DOMAIN <<>> = {}
    OBVIOUS
  <1>3. IsTok(NoTok)
    BY <1>1, <1>2 DEF IsTok, NoTok, TokFields
  <1>4. SpelledAt(NoTok) = {} /\ AddedAt(NoTok) = {} /\ Halved(NoTok) = {}
    BY <1>2 DEF SpelledAt, AddedAt, Halved, NoTok
  <1>5. Arrays(NoTok) = {}
    BY DEF Arrays, NoTok
  <1>6. CopiesAt({}) = {} /\ OwnedAt(NoTok) = {}
    BY <1>4 DEF CopiesAt, OwnedAt
  <1> QED BY <1>3, <1>4, <1>5, <1>6, HeldIs

\* What is behind a position is behind a later one.
LEMMA BehindLater ==
  ASSUME NEW w, NEW p, NEW t, NEW ks, NEW c, NEW l, IsTok(t), IsReading(w, p, t, ks, c, l),
         NEW q \in Nat, p <= q
  PROVE  IsReading(w, q, t, ks, c, l)
  <1>1. OwnedAt(t) \subseteq Nat /\ KeysAt(ks) \subseteq Nat
    <2>1. \A i \in DOMAIN t.spelling : t.spelling[i] \in Nat
      BY DEF IsTok
    <2>2. \A k \in DOMAIN t.added : t.added[k].content \in Nat
      <3>1. t.added \in Seq([content : Nat, id : Nat])
        BY DEF IsTok
      <3>2. \A k \in DOMAIN t.added : t.added[k] \in [content : Nat, id : Nat]
        BY <3>1, LenProperties, ElementOfSeq
      <3> QED BY <3>2
    <2>3. \A k \in DOMAIN ks : ks[k] \in Nat
      BY DEF IsReading
    <2> QED BY <2>1, <2>2, <2>3 DEF OwnedAt, SpelledAt, AddedAt, KeysAt
  <1>2. p \in Nat \ {0} /\ Behind(t, ks, p)
    BY DEF IsReading
  <1>3. Behind(t, ks, q) /\ q \in Nat \ {0}
    <2>1. \A r \in Nat : r < p => r < q
      BY <1>2
    <2> QED BY <1>1, <1>2, <2>1 DEF Behind
  <1> QED BY <1>3 DEF IsReading

-----------------------------------------------------------------------------
(* The steps of the loader.                                                *)

\* A table is entered when it has no room yet.
EntersOnce == \A w \in Tables : where # w /\ where' = w => tok.room[w] = 0

\* What is live while the artifact is parsed and hashed.
LEMMA BusyHolds ==
  ASSUME ArtifactInv, pc \in Reading \cup Settled
  PROVE  live = Held(tok) \cup CopiesAt(KeysAt(keys)) \cup (live \cap Text)
  <1>1. CASE pc \in Reading
    BY <1>1 DEF ArtifactInv, IsReading
  <1>2. CASE pc \in Settled
    <2>1. live = Held(tok) /\ CopiesAt(KeysAt(keys)) = {}
      BY <1>2 DEF ArtifactInv, CopiesAt, KeysAt
    <2> QED BY <2>1
  <1> QED BY <1>1, <1>2

\* A failure releases all of it.
LEMMA FailKeeps ==
  ASSUME ArtifactInv, pc \in Reading \cup Settled, UNCHANGED <<session, text>>,
         NEW t, NEW got, NEW rc, Fail(t, got, rc),
         Held(tok) \subseteq Held(t), Held(t) \subseteq Held(tok) \cup got, got \subseteq Held(t)
  PROVE  ArtifactInv'
  <1> DEFINE gone == Held(t) \cup (live \cap Text) \cup CopiesAt(KeysAt(keys))
  <1>1. Heap(got, gone) /\ pc' = "returned" /\ tok' = NoTok /\ keys' = <<>>
    BY KeyCopiesAre DEF Fail
  <1>2. live \cup got = gone
    BY BusyHolds
  <1> HIDE DEF gone
  <1>3. live' = {} /\ (wild' <=> wild)
    BY <1>1, <1>2 DEF Heap
  <1>4. pc' \in Empty /\ pc' \notin Reading /\ pc' \notin Settled
    BY <1>1 DEF Empty, Reading, Settled
  <1> QED BY <1>1, <1>3, <1>4, NoTokIsTok DEF ArtifactInv

LEMMA PlainFail ==
  ASSUME ArtifactInv, pc \in Reading \cup Settled, UNCHANGED <<session, text>>, NEW rc, Fail(tok, {}, rc)
  PROVE  ArtifactInv'
  BY FailKeeps

\* What goes on with the next item.
LEMMA NextItemKeeps ==
  ASSUME ArtifactInv, UNCHANGED <<session, text>>, NEW w, NEW p, NextItem(w, p),
         IsTok(tok'), ~wild', IsReading(w, p, tok', keys', cap', live')
  PROVE  ArtifactInv'
  <1>1. p \in Nat /\ p + 1 \in Nat /\ p <= p + 1
    BY DEF IsReading
  <1>2. IsReading(w, p + 1, tok', keys', cap', live')
    BY <1>1, BehindLater
  <1>3. /\ pc' \in Reading /\ pc' \notin Empty /\ pc' \notin Settled /\ where' = w
        /\ at' = p \/ at' = p + 1
    BY DEF NextItem, Reading, Empty, Settled
  <1>4. IsReading(where', at', tok', keys', cap', live')
    BY <1>2, <1>3
  <1> QED BY <1>3, <1>4 DEF ArtifactInv

\* The text is what was read of the artifact.
LEMMA TextOf ==
  ASSUME NEW s \in Sessions, NEW n \in s.read
  PROVE  IsText(SubSeq(s.artifact, 1, n)) /\ IsNumbered(SubSeq(s.artifact, 1, n))
  <1> DEFINE a == s.artifact
             S == { a[p] : p \in DOMAIN a }
             h == SubSeq(a, 1, n)
  <1>1. /\ a \in Seq(S) /\ s.read \subseteq 0 .. Len(a)
        /\ \A p \in DOMAIN a : IsA(a, p, "num") => a[p][2] \in Nat
    BY ArtifactAssumption
  <1> HIDE DEF a, S
  <1>2. n \in 0 .. Len(a) /\ DOMAIN a = 1 .. Len(a) /\ Len(a) \in Nat
    BY <1>1, LenProperties
  <1>3. h \in Seq(S) /\ Len(h) = n /\ \A i \in 1 .. n : h[i] = a[i]
    BY <1>1, <1>2, PrefixProperties
  <1> HIDE DEF h
  <1>4. DOMAIN h = 1 .. n /\ n \in Nat
    BY <1>2, <1>3, LenProperties
  <1>5. IsText(h)
    BY <1>3, <1>4 DEF IsText
  <1>6. ASSUME NEW p \in DOMAIN h, h[p][1] = "num" PROVE h[p][2] \in Nat
    <2>1. p \in DOMAIN a /\ h[p] = a[p]
      BY <1>2, <1>3, <1>4
    <2> QED BY <1>1, <1>6, <2>1 DEF IsA
  <1> QED BY <1>5, <1>6 DEF IsNumbered, h, a

LEMMA InitInv == ASSUME ArtifactInit PROVE ArtifactInv
  <1>1. IsText(<<>>) /\ IsNumbered(<<>>)
    BY DEF IsText, IsNumbered
  <1> QED BY <1>1, NoTokIsTok DEF ArtifactInit, ArtifactInv, Empty, Reading, Settled

LEMMA StepReadArtifact ==
  ASSUME ArtifactInv, NEW n \in session.read, ReadArtifact(n)
  PROVE  ArtifactInv'
  <1>0. /\ pc = "start" /\ live = {} /\ tok = NoTok /\ keys = <<>> /\ ~wild
        /\ UNCHANGED <<session, keys, cap, tok>>
    BY DEF ReadArtifact, ArtifactInv, Empty
  <1>1. CASE pc' = "returned" /\ (Heap({}, {}) \/ Heap(Text, Text)) /\ UNCHANGED text
    <2>1. live' = {} /\ ~wild'
      BY <1>0, <1>1 DEF Heap
    <2> QED BY <1>0, <1>1, <2>1 DEF ArtifactInv, Empty, Reading, Settled
  <1>2. CASE /\ text' = SubSeq(session.artifact, 1, n)
             /\ \/ pc' = "item" /\ where' = "top" /\ at' = 2 /\ Heap(Text \cup Held(NoTok), {})
                \/ pc' = "returned" /\ Heap(Text \cup Held(NoTok), Text \cup Held(NoTok))
    <2>1. IsText(text') /\ IsNumbered(text')
      BY <1>2, TextOf DEF ArtifactInv
    <2>2. CASE pc' = "item" /\ where' = "top" /\ at' = 2 /\ Heap(Text \cup Held(NoTok), {})
      <3>1. live' = Text \cup Held(NoTok) /\ ~wild'
        BY <1>0, <2>2 DEF Heap
      <3>2. CopiesAt(KeysAt(<<>>)) = {} /\ <<>> \in Seq(Nat) /\ Len(<<>>) = 0 /\ KeysAt(<<>>) = {}
        BY EmptySeq DEF CopiesAt, KeysAt
      <3>3. OneOwner(NoTok, <<>>) /\ Behind(NoTok, <<>>, 2)
        BY <3>2, NoTokIsTok DEF OneOwner, Behind, OwnedAt, NoTok
      <3>4. Depth["top"] = 0 /\ "top" \in DOMAIN Depth /\ "top" \notin Tables
        BY DEF Depth, Tables
      <3>5. IsReading("top", 2, NoTok, <<>>, cap', live')
        BY <3>1, <3>2, <3>3, <3>4 DEF IsReading
      <3> QED BY <1>0, <2>1, <2>2, <3>1, <3>5, NoTokIsTok DEF ArtifactInv, Empty, Reading, Settled
    <2>3. CASE pc' = "returned" /\ Heap(Text \cup Held(NoTok), Text \cup Held(NoTok))
      <3>1. live' = {} /\ ~wild'
        BY <1>0, <2>3 DEF Heap
      <3> QED BY <1>0, <2>1, <2>3, <3>1, NoTokIsTok DEF ArtifactInv, Empty, Reading, Settled
    <2> QED BY <1>2, <2>2, <2>3
  <1> QED BY <1>1, <1>2 DEF ReadArtifact

LEMMA StepSkipMember ==
  ASSUME ArtifactInv, pc \in Reading, UNCHANGED <<session, text>>, SkipMember
  PROVE  ArtifactInv'
  <1> DEFINE s == SkipTo(at + 2)
  <1>0. IsText(text) /\ at \in Nat /\ at + 2 \in Nat
    BY DEF ArtifactInv, IsReading
  <1>1. s \in Results /\ Forward(s, at + 2, Len(text) + 1)
    BY <1>0, SkipMoves DEF SkipTo
  <1> HIDE DEF s
  <1>2. CASE s.rc # "OK"
    <2>1. Fail(tok, {}, "BAD_JSON")
      BY <1>2 DEF SkipMember, s
    <2> QED BY <2>1, PlainFail
  <1>3. CASE s.rc = "OK"
    <2>1. NextItem(where, s.at) /\ Heap({}, {}) /\ UNCHANGED <<keys, cap, tok>>
      BY <1>3 DEF SkipMember, s
    <2>2. s.at \in Nat /\ at <= s.at
      BY <1>0, <1>1, <1>3 DEF Results, Forward
    <2>3. live' = live /\ ~wild'
      BY <2>1 DEF Heap, ArtifactInv
    <2>4. IsReading(where, s.at, tok, keys, cap, live)
      BY <2>2, BehindLater DEF ArtifactInv
    <2>5. IsTok(tok') /\ IsReading(where, s.at, tok', keys', cap', live')
      BY <2>1, <2>3, <2>4 DEF ArtifactInv
    <2> QED BY <2>1, <2>3, <2>5, NextItemKeeps
  <1> QED BY <1>2, <1>3

LEMMA StepEnterTable ==
  ASSUME ArtifactInv, pc \in Reading, UNCHANGED <<session, text>>, EntersOnce, NEW open,
         NEW w \in DOMAIN Depth, EnterTable(w, open), where # w, Depth[w] = Depth[where] + 1
  PROVE  ArtifactInv'
  <1>1. CASE ~At(text, at + 2, open)
    <2>1. Fail(tok, {}, "BAD_JSON")
      BY <1>1 DEF EnterTable
    <2> QED BY <2>1, PlainFail
  <1>2. CASE At(text, at + 2, open)
    <2>1. /\ pc' \in Reading /\ where' = w /\ at' = at + 3 /\ cap' = 0 /\ UNCHANGED tok
          /\ keys' = Append(keys, at) /\ Heap({Copy(at)}, {})
      BY <1>2 DEF EnterTable, Reading
    <2>2. IsReading(where, at, tok, keys, cap, live) /\ IsTok(tok)
      BY DEF ArtifactInv
    <2>3. at \in Nat /\ keys \in Seq(Nat) /\ Len(keys) \in Nat
      BY <2>2, LenProperties DEF IsReading
    <2>4. /\ keys' \in Seq(Nat) /\ Len(keys') = Len(keys) + 1 /\ keys'[Len(keys) + 1] = at
          /\ \A k \in 1 .. Len(keys) : keys'[k] = keys[k]
          /\ DOMAIN keys = 1 .. Len(keys) /\ DOMAIN keys' = 1 .. Len(keys) + 1
      BY <2>1, <2>3, AppendProperties, LenProperties
    <2>5. KeysAt(keys') = KeysAt(keys) \cup {at}
      BY <2>3, <2>4 DEF KeysAt
    <2>6. \A q \in OwnedAt(tok) \cup KeysAt(keys) : q < at
      BY <2>2 DEF IsReading, Behind
    <2>7. at \notin OwnedAt(tok) \cup KeysAt(keys)
      BY <2>3, <2>6
    <2>8. OneOwner(tok, keys')
      <3>1. ASSUME NEW j \in DOMAIN keys', NEW k \in DOMAIN keys', keys'[j] = keys'[k] PROVE j = k
        <4>1. \A i \in 1 .. Len(keys) : keys'[i] \in KeysAt(keys)
          BY <2>4 DEF KeysAt
        <4>2. CASE j = Len(keys) + 1 /\ k # j
          <5>1. k \in 1 .. Len(keys)
            BY <2>3, <2>4, <4>2
          <5> QED BY <2>4, <2>7, <3>1, <4>1, <4>2, <5>1
        <4>3. CASE k = Len(keys) + 1 /\ k # j
          <5>1. j \in 1 .. Len(keys)
            BY <2>3, <2>4, <4>3
          <5> QED BY <2>4, <2>7, <3>1, <4>1, <4>3, <5>1
        <4>4. CASE j # Len(keys) + 1 /\ k # Len(keys) + 1
          <5>1. j \in 1 .. Len(keys) /\ k \in 1 .. Len(keys)
            BY <2>3, <2>4, <4>4
          <5>2. keys[j] = keys[k]
            BY <2>4, <3>1, <5>1
          <5> QED BY <2>2, <2>4, <5>1, <5>2 DEF IsReading, OneOwner
        <4> QED BY <4>2, <4>3, <4>4
      <3>2. KeysAt(keys') \cap OwnedAt(tok) = {}
        BY <2>2, <2>5, <2>7 DEF IsReading, OneOwner
      <3>3. OneOwner(tok, keys)
        BY <2>2 DEF IsReading
      <3> QED BY <3>1, <3>2, <3>3 DEF OneOwner
    <2>9. Behind(tok, keys', at + 3)
      <3>1. IsReading(where, at + 3, tok, keys, cap, live)
        BY <2>2, <2>3, BehindLater
      <3> QED BY <2>3, <2>5, <3>1 DEF IsReading, Behind
    <2>10. live' = Held(tok) \cup CopiesAt(KeysAt(keys')) \cup Text /\ ~wild'
      <3>1. live' = live \cup {Copy(at)} /\ ~wild'
        BY <2>1 DEF Heap, ArtifactInv
      <3>2. CopiesAt(KeysAt(keys')) = CopiesAt(KeysAt(keys)) \cup {Copy(at)}
        BY <2>5 DEF CopiesAt
      <3> QED BY <2>2, <3>1, <3>2 DEF IsReading
    <2>11. Len(keys') = Depth[w]
      BY <2>2, <2>4 DEF IsReading
    <2>12. w \in Tables => tok.room[w] = 0
      BY <2>1 DEF EntersOnce
    <2>13. IsReading(w, at + 3, tok, keys', 0, live')
      BY <2>3, <2>4, <2>8, <2>9, <2>10, <2>11, <2>12 DEF IsReading
    <2>14. pc' \notin Empty /\ pc' \notin Settled
      BY <2>1 DEF Reading, Empty, Settled
    <2> QED BY <2>1, <2>2, <2>10, <2>13, <2>14 DEF ArtifactInv
  <1> QED BY <1>1, <1>2

LEMMA StepMember ==
  ASSUME ArtifactInv, EntersOnce, NEW mem \in BOOLEAN, Member(mem)
  PROVE  ArtifactInv'
  <1>0. pc \in Reading /\ UNCHANGED <<session, text>> /\ where \in {"top", "model"}
    BY DEF Member, Unmoved, Reading
  <1>1. CASE \E rc : Fail(tok, {}, rc)
    BY <1>0, <1>1, PlainFail
  <1>2. CASE SkipMember
    BY <1>0, <1>2, StepSkipMember
  <1>4. /\ {"model", "added", "vocab", "merges"} \subseteq DOMAIN Depth /\ Depth["top"] = 0
        /\ Depth["model"] = 1 /\ Depth["added"] = 1 /\ Depth["vocab"] = 2 /\ Depth["merges"] = 2
    BY DEF Depth
  <1>5. ASSUME NEW w \in {"model", "added"}, NEW open, EnterTable(w, open), where = "top" PROVE ArtifactInv'
    <2>1. w \in DOMAIN Depth /\ where # w /\ Depth[w] = Depth[where] + 1
      BY <1>4, <1>5
    <2> QED BY <1>0, <1>5, <2>1, StepEnterTable
  <1>6. ASSUME NEW w \in {"vocab", "merges"}, NEW open, EnterTable(w, open), where = "model" PROVE ArtifactInv'
    <2>1. w \in DOMAIN Depth /\ where # w /\ Depth[w] = Depth[where] + 1
      BY <1>4, <1>6
    <2> QED BY <1>0, <1>6, <2>1, StepEnterTable
  <1>7. \/ \E rc : Fail(tok, {}, rc)
        \/ where = "top" /\ (EnterTable("model", "{") \/ EnterTable("added", "["))
        \/ where = "model" /\ (EnterTable("vocab", "{") \/ EnterTable("merges", "["))
        \/ SkipMember
    BY DEF Member
  <1> QED BY <1>1, <1>2, <1>5, <1>6, <1>7

LEMMA StepEndTable ==
  ASSUME ArtifactInv, EndTable
  PROVE  ArtifactInv'
  <1>0. /\ pc \in Reading /\ UNCHANGED <<session, text>> /\ IsReading(where, at, tok, keys, cap, live)
        /\ IsTok(tok) /\ ~wild
    BY DEF EndTable, Unmoved, Reading, ArtifactInv
  <1>1. CASE ~At(text, at, Close[where])
    <2>1. Fail(tok, {}, "BAD_JSON")
      BY <1>1 DEF EndTable
    <2> QED BY <1>0, <2>1, PlainFail
  <1>2. CASE At(text, at, Close[where]) /\ where = "top"
    <2>1. pc' = "parsed" /\ Heap({}, Text) /\ UNCHANGED <<keys, tok>>
      BY <1>2 DEF EndTable
    <2>2. Len(keys) = 0 /\ keys \in Seq(Nat)
      BY <1>0, <1>2 DEF IsReading, Depth
    <2>3. keys = <<>>
      BY <2>2, EmptySeq
    <2>4. CopiesAt(KeysAt(keys)) = {}
      BY <2>3 DEF CopiesAt, KeysAt
    <2>5. live = Held(tok) \cup Text
      BY <1>0, <2>4 DEF IsReading
    <2>6. live' = Held(tok) /\ ~wild'
      BY <1>0, <2>1, <2>5, HeldIs DEF Heap
    <2>7. pc' \in Settled /\ pc' \notin Empty /\ pc' \notin Reading
      BY <2>1 DEF Settled, Empty, Reading
    <2> QED BY <1>0, <2>1, <2>3, <2>6, <2>7 DEF ArtifactInv
  <1>3. CASE At(text, at, Close[where]) /\ where # "top"
    <2> DEFINE n    == Len(keys)
               last == keys[n]
               ks   == SubSeq(keys, 1, n - 1)
    <2>1. NextItem(Holder[where], at + 1) /\ keys' = ks /\ Heap({}, {Copy(last)}) /\ UNCHANGED <<cap, tok>>
      BY <1>3 DEF EndTable
    <2>2. /\ where \in DOMAIN Depth \ {"top"} /\ Holder[where] \in DOMAIN Depth
          /\ Holder[where] \notin Tables /\ Depth[Holder[where]] = Depth[where] - 1 /\ Depth[where] \in Nat \ {0}
      BY <1>0, <1>3 DEF IsReading, Depth, Holder, Tables
    <2>3. keys \in Seq(Nat) /\ n \in Nat \ {0} /\ DOMAIN keys = 1 .. n /\ n = Depth[where]
      BY <1>0, <2>2, LenProperties DEF IsReading
    <2> HIDE DEF n
    <2>4. ks \in Seq(Nat) /\ Len(ks) = n - 1 /\ \A k \in 1 .. n - 1 : ks[k] = keys[k]
      <3>1. n - 1 \in 0 .. Len(keys)
        BY <2>3 DEF n
      <3> QED BY <2>3, <3>1, PrefixProperties
    <2> HIDE DEF ks, last
    <2>5. DOMAIN ks = 1 .. n - 1 /\ last = keys[n] /\ n \in DOMAIN keys
      BY <2>3, <2>4, LenProperties DEF last
    <2>6. OneOwner(tok, keys)
      BY <1>0 DEF IsReading
    <2>7. last \notin KeysAt(ks) /\ KeysAt(keys) = KeysAt(ks) \cup {last} /\ last \notin OwnedAt(tok)
      <3>1. \A k \in 1 .. n - 1 : k \in DOMAIN keys /\ k # n
        BY <2>3
      <3>2. last \notin KeysAt(ks)
        BY <2>4, <2>5, <2>6, <3>1 DEF KeysAt, OneOwner
      <3>3. KeysAt(keys) = KeysAt(ks) \cup {last}
        <4>1. \A x : x \in KeysAt(keys) <=> \E k \in 1 .. n : x = keys[k]
          BY <2>3 DEF KeysAt
        <4>2. \A x : x \in KeysAt(ks) <=> \E k \in 1 .. n - 1 : x = keys[k]
          BY <2>4, <2>5 DEF KeysAt
        <4>3. \A k : k \in 1 .. n <=> k \in 1 .. n - 1 \/ k = n
          BY <2>3
        <4> QED BY <2>5, <4>1, <4>2, <4>3
      <3> QED BY <2>6, <3>2, <3>3 DEF OneOwner
    <2>8. live' = Held(tok) \cup CopiesAt(KeysAt(ks)) \cup Text /\ ~wild'
      <3>1. Copy(last) \notin Held(tok) \cup CopiesAt(KeysAt(ks)) \cup Text
        BY <1>0, <2>7, CopyApart, HeldIs
      <3>2. CopiesAt(KeysAt(keys)) = CopiesAt(KeysAt(ks)) \cup {Copy(last)}
        BY <2>7 DEF CopiesAt
      <3>3. live = Held(tok) \cup CopiesAt(KeysAt(keys)) \cup Text
        BY <1>0 DEF IsReading
      <3> QED BY <1>0, <2>1, <3>1, <3>2, <3>3 DEF Heap
    <2>9. IsReading(Holder[where], at, tok, ks, cap, live')
      <3>1. OneOwner(tok, ks)
        <4>1. \A k \in DOMAIN ks : k \in DOMAIN keys /\ ks[k] = keys[k]
          BY <2>3, <2>4, <2>5
        <4> QED BY <2>6, <2>7, <4>1 DEF OneOwner
      <3>2. Behind(tok, ks, at) /\ at \in Nat \ {0}
        BY <1>0, <2>7 DEF IsReading, Behind
      <3> QED BY <2>2, <2>3, <2>4, <2>8, <3>1, <3>2 DEF IsReading
    <2>10. IsReading(Holder[where], at + 1, tok', keys', cap', live')
      <3>1. at \in Nat /\ at + 1 \in Nat /\ at <= at + 1
        BY <2>9 DEF IsReading
      <3> QED BY <1>0, <2>1, <2>9, <3>1, BehindLater
    <2> QED BY <1>0, <2>1, <2>8, <2>10, NextItemKeeps
  <1> QED BY <1>1, <1>2, <1>3

LEMMA StepCheckTables ==
  ASSUME ArtifactInv, CheckTables
  PROVE  ArtifactInv'
  <1>0. pc \in Settled /\ UNCHANGED <<session, text>>
    BY DEF CheckTables, Unmoved, Settled
  <1>1. CASE \E rc : Fail(tok, {}, rc)
    BY <1>0, <1>1, PlainFail
  <1>2. CASE pc' = "checked" /\ Heap({}, {}) /\ UNCHANGED <<keys, tok>>
    <2>1. pc' \in Settled /\ pc' \notin Empty /\ pc' \notin Reading
      BY <1>2 DEF Settled, Empty, Reading
    <2> QED BY <1>0, <1>2, <2>1 DEF ArtifactInv, Heap
  <1> QED BY <1>1, <1>2 DEF CheckTables

\* A hash table more.
LEMMA HashHeld ==
  ASSUME NEW t, IsTok(t), NEW v, v # <<>>
  PROVE  /\ IsTok([t EXCEPT !.vhash = v]) /\ IsTok([t EXCEPT !.mhash = v])
         /\ Held([t EXCEPT !.vhash = v]) = Held(t) \cup {<<"array", "vhash">>}
         /\ Held([t EXCEPT !.mhash = v]) = Held(t) \cup {<<"array", "mhash">>}
  <1> DEFINE u == [t EXCEPT !.vhash = v]
             w == [t EXCEPT !.mhash = v]
  <1>1. DOMAIN t = TokFields
    BY DEF IsTok
  <1>2. /\ DOMAIN u = TokFields /\ u.room = t.room /\ u.spelling = t.spelling /\ u.nVocab = t.nVocab
        /\ u.merges = t.merges /\ u.added = t.added /\ u.vhash = v /\ u.mhash = t.mhash
    BY <1>1 DEF TokFields
  <1>3. /\ DOMAIN w = TokFields /\ w.room = t.room /\ w.spelling = t.spelling /\ w.nVocab = t.nVocab
        /\ w.merges = t.merges /\ w.added = t.added /\ w.vhash = t.vhash /\ w.mhash = v
    BY <1>1 DEF TokFields
  <1> HIDE DEF u, w
  <1>4. IsTok(u) /\ IsTok(w)
    BY <1>2, <1>3 DEF IsTok
  <1>5. Copies(u) = Copies(t) /\ Copies(w) = Copies(t)
    BY <1>2, <1>3 DEF Copies
  <1>6. Arrays(u) = Arrays(t) \cup {<<"array", "vhash">>} /\ Arrays(w) = Arrays(t) \cup {<<"array", "mhash">>}
    BY <1>2, <1>3 DEF Arrays
  <1> QED BY <1>4, <1>5, <1>6 DEF Held, u, w

LEMMA StepHashVocab ==
  ASSUME ArtifactInv, NEW mem \in BOOLEAN, HashVocab(mem)
  PROVE  ArtifactInv'
  <1>0. pc \in Settled /\ UNCHANGED <<session, text>> /\ IsTok(tok) /\ ~wild /\ live = Held(tok) /\ keys = <<>>
    BY DEF HashVocab, Unmoved, Settled, ArtifactInv
  <1>1. CASE ~mem
    <2>1. Fail(tok, {}, "NOMEM")
      BY <1>1 DEF HashVocab
    <2> QED BY <1>0, <2>1, PlainFail
  <1>2. CASE mem
    <2> DEFINE hash == [id \in 0 .. tok.nVocab - 1 |-> StrHash(Spelling(tok, id))]
               f == Filled(tok.nVocab, hash)
    <2>1. /\ tok' = [tok EXCEPT !.vhash = f] /\ pc' = "hashed"
          /\ Heap({<<"array", "vhash">>}, {}) /\ UNCHANGED keys
      BY <1>2 DEF HashVocab
    <2>2. f # <<>>
      <3>1. tok.nVocab \in Nat
        BY <1>0 DEF IsTok
      <3> HIDE DEF hash
      <3> QED BY <3>1, FilledIs
    <2> HIDE DEF f
    <2>3. IsTok(tok') /\ Held(tok') = Held(tok) \cup {<<"array", "vhash">>}
      BY <1>0, <2>1, <2>2, HashHeld
    <2>4. live' = Held(tok') /\ ~wild'
      BY <1>0, <2>1, <2>3 DEF Heap
    <2>5. pc' \in Settled /\ pc' \notin Empty /\ pc' \notin Reading
      BY <2>1 DEF Settled, Empty, Reading
    <2> QED BY <1>0, <2>1, <2>3, <2>4, <2>5 DEF ArtifactInv
  <1> QED BY <1>1, <1>2

LEMMA StepHashMerges ==
  ASSUME ArtifactInv, NEW mem \in BOOLEAN, HashMerges(mem)
  PROVE  ArtifactInv'
  <1>0. pc \in Settled /\ UNCHANGED <<session, text>> /\ IsTok(tok) /\ ~wild /\ live = Held(tok) /\ keys = <<>>
    BY DEF HashMerges, Unmoved, Settled, ArtifactInv
  <1>1. CASE ~mem
    <2>1. Fail(tok, {}, "NOMEM")
      BY <1>1 DEF HashMerges
    <2> QED BY <1>0, <2>1, PlainFail
  <1>2. CASE mem
    <2> DEFINE hash == [k \in 0 .. Len(tok.merges) - 1 |-> PairHash(Pair(tok, k)[1], Pair(tok, k)[2])]
               f == Filled(Len(tok.merges), hash)
    <2>1. /\ tok' = [tok EXCEPT !.mhash = f] /\ pc' = "loaded"
          /\ Heap({<<"array", "mhash">>}, {}) /\ UNCHANGED keys
      BY <1>2 DEF HashMerges
    <2>2. f # <<>>
      <3>1. Len(tok.merges) \in Nat
        BY <1>0, LenProperties DEF IsTok
      <3> HIDE DEF hash
      <3> QED BY <3>1, FilledIs
    <2> HIDE DEF f
    <2>3. IsTok(tok') /\ Held(tok') = Held(tok) \cup {<<"array", "mhash">>}
      BY <1>0, <2>1, <2>2, HashHeld
    <2>4. live' = Held(tok') /\ ~wild'
      BY <1>0, <2>1, <2>3 DEF Heap
    <2>5. pc' \in Settled /\ pc' \notin Empty /\ pc' \notin Reading
      BY <2>1 DEF Settled, Empty, Reading
    <2> QED BY <1>0, <2>1, <2>3, <2>4, <2>5 DEF ArtifactInv
  <1> QED BY <1>1, <1>2

LEMMA StepDecode ==
  ASSUME ArtifactInv, NEW ids, NEW room, Decode(ids, room)
  PROVE  ArtifactInv'
  <1>1. pc \in Settled /\ pc' \in Settled /\ pc' \notin Empty /\ pc' \notin Reading
    BY DEF Decode, Settled, Empty, Reading
  <1> QED BY <1>1 DEF Decode, ArtifactInv, heapVars

LEMMA StepTokFree == ASSUME ArtifactInv, TokFree PROVE ArtifactInv'
  <1>1. /\ pc \in Settled /\ pc' \in Empty /\ pc' \notin Settled /\ pc' \notin Reading
        /\ tok' = NoTok /\ Heap({}, Held(tok)) /\ UNCHANGED <<session, text, keys>>
    BY DEF TokFree, Settled, Empty, Reading
  <1>2. live' = {} /\ ~wild'
    BY <1>1 DEF ArtifactInv, Heap
  <1> QED BY <1>1, <1>2, NoTokIsTok DEF ArtifactInv

-----------------------------------------------------------------------------
(* The items of the tables.                                                *)

\* The array of a table that has room.
LEMMA ArraysGrow ==
  ASSUME NEW t, NEW u, IsTok(t), NEW a \in Tables, NEW n \in Nat \ {0},
         u.room = [t.room EXCEPT ![a] = n], u.vhash = t.vhash, u.mhash = t.mhash
  PROVE  Arrays(u) = Arrays(t) \cup {<<"array", a>>}
  <1>1. /\ DOMAIN t.room = Tables /\ DOMAIN u.room = Tables
        /\ \A b \in Tables : u.room[b] = IF b = a THEN n ELSE t.room[b]
    BY DEF IsTok, Tables
  <1> DEFINE A(x) == { <<"array", b>> : b \in { c \in DOMAIN x.room : x.room[c] > 0 } }
             H(x) == (IF x.vhash # <<>> THEN {<<"array", "vhash">>} ELSE {})
                     \cup (IF x.mhash # <<>> THEN {<<"array", "mhash">>} ELSE {})
  <1>2. A(u) = A(t) \cup {<<"array", a>>}
    <2>1. n > 0
      OBVIOUS
    <2>2. \A b : b \in DOMAIN u.room /\ u.room[b] > 0 <=> (b \in DOMAIN t.room /\ t.room[b] > 0) \/ b = a
      BY <1>1, <2>1
    <2> QED BY <2>2
  <1>3. H(u) = H(t)
    OBVIOUS
  <1>4. Arrays(u) = A(u) \cup H(u) /\ Arrays(t) = A(t) \cup H(t)
    BY DEF Arrays
  <1> HIDE DEF A, H
  <1> QED BY <1>2, <1>3, <1>4

\* A spelling is written into the vocabulary, over the one its id had.
Roomier(t, room) == [i \in 0 .. room - 1 |-> IF i < t.room.vocab THEN t.spelling[i] ELSE 0]
Spelled(t, room, kept, id, p) ==
  [t EXCEPT !.room.vocab = room, !.spelling = [kept EXCEPT ![id] = p],
            !.nVocab = IF id + 1 > @ THEN id + 1 ELSE @]

LEMMA VocabGrows ==
  ASSUME NEW t, IsTok(t), NEW ks, OneOwner(t, ks), NEW p \in Nat \ {0}, Behind(t, ks, p),
         NEW id \in Nat, NEW room \in Nat, id + 1 <= room, t.room.vocab <= room, NEW kept, NEW u,
         kept = Roomier(t, room), u = Spelled(t, room, kept, id, p)
  PROVE  /\ IsTok(u) /\ OneOwner(u, ks) /\ u.room.vocab = room
         /\ OwnedAt(u) \subseteq OwnedAt(t) \cup {p}
         /\ kept[id] # 0 => kept[id] \in OwnedAt(t) /\ kept[id] \notin KeysAt(ks) /\ kept[id] # p
         /\ Held(u) = (Held(t) \ (IF kept[id] = 0 THEN {} ELSE {Copy(kept[id])}))
                      \cup {Copy(p), <<"array", "vocab">>}
  <1>1. /\ DOMAIN t = TokFields /\ DOMAIN t.room = Tables /\ t.room.vocab \in Nat /\ t.nVocab \in Nat
        /\ t.nVocab <= t.room.vocab /\ DOMAIN t.spelling = 0 .. t.room.vocab - 1
        /\ \A i \in 0 .. t.room.vocab - 1 : t.spelling[i] \in Nat /\ (i >= t.nVocab => t.spelling[i] = 0)
    <2>1. /\ DOMAIN t = TokFields /\ t.room \in [vocab : Nat, merges : Nat, added : Nat]
          /\ t.spelling \in [0 .. t.room.vocab - 1 -> Nat] /\ t.nVocab \in 0 .. t.room.vocab
          /\ \A i \in t.nVocab .. t.room.vocab - 1 : t.spelling[i] = 0
      BY DEF IsTok
    <2>2. DOMAIN t.room = Tables /\ t.room.vocab \in Nat
      BY <2>1 DEF Tables
    <2>3. t.nVocab \in Nat /\ t.nVocab <= t.room.vocab
      BY <2>1, <2>2
    <2>4. DOMAIN t.spelling = 0 .. t.room.vocab - 1
      BY <2>1
    <2>5. ASSUME NEW i \in 0 .. t.room.vocab - 1
          PROVE  t.spelling[i] \in Nat /\ (i >= t.nVocab => t.spelling[i] = 0)
      <3>1. t.spelling[i] \in Nat
        BY <2>1
      <3>2. i >= t.nVocab => i \in t.nVocab .. t.room.vocab - 1
        BY <2>2, <2>3
      <3> QED BY <2>1, <3>1, <3>2
    <2> QED BY <2>1, <2>2, <2>3, <2>4, <2>5
  <1>2. /\ DOMAIN u = TokFields /\ u.room = [t.room EXCEPT !["vocab"] = room]
        /\ u.spelling = [kept EXCEPT ![id] = p]
        /\ u.nVocab = (IF id + 1 > t.nVocab THEN id + 1 ELSE t.nVocab)
        /\ u.merges = t.merges /\ u.added = t.added /\ u.vhash = t.vhash /\ u.mhash = t.mhash
    BY <1>1 DEF TokFields, Spelled
  <1>3. /\ u.room.vocab = room /\ u.room.merges = t.room.merges /\ u.room.added = t.room.added
        /\ u.room \in [vocab : Nat, merges : Nat, added : Nat]
    <2>1. t.room \in [vocab : Nat, merges : Nat, added : Nat]
      BY DEF IsTok
    <2> QED BY <1>2, <2>1
  <1>4. /\ DOMAIN kept = 0 .. room - 1 /\ id \in 0 .. room - 1
        /\ \A i \in 0 .. room - 1 :
             /\ kept[i] = IF i < t.room.vocab THEN t.spelling[i] ELSE 0
             /\ u.spelling[i] = IF i = id THEN p ELSE kept[i]
        /\ DOMAIN u.spelling = 0 .. room - 1
    <2>1. kept = [i \in 0 .. room - 1 |-> IF i < t.room.vocab THEN t.spelling[i] ELSE 0]
      BY DEF Roomier
    <2>2. id \in 0 .. room - 1
      OBVIOUS
    <2> QED BY <1>2, <2>1, <2>2
  <1>5. ASSUME NEW i \in 0 .. room - 1
        PROVE  /\ kept[i] \in Nat /\ (kept[i] # 0 => i \in DOMAIN t.spelling /\ t.spelling[i] = kept[i])
               /\ (i >= t.nVocab => kept[i] = 0)
    BY <1>1, <1>4
  <1>6. IsTok(u)
    <2>1. u.spelling \in [0 .. u.room.vocab - 1 -> Nat]
      <3>1. \A i \in 0 .. room - 1 : u.spelling[i] \in Nat
        BY <1>4, <1>5
      <3>2. u.spelling = [i \in 0 .. room - 1 |-> u.spelling[i]]
        BY <1>2, <1>4
      <3> QED BY <1>3, <3>1, <3>2
    <2>2. u.nVocab \in 0 .. u.room.vocab
      BY <1>1, <1>2, <1>3
    <2>3. \A i \in u.nVocab .. u.room.vocab - 1 : u.spelling[i] = 0
      <3>1. u.nVocab \in Nat /\ id < u.nVocab /\ t.nVocab <= u.nVocab
        BY <1>1, <1>2
      <3>2. \A i \in u.nVocab .. room - 1 : i \in 0 .. room - 1 /\ i # id /\ i >= t.nVocab
        BY <1>1, <3>1
      <3> QED BY <1>3, <1>4, <1>5, <3>2
    <2> QED BY <1>2, <1>3, <2>1, <2>2, <2>3 DEF IsTok
  <1>7. \A q \in OwnedAt(t) \cup KeysAt(ks) : q # p
    BY DEF Behind
  <1>8. \A i \in DOMAIN t.spelling : t.spelling[i] # 0 => t.spelling[i] \in SpelledAt(t)
    BY DEF SpelledAt
  <1>9. kept[id] # 0 => kept[id] \in SpelledAt(t) /\ kept[id] \in OwnedAt(t) /\ kept[id] \notin KeysAt(ks) /\ kept[id] # p
    BY <1>4, <1>5, <1>7, <1>8 DEF OneOwner, OwnedAt
  <1>10. SpelledAt(u) = (SpelledAt(t) \ {kept[id]}) \cup {p}
    <2>1. ASSUME NEW q \in SpelledAt(u) PROVE q \in (SpelledAt(t) \ {kept[id]}) \cup {p}
      <3>1. PICK i \in 0 .. room - 1 : q = u.spelling[i] /\ q # 0
        BY <1>4 DEF SpelledAt
      <3>2. CASE i = id
        BY <1>4, <3>1, <3>2
      <3>3. CASE i # id
        <4>1. q = kept[i]
          BY <1>4, <3>1, <3>3
        <4>2. i \in DOMAIN t.spelling /\ t.spelling[i] = q
          BY <1>5, <3>1, <4>1
        <4>3. kept[id] # q
          <5> SUFFICES ASSUME kept[id] = q PROVE FALSE
            OBVIOUS
          <5>1. id \in DOMAIN t.spelling /\ t.spelling[id] = q
            BY <1>4, <1>5, <3>1
          <5> QED BY <3>1, <3>3, <4>2, <5>1 DEF OneOwner
        <4> QED BY <1>8, <3>1, <4>2, <4>3
      <3> QED BY <3>2, <3>3
    <2>2. ASSUME NEW q \in SpelledAt(t), q # kept[id] PROVE q \in SpelledAt(u)
      <3>1. PICK i \in 0 .. t.room.vocab - 1 : q = t.spelling[i] /\ q # 0
        BY <1>1 DEF SpelledAt
      <3>2. i \in 0 .. room - 1 /\ i < t.room.vocab
        BY <1>1
      <3>3. kept[i] = q
        BY <1>4, <3>1, <3>2
      <3>4. u.spelling[i] = q /\ i \in DOMAIN u.spelling
        BY <1>4, <2>2, <3>2, <3>3
      <3> QED BY <3>1, <3>4 DEF SpelledAt
    <2>3. p \in SpelledAt(u)
      BY <1>4 DEF SpelledAt
    <2> QED BY <2>1, <2>2, <2>3
  <1>11. AddedAt(u) = AddedAt(t) /\ Halved(u) = Halved(t)
    BY <1>2 DEF AddedAt, Halved
  <1>12. OwnedAt(u) = (OwnedAt(t) \ (IF kept[id] = 0 THEN {} ELSE {kept[id]})) \cup {p}
    <2>1. kept[id] # 0 => kept[id] \notin AddedAt(t)
      BY <1>9 DEF OneOwner
    <2>2. 0 \notin SpelledAt(t)
      BY DEF SpelledAt
    <2> QED BY <1>10, <1>11, <2>1, <2>2 DEF OwnedAt
  <1>13. OneOwner(u, ks)
    <2>1. ASSUME NEW i \in DOMAIN u.spelling, NEW j \in DOMAIN u.spelling, u.spelling[i] = u.spelling[j], u.spelling[i] # 0
          PROVE  i = j
      <3>1. \A k \in 0 .. room - 1 : k # id /\ u.spelling[k] # 0 =>
              k \in DOMAIN t.spelling /\ t.spelling[k] = u.spelling[k] /\ u.spelling[k] # p
        BY <1>4, <1>5, <1>7, <1>8 DEF OwnedAt
      <3>2. i \in 0 .. room - 1 /\ j \in 0 .. room - 1
        BY <1>4
      <3>3. CASE i = id \/ j = id
        BY <1>4, <2>1, <3>1, <3>2, <3>3
      <3>4. CASE i # id /\ j # id
        BY <2>1, <3>1, <3>2, <3>4 DEF OneOwner
      <3> QED BY <3>3, <3>4
    <2>2. SpelledAt(u) \cap AddedAt(u) = {}
      <3>1. p \notin AddedAt(t)
        BY <1>7 DEF OwnedAt
      <3> QED BY <1>10, <1>11, <3>1 DEF OneOwner
    <2>3. KeysAt(ks) \cap OwnedAt(u) = {}
      BY <1>7, <1>12 DEF OneOwner
    <2> QED BY <2>1, <2>2, <2>3 DEF OneOwner
  <1>14. Held(u) = (Held(t) \ (IF kept[id] = 0 THEN {} ELSE {Copy(kept[id])})) \cup {Copy(p), <<"array", "vocab">>}
    <2> DEFINE R == IF kept[id] = 0 THEN {} ELSE {kept[id]}
    <2>0. OwnedAt(u) = (OwnedAt(t) \ R) \cup {p}
      BY <1>12
    <2>r. CopiesAt(R) = IF kept[id] = 0 THEN {} ELSE {Copy(kept[id])}
      BY DEF CopiesAt
    <2> HIDE DEF R
    <2>1. CopiesAt(OwnedAt(u)) = (CopiesAt(OwnedAt(t)) \ CopiesAt(R)) \cup {Copy(p)}
      <3>1. \A x : x \in CopiesAt(OwnedAt(u)) <=> \E q \in OwnedAt(u) : x = Copy(q)
        BY DEF CopiesAt
      <3>2. \A x : x \in CopiesAt(OwnedAt(t)) <=> \E q \in OwnedAt(t) : x = Copy(q)
        BY DEF CopiesAt
      <3>3. \A q : Copy(q) \in CopiesAt(R) <=> q \in R
        BY CopyApart
      <3>4. ASSUME NEW x \in CopiesAt(OwnedAt(u))
            PROVE  x \in (CopiesAt(OwnedAt(t)) \ CopiesAt(R)) \cup {Copy(p)}
        <4>1. PICK q \in OwnedAt(u) : x = Copy(q)
          BY <3>1
        <4> QED BY <2>0, <3>2, <3>3, <4>1
      <3>5. ASSUME NEW x \in CopiesAt(OwnedAt(t)), x \notin CopiesAt(R)
            PROVE  x \in CopiesAt(OwnedAt(u))
        <4>1. PICK q \in OwnedAt(t) : x = Copy(q)
          BY <3>2
        <4> QED BY <2>0, <3>1, <3>3, <3>5, <4>1
      <3>6. Copy(p) \in CopiesAt(OwnedAt(u))
        BY <2>0, <3>1
      <3> QED BY <3>4, <3>5, <3>6
    <2>2. Arrays(u) = Arrays(t) \cup {<<"array", "vocab">>}
      <3>1. "vocab" \in Tables /\ room \in Nat \ {0}
        BY <1>4 DEF Tables
      <3> QED BY <1>2, <3>1, ArraysGrow
    <2>3. (Text \cup {<<"tok", "self">>} \cup Arrays(t) \cup Halved(t)) \cap CopiesAt(R) = {}
      BY CopyApart DEF CopiesAt
    <2>4. Held(u) = {<<"tok", "self">>} \cup Arrays(u) \cup CopiesAt(OwnedAt(u)) \cup Halved(u)
      BY <1>6, HeldIs
    <2>5. Held(t) = {<<"tok", "self">>} \cup Arrays(t) \cup CopiesAt(OwnedAt(t)) \cup Halved(t)
      BY HeldIs
    <2>6. Held(u) = (Held(t) \ CopiesAt(R)) \cup {Copy(p), <<"array", "vocab">>}
      BY <1>11, <2>1, <2>2, <2>3, <2>4, <2>5
    <2> QED BY <2>r, <2>6
  <1> QED BY <1>3, <1>6, <1>9, <1>12, <1>13, <1>14

\* A number that the scanner has read is a natural.
LEMMA NumberRead ==
  ASSUME NEW h, IsNumbered(h), NEW p, IsA(h, p, "num")
  PROVE  h[p][2] \in Nat
  BY DEF IsNumbered, IsA

LEMMA StepVocabEntry ==
  ASSUME ArtifactInv, NEW mem \in {"nothing", "name", "all"}, VocabEntry(mem)
  PROVE  ArtifactInv'
  <1>0. /\ pc \in Reading /\ UNCHANGED <<session, text>> /\ IsReading("vocab", at, tok, keys, cap, live)
        /\ IsTok(tok) /\ ~wild /\ IsNumbered(text)
    BY DEF VocabEntry, Unmoved, Reading, ArtifactInv
  <1>1. CASE \E rc : Fail(tok, {}, rc)
    BY <1>0, <1>1, PlainFail
  <1>2. CASE /\ ~\E rc : Fail(tok, {}, rc)
    <2> DEFINE id   == text[at + 2][2]
               room == IF id + 1 > cap THEN Doubled(IF cap = 0 THEN VocabCap ELSE cap, id + 1) ELSE cap
               kept == [i \in 0 .. room - 1 |-> IF i < cap THEN tok.spelling[i] ELSE 0]
               u    == [tok EXCEPT !.room.vocab = room, !.spelling = [kept EXCEPT ![id] = at],
                                   !.nVocab = IF id + 1 > @ THEN id + 1 ELSE @]
               R    == IF kept[id] = 0 THEN {} ELSE {Copy(kept[id])}
               got  == {Copy(at), <<"array", "vocab">>}
    <2>1. /\ IsA(text, at + 2, "num") /\ Stored(u, got, R, id, room)
          /\ cap' = room /\ NextItem("vocab", at + 3) /\ UNCHANGED keys
      BY <1>2 DEF VocabEntry
    <2>2. id \in Nat
      BY <1>0, <2>1, NumberRead
    <2>3. /\ cap = tok.room.vocab /\ cap \in Nat /\ at \in Nat \ {0} /\ VocabCap \in Nat \ {0}
          /\ OneOwner(tok, keys) /\ Behind(tok, keys, at)
          /\ live = Held(tok) \cup CopiesAt(KeysAt(keys)) \cup Text
      BY <1>0, ArtifactAssumption DEF IsReading, IsTok, Tables
    <2> HIDE DEF id
    <2>4. room \in Nat /\ id + 1 <= room /\ tok.room.vocab <= room
      <3>1. CASE id + 1 > cap
        <4> DEFINE first == IF cap = 0 THEN VocabCap ELSE cap
        <4>1. first \in Nat \ {0} /\ id + 1 \in Nat
          BY <2>2, <2>3
        <4> HIDE DEF first
        <4>2. Doubled(first, id + 1) \in Nat /\ Doubled(first, id + 1) >= id + 1
          BY <4>1, DoubledReaches
        <4>3. room = Doubled(first, id + 1)
          BY <3>1 DEF first
        <4> HIDE DEF room
        <4> QED BY <2>2, <2>3, <3>1, <4>2, <4>3
      <3>2. CASE ~(id + 1 > cap)
        BY <2>2, <2>3, <3>2
      <3> QED BY <3>1, <3>2
    <2> HIDE DEF room
    <2>5. kept = Roomier(tok, room)
      BY <2>3 DEF Roomier
    <2> HIDE DEF kept
    <2>6. u = Spelled(tok, room, kept, id, at)
      BY DEF Spelled
    <2> HIDE DEF u
    <2>7. /\ IsTok(u) /\ OneOwner(u, keys) /\ u.room.vocab = room
          /\ OwnedAt(u) \subseteq OwnedAt(tok) \cup {at}
          /\ kept[id] # 0 => kept[id] \in OwnedAt(tok) /\ kept[id] \notin KeysAt(keys) /\ kept[id] # at
          /\ Held(u) = (Held(tok) \ R) \cup got
      BY <1>0, <2>2, <2>3, <2>4, <2>5, <2>6, VocabGrows
    <2>8. R \subseteq Held(tok) /\ R \cap (CopiesAt(KeysAt(keys)) \cup Text \cup got) = {}
      <3>1. CASE kept[id] = 0
        BY <3>1
      <3>2. CASE kept[id] # 0
        <4>1. R = {Copy(kept[id])}
          BY <3>2
        <4>2. Copy(kept[id]) \in Held(tok)
          BY <1>0, <2>7, <3>2, HeldIs
        <4>3. Copy(kept[id]) \notin CopiesAt(KeysAt(keys)) \cup Text
          BY <2>7, <3>2, CopyApart
        <4>4. Copy(kept[id]) # Copy(at)
          <5>1. Copy(kept[id]) \notin CopiesAt({at})
            BY <2>7, <3>2, CopyApart
          <5> QED BY <5>1 DEF CopiesAt
        <4>5. Copy(kept[id]) # <<"array", "vocab">>
          <5>1. \A a, b, c, d : <<a, b>> = <<c, d>> => a = c /\ b = d
            OBVIOUS
          <5>2. "copy" # "array"
            OBVIOUS
          <5> QED BY <5>1, <5>2, Zenon DEF Copy
        <4> QED BY <4>1, <4>2, <4>3, <4>4, <4>5
      <3> QED BY <3>1, <3>2
    <2> HIDE DEF R, got
    <2>9. live' = Held(u) \cup CopiesAt(KeysAt(keys)) \cup Text /\ tok' = u /\ ~wild'
      <3>1. R \subseteq live
        BY <2>3, <2>8
      <3>2. ~(id >= room)
        BY <2>2, <2>4
      <3>3. live' = (live \cup got) \ R /\ tok' = u /\ wild' = (wild \/ ~(R \subseteq live) \/ id >= room)
        BY <2>1 DEF Stored
      <3>4. live' = Held(u) \cup CopiesAt(KeysAt(keys)) \cup Text
        BY <2>3, <2>7, <2>8, <3>3
      <3>5. ~wild'
        BY <1>0, <3>1, <3>2, <3>3
      <3> QED BY <3>3, <3>4, <3>5
    <2>10. Behind(u, keys, at + 3)
      <3>1. IsReading("vocab", at + 3, tok, keys, cap, live)
        BY <1>0, <2>3, BehindLater
      <3> QED BY <2>3, <2>7, <3>1 DEF IsReading, Behind
    <2>11. IsReading("vocab", at + 3, u, keys, room, live')
      <3>1. "vocab" \in DOMAIN Depth /\ keys \in Seq(Nat) /\ Len(keys) = Depth["vocab"]
        BY <1>0 DEF IsReading
      <3> QED BY <2>3, <2>7, <2>9, <2>10, <3>1 DEF IsReading
    <2>12. IsReading("vocab", at + 3, tok', keys', cap', live')
      BY <2>1, <2>9, <2>11
    <2> QED BY <1>0, <2>1, <2>7, <2>9, <2>12, NextItemKeeps
  <1> QED BY <1>1, <1>2

\* The room a parser makes for one item more.
LEMMA RoomForOne ==
  ASSUME cap \in Nat, NEW n \in Nat, n <= cap, NEW first \in Nat \ {0}
  PROVE  RoomFor(n, first) \in Nat \ {0} /\ RoomFor(n, first) >= n + 1
  BY DEF RoomFor

\* A merge is appended.
Merged(t, room, p) == [t EXCEPT !.room.merges = room, !.merges = Append(@, p)]

LEMMA MergesGrow ==
  ASSUME NEW t, IsTok(t), NEW room \in Nat \ {0}, room >= Len(t.merges) + 1, NEW p \in Nat, NEW u,
         u = Merged(t, room, p)
  PROVE  /\ IsTok(u) /\ u.room.merges = room /\ OwnedAt(u) = OwnedAt(t)
         /\ SpelledAt(u) = SpelledAt(t) /\ AddedAt(u) = AddedAt(t) /\ u.spelling = t.spelling
         /\ Held(u) = Held(t) \cup {<<"left", p>>, <<"right", p>>, <<"array", "merges">>}
  <1>1. /\ DOMAIN t = TokFields /\ DOMAIN t.room = Tables /\ t.merges \in Seq(Nat)
        /\ t.room \in [vocab : Nat, merges : Nat, added : Nat]
    BY DEF IsTok, Tables
  <1>2. /\ DOMAIN u = TokFields /\ u.room = [t.room EXCEPT !["merges"] = room]
        /\ u.merges = Append(t.merges, p) /\ u.spelling = t.spelling /\ u.nVocab = t.nVocab
        /\ u.added = t.added /\ u.vhash = t.vhash /\ u.mhash = t.mhash
    BY <1>1 DEF TokFields, Merged
  <1>3. /\ u.room.merges = room /\ u.room.vocab = t.room.vocab /\ u.room.added = t.room.added
        /\ u.room \in [vocab : Nat, merges : Nat, added : Nat]
    BY <1>1, <1>2
  <1>4. /\ u.merges \in Seq(Nat) /\ Len(u.merges) = Len(t.merges) + 1 /\ u.merges[Len(t.merges) + 1] = p
        /\ \A k \in 1 .. Len(t.merges) : u.merges[k] = t.merges[k]
        /\ DOMAIN t.merges = 1 .. Len(t.merges) /\ DOMAIN u.merges = 1 .. Len(t.merges) + 1
        /\ Len(t.merges) \in Nat
    BY <1>1, <1>2, AppendProperties, LenProperties
  <1>5. IsTok(u)
    <2>1. /\ t.spelling \in [0 .. t.room.vocab - 1 -> Nat] /\ t.nVocab \in 0 .. t.room.vocab
          /\ \A k \in t.nVocab .. t.room.vocab - 1 : t.spelling[k] = 0
          /\ t.added \in Seq([content : Nat, id : Nat]) /\ Len(t.added) <= t.room.added
      BY DEF IsTok
    <2>2. /\ u.spelling \in [0 .. u.room.vocab - 1 -> Nat] /\ u.nVocab \in 0 .. u.room.vocab
          /\ \A k \in u.nVocab .. u.room.vocab - 1 : u.spelling[k] = 0
      BY <1>2, <1>3, <2>1
    <2>3. Len(u.merges) <= u.room.merges
      BY <1>3, <1>4
    <2>4. u.added \in Seq([content : Nat, id : Nat]) /\ Len(u.added) <= u.room.added
      BY <1>2, <1>3, <2>1
    <2> QED BY <1>2, <1>3, <1>4, <2>2, <2>3, <2>4 DEF IsTok
  <1>6. SpelledAt(u) = SpelledAt(t) /\ AddedAt(u) = AddedAt(t) /\ OwnedAt(u) = OwnedAt(t)
    BY <1>2 DEF OwnedAt, SpelledAt, AddedAt
  <1>7. Halved(u) = Halved(t) \cup {<<"left", p>>, <<"right", p>>}
    <2> DEFINE M(x) == { x.merges[k] : k \in DOMAIN x.merges }
    <2>1. M(u) = M(t) \cup {p}
      <3>1. \A k : k \in DOMAIN u.merges <=> k \in DOMAIN t.merges \/ k = Len(t.merges) + 1
        BY <1>4
      <3> QED BY <1>4, <3>1
    <2>2. Halved(u) = {"left", "right"} \X M(u) /\ Halved(t) = {"left", "right"} \X M(t)
      BY DEF Halved
    <2> HIDE DEF M
    <2> QED BY <2>1, <2>2
  <1>8. Arrays(u) = Arrays(t) \cup {<<"array", "merges">>}
    BY <1>2, ArraysGrow DEF Tables
  <1> QED BY <1>2, <1>3, <1>5, <1>6, <1>7, <1>8, HeldIs

\* An added token is appended.
Added(t, room, c, i) == [t EXCEPT !.room.added = room, !.added = Append(@, [content |-> c, id |-> i])]

LEMMA AddedGrow ==
  ASSUME NEW t, IsTok(t), NEW ks, OneOwner(t, ks), NEW room \in Nat \ {0}, room >= Len(t.added) + 1,
         NEW c \in Nat, NEW i \in Nat, c \notin OwnedAt(t) \cup KeysAt(ks), NEW u, u = Added(t, room, c, i)
  PROVE  /\ IsTok(u) /\ u.room.added = room /\ OneOwner(u, ks) /\ OwnedAt(u) = OwnedAt(t) \cup {c}
         /\ Held(u) = Held(t) \cup {Copy(c), <<"array", "added">>}
  <1> DEFINE new == [content |-> c, id |-> i]
             S   == [content : Nat, id : Nat]
  <1>1. /\ DOMAIN t = TokFields /\ DOMAIN t.room = Tables /\ t.added \in Seq(S)
        /\ t.room \in [vocab : Nat, merges : Nat, added : Nat] /\ new \in S /\ new.content = c
    BY DEF IsTok, Tables
  <1>2. /\ DOMAIN u = TokFields /\ u.room = [t.room EXCEPT !["added"] = room]
        /\ u.added = Append(t.added, new) /\ u.spelling = t.spelling /\ u.nVocab = t.nVocab
        /\ u.merges = t.merges /\ u.vhash = t.vhash /\ u.mhash = t.mhash
    BY <1>1 DEF TokFields, Added
  <1> HIDE DEF new
  <1>3. /\ u.room.added = room /\ u.room.vocab = t.room.vocab /\ u.room.merges = t.room.merges
        /\ u.room \in [vocab : Nat, merges : Nat, added : Nat]
    BY <1>1, <1>2
  <1>4. /\ u.added \in Seq(S) /\ Len(u.added) = Len(t.added) + 1 /\ u.added[Len(t.added) + 1] = new
        /\ \A k \in 1 .. Len(t.added) : u.added[k] = t.added[k]
        /\ DOMAIN t.added = 1 .. Len(t.added) /\ DOMAIN u.added = 1 .. Len(t.added) + 1
        /\ Len(t.added) \in Nat
    <2> HIDE DEF S
    <2> QED BY <1>1, <1>2, AppendProperties, LenProperties
  <1>5. IsTok(u)
    <2>1. /\ t.spelling \in [0 .. t.room.vocab - 1 -> Nat] /\ t.nVocab \in 0 .. t.room.vocab
          /\ \A k \in t.nVocab .. t.room.vocab - 1 : t.spelling[k] = 0
          /\ t.merges \in Seq(Nat) /\ Len(t.merges) <= t.room.merges
      BY DEF IsTok
    <2>2. /\ u.spelling \in [0 .. u.room.vocab - 1 -> Nat] /\ u.nVocab \in 0 .. u.room.vocab
          /\ \A k \in u.nVocab .. u.room.vocab - 1 : u.spelling[k] = 0
      BY <1>2, <1>3, <2>1
    <2>3. Len(u.added) <= u.room.added
      BY <1>3, <1>4
    <2>4. u.merges \in Seq(Nat) /\ Len(u.merges) <= u.room.merges
      BY <1>2, <1>3, <2>1
    <2> QED BY <1>2, <1>3, <1>4, <2>2, <2>3, <2>4 DEF IsTok
  <1>6. SpelledAt(u) = SpelledAt(t) /\ Halved(u) = Halved(t)
    BY <1>2 DEF SpelledAt, Halved
  <1>7. AddedAt(u) = AddedAt(t) \cup {c}
    <2>1. \A k : k \in DOMAIN u.added <=> k \in DOMAIN t.added \/ k = Len(t.added) + 1
      BY <1>4
    <2>2. \A k \in DOMAIN t.added : u.added[k].content = t.added[k].content
      BY <1>4
    <2>3. u.added[Len(t.added) + 1].content = c
      BY <1>1, <1>4
    <2> QED BY <2>1, <2>2, <2>3 DEF AddedAt
  <1>8. OwnedAt(u) = OwnedAt(t) \cup {c}
    BY <1>6, <1>7 DEF OwnedAt
  <1>9. OneOwner(u, ks)
    <2>1. SpelledAt(u) \cap AddedAt(u) = {} /\ KeysAt(ks) \cap OwnedAt(u) = {}
      BY <1>6, <1>7, <1>8 DEF OneOwner, OwnedAt
    <2> QED BY <1>2, <2>1 DEF OneOwner
  <1>10. Arrays(u) = Arrays(t) \cup {<<"array", "added">>}
    BY <1>2, ArraysGrow DEF Tables
  <1>11. CopiesAt(OwnedAt(u)) = CopiesAt(OwnedAt(t)) \cup {Copy(c)}
    BY <1>8 DEF CopiesAt
  <1> QED BY <1>3, <1>5, <1>6, <1>8, <1>9, <1>10, <1>11, HeldIs

\* What follows an item that replaced nothing.
LEMMA ItemKeeps ==
  ASSUME ArtifactInv, NEW a \in {"merges", "added"}, IsReading(a, at, tok, keys, cap, live),
         UNCHANGED <<session, text, keys>>, NEW u, NEW got, NEW q \in Nat, at <= q, NEW n \in Nat, NEW room \in Nat, n < room,
         Stored(u, got, {}, n, room), cap' = room, NextItem(a, q),
         IsTok(u), u.room[a] = room, OneOwner(u, keys), Held(u) = Held(tok) \cup got,
         \A p \in OwnedAt(u) \ OwnedAt(tok) : p < q
  PROVE  ArtifactInv'
  <1>1. tok' = u /\ live' = live \cup got /\ ~wild'
    <2>1. ~(n >= room) /\ ~wild
      BY DEF ArtifactInv
    <2> QED BY <2>1 DEF Stored
  <1>2. /\ a \in DOMAIN Depth /\ keys \in Seq(Nat) /\ Len(keys) = Depth[a]
        /\ live = Held(tok) \cup CopiesAt(KeysAt(keys)) \cup Text
    BY DEF IsReading
  <1>3. live' = Held(u) \cup CopiesAt(KeysAt(keys)) \cup Text
    BY <1>1, <1>2
  <1>4. IsReading(a, q, tok, keys, cap, live)
    BY BehindLater DEF ArtifactInv
  <1>5. Behind(u, keys, q) /\ q \in Nat \ {0}
    BY <1>4 DEF IsReading, Behind
  <1>6. IsReading(a, q, tok', keys', cap', live')
    BY <1>1, <1>2, <1>3, <1>5 DEF IsReading
  <1> QED BY <1>1, <1>6, NextItemKeeps

LEMMA StepMergeEntry ==
  ASSUME ArtifactInv, NEW mem \in {"nothing", "name", "array", "all"}, MergeEntry(mem)
  PROVE  ArtifactInv'
  <1> DEFINE n     == Len(tok.merges)
             room  == RoomFor(n, MergeCap)
             grown == [tok EXCEPT !.room.merges = room]
             got   == {<<"left", at>>, <<"right", at>>, <<"array", "merges">>}
  <1>0. /\ pc \in Reading /\ UNCHANGED <<session, text>> /\ IsReading("merges", at, tok, keys, cap, live)
        /\ IsTok(tok) /\ ~wild
    BY DEF MergeEntry, Unmoved, Reading, ArtifactInv
  <1>1. n \in Nat /\ n <= cap /\ cap \in Nat /\ MergeCap \in Nat \ {0} /\ at \in Nat \ {0}
    <2>1. tok.merges \in Seq(Nat) /\ n <= tok.room.merges /\ tok.room \in [vocab : Nat, merges : Nat, added : Nat]
      BY <1>0 DEF IsTok
    <2>2. cap = tok.room.merges /\ at \in Nat \ {0}
      BY <1>0 DEF IsReading, Tables
    <2>3. n \in Nat
      BY <2>1, LenProperties
    <2> QED BY <2>1, <2>2, <2>3, ArtifactAssumption
  <1> HIDE DEF n
  <1>2. room \in Nat \ {0} /\ room >= n + 1
    BY <1>1, RoomForOne
  <1> HIDE DEF room
  <1>3. \/ \E rc : Fail(tok, {}, rc)
        \/ Fail(grown, {<<"array", "merges">>}, "NOMEM")
        \/ /\ Stored([grown EXCEPT !.merges = Append(@, at)], got, {}, n, room)
           /\ cap' = room /\ NextItem("merges", at + 1) /\ UNCHANGED keys
    BY DEF MergeEntry, n, room
  <1>4. CASE \E rc : Fail(tok, {}, rc)
    BY <1>0, <1>4, PlainFail
  <1>5. CASE Fail(grown, {<<"array", "merges">>}, "NOMEM")
    <2>1. /\ grown.room = [tok.room EXCEPT !["merges"] = room] /\ grown.spelling = tok.spelling
          /\ grown.nVocab = tok.nVocab /\ grown.merges = tok.merges /\ grown.added = tok.added
          /\ grown.vhash = tok.vhash /\ grown.mhash = tok.mhash
      BY <1>0 DEF IsTok, TokFields
    <2> HIDE DEF grown
    <2>2. Copies(grown) = Copies(tok)
      BY <2>1 DEF Copies
    <2>3. Arrays(grown) = Arrays(tok) \cup {<<"array", "merges">>}
      BY <1>0, <1>2, <2>1, ArraysGrow DEF Tables
    <2>4. Held(grown) = Held(tok) \cup {<<"array", "merges">>}
      BY <2>2, <2>3 DEF Held
    <2> QED BY <1>0, <1>5, <2>4, FailKeeps
  <1>6. CASE /\ Stored([grown EXCEPT !.merges = Append(@, at)], got, {}, n, room)
             /\ cap' = room /\ NextItem("merges", at + 1) /\ UNCHANGED keys
    <2> DEFINE u == [grown EXCEPT !.merges = Append(@, at)]
    <2>1. u = Merged(tok, room, at)
      <3>1. DOMAIN tok = TokFields
        BY <1>0 DEF IsTok
      <3> QED BY <3>1 DEF Merged, TokFields
    <2>2. Stored(u, got, {}, n, room)
      BY <1>6
    <2> HIDE DEF u, grown
    <2>3. /\ IsTok(u) /\ u.room.merges = room /\ OwnedAt(u) = OwnedAt(tok)
          /\ SpelledAt(u) = SpelledAt(tok) /\ AddedAt(u) = AddedAt(tok) /\ u.spelling = tok.spelling
          /\ Held(u) = Held(tok) \cup got
      BY <1>0, <1>1, <1>2, <2>1, MergesGrow DEF n
    <2>4. OneOwner(u, keys)
      BY <1>0, <2>3 DEF IsReading, OneOwner
    <2>5. at + 1 \in Nat /\ at <= at + 1 /\ room \in Nat /\ n < room
      BY <1>1, <1>2
    <2> HIDE DEF got
    <2> QED BY <1>0, <1>1, <1>6, <2>2, <2>3, <2>4, <2>5, ItemKeeps
  <1> QED BY <1>3, <1>4, <1>5, <1>6

\* The last of the members of a name.
LEMMA LastOfIs ==
  ASSUME NEW h, NEW key, NEW n \in Nat, NEW begin \in SUBSET (0 .. n), NEW q \in begin, h[q][2] = key
  PROVE  LastOf(h, begin, key) \in begin /\ h[LastOf(h, begin, key)][2] = key
  <1> DEFINE S == { p \in begin : h[p][2] = key }
  <1>1. Max(S) \in S /\ \A m \in S : m <= Max(S)
    <2>1. S \in SUBSET (0 .. n) /\ S # {}
      OBVIOUS
    <2> HIDE DEF S
    <2> QED BY <2>1, MaxProperties
  <1>2. \E p \in begin : h[p][2] = key /\ \A m \in begin : h[m][2] = key => m <= p
    BY <1>1
  <1> QED BY <1>2 DEF LastOf

\* A member of an added token.
LEMMA AddedMemberReads ==
  ASSUME IsText(text), NEW p \in 1 .. Len(text) + 1
  PROVE  /\ AddedMember(p) \in Results /\ Forward(AddedMember(p), p, Len(text) + 1)
         /\ AddedMember(p).rc = "OK" /\ text[p][2] = Names.content =>
              AddedMember(p).at = p + 3 /\ IsA(text, p + 2, "str")
         /\ AddedMember(p).rc = "OK" /\ text[p][2] = Names.id =>
              AddedMember(p).at = p + 3 /\ IsA(text, p + 2, "num")
  <1>0. Len(text) \in Nat /\ p \in Nat /\ DOMAIN text = 1 .. Len(text)
    BY DEF IsText
  <1>1. Names.content # Names.id
    BY ArtifactAssumption
  <1>2. Reject("BAD_JSON") \in Results /\ Reject("BAD_JSON").rc # "OK"
    BY DEF Reject, Results
  <1>3. Read(p + 3) \in Results /\ Read(p + 3).rc = "OK" /\ Read(p + 3).at = p + 3
    BY <1>0 DEF Read, Results
  <1>4. \A kind : IsA(text, p + 2, kind) => p + 3 > p /\ p + 3 <= Len(text) + 1
    BY <1>0 DEF IsA
  <1>5. SkipTo(p + 2) \in Results /\ Forward(SkipTo(p + 2), p + 2, Len(text) + 1)
    BY <1>0, SkipMoves DEF SkipTo
  <1>6. CASE ~KeyAt(text, p)
    BY <1>2, <1>6 DEF AddedMember, Forward
  <1>7. CASE KeyAt(text, p) /\ text[p][2] = Names.content
    <2>1. AddedMember(p) = IF IsA(text, p + 2, "str") THEN Read(p + 3) ELSE Reject("BAD_JSON")
      BY <1>1, <1>7 DEF AddedMember
    <2> QED BY <1>1, <1>2, <1>3, <1>4, <1>7, <2>1 DEF Forward
  <1>8. CASE KeyAt(text, p) /\ text[p][2] = Names.id
    <2>1. AddedMember(p) = IF IsA(text, p + 2, "num") THEN Read(p + 3) ELSE Reject("BAD_JSON")
      BY <1>1, <1>8 DEF AddedMember
    <2> QED BY <1>1, <1>2, <1>3, <1>4, <1>8, <2>1 DEF Forward
  <1>9. CASE KeyAt(text, p) /\ text[p][2] # Names.content /\ text[p][2] # Names.id
    <2>1. AddedMember(p) = SkipTo(p + 2)
      BY <1>9 DEF AddedMember
    <2>2. Forward(SkipTo(p + 2), p, Len(text) + 1)
      BY <1>0, <1>5 DEF Forward, Results
    <2> QED BY <1>5, <1>9, <2>1, <2>2
  <1> QED BY <1>6, <1>7, <1>8, <1>9

LEMMA StepAddedEntry ==
  ASSUME ArtifactInv, NEW mem \in {"nothing", "name", "all"}, AddedEntry(mem)
  PROVE  ArtifactInv'
  <1> DEFINE n       == Len(tok.added)
             room    == RoomFor(n, AddedCap)
             member  == [p \in 1 .. Len(text) + 1 |-> AddedMember(p)]
             members == Members(text, at, member)
             value(m) == LastOf(text, members.begin, Names[m]) + 2
             u       == [tok EXCEPT !.room.added = room,
                           !.added = Append(@, [content |-> value("content"), id |-> text[value("id")][2]])]
             got     == {Copy(value("content")), <<"array", "added">>}
  <1>0. /\ pc \in Reading /\ UNCHANGED <<session, text>> /\ IsReading("added", at, tok, keys, cap, live)
        /\ IsTok(tok) /\ ~wild /\ IsText(text) /\ IsNumbered(text)
    BY DEF AddedEntry, Unmoved, Reading, ArtifactInv
  <1>1. n \in Nat /\ n <= cap /\ cap \in Nat /\ AddedCap \in Nat \ {0} /\ at \in Nat \ {0}
    <2>1. /\ tok.added \in Seq([content : Nat, id : Nat]) /\ n <= tok.room.added
          /\ tok.room \in [vocab : Nat, merges : Nat, added : Nat]
      BY <1>0 DEF IsTok
    <2>2. cap = tok.room.added /\ at \in Nat \ {0}
      BY <1>0 DEF IsReading, Tables
    <2>3. n \in Nat
      BY <2>1, LenProperties
    <2> QED BY <2>1, <2>2, <2>3, ArtifactAssumption
  <1> HIDE DEF n
  <1>2. room \in Nat \ {0} /\ room >= n + 1
    BY <1>1, RoomForOne
  <1> HIDE DEF room
  <1>3. \/ \E rc : Fail(tok, {}, rc)
        \/ /\ members.rc = "OK" /\ {Names.content, Names.id} \subseteq { text[p][2] : p \in members.begin }
           /\ Stored(u, got, {}, n, room)
           /\ cap' = room /\ NextItem("added", members.at) /\ UNCHANGED keys
    BY DEF AddedEntry, n, room
  <1>4. CASE \E rc : Fail(tok, {}, rc)
    BY <1>0, <1>4, PlainFail
  <1>5. CASE /\ members.rc = "OK" /\ {Names.content, Names.id} \subseteq { text[p][2] : p \in members.begin }
             /\ Stored(u, got, {}, n, room)
             /\ cap' = room /\ NextItem("added", members.at) /\ UNCHANGED keys
    <2> DEFINE to == Len(text) + 1
    <2>1. \A p \in 1 .. to : /\ member[p] \in Results /\ Forward(member[p], p, to) /\ member[p] = AddedMember(p)
      BY <1>0, AddedMemberReads
    <2> HIDE DEF member
    <2>2. ReadsOn(members, member, at + 1, to)
      BY <1>0, <1>1, <2>1, MembersMove
    <2> HIDE DEF members
    <2>3. /\ to \in Nat /\ members.at \in Nat /\ members.at > at /\ members.begin \in SUBSET Nat
          /\ \A b \in members.begin : b >= at + 1 /\ b <= to /\ member[b].rc = "OK" /\ member[b].at < members.at
      <3>1. to \in Nat
        BY <1>0 DEF IsText
      <3> QED BY <1>1, <1>5, <2>2, <3>1 DEF ReadsOn, Forward, MemberResults
    <2>4. members.begin \in SUBSET (0 .. to)
      BY <1>1, <2>3
    <2> DEFINE LastAt(m) == LastOf(text, members.begin, Names[m])
    <2>5. \A m \in {"content", "id"} : LastAt(m) \in members.begin /\ text[LastAt(m)][2] = Names[m]
      <3> TAKE m \in {"content", "id"}
      <3>1. PICK q \in members.begin : text[q][2] = Names[m]
        BY <1>5
      <3> DEFINE B == members.begin
                 key == Names[m]
      <3>2. B \in SUBSET (0 .. to) /\ to \in Nat /\ q \in B /\ text[q][2] = key
        BY <2>3, <2>4, <3>1
      <3>3. LastAt(m) = LastOf(text, B, key)
        OBVIOUS
      <3> HIDE DEF B, key, to, LastAt
      <3>4. LastOf(text, B, key) \in B /\ text[LastOf(text, B, key)][2] = key
        BY <3>2, LastOfIs
      <3> QED BY <3>3, <3>4 DEF B, key
    <2> HIDE DEF LastAt
    <2>6. value("content") = LastAt("content") + 2 /\ value("id") = LastAt("id") + 2
      BY DEF LastAt
    <2> DEFINE c == value("content")
               i == text[value("id")][2]
    <2>7. c \in Nat /\ at < c /\ c < members.at /\ i \in Nat
      <3>1. LastAt("content") \in 1 .. to /\ LastAt("id") \in 1 .. to
        BY <1>1, <2>3, <2>5
      <3>2. AddedMember(LastAt("content")).at = LastAt("content") + 3
        BY <1>0, <2>1, <2>3, <2>5, <3>1, AddedMemberReads
      <3>3. IsA(text, LastAt("id") + 2, "num")
        BY <1>0, <2>1, <2>3, <2>5, <3>1, AddedMemberReads
      <3>4. i \in Nat
        BY <1>0, <2>6, <3>3, NumberRead
      <3>5. LastAt("content") + 3 < members.at /\ LastAt("content") >= at + 1
        BY <2>1, <2>3, <2>5, <3>1, <3>2
      <3> QED BY <1>1, <2>3, <2>6, <3>1, <3>4, <3>5
    <2>8. u = Added(tok, room, c, i) /\ got = {Copy(c), <<"array", "added">>} /\ Stored(u, got, {}, n, room)
      BY <1>5 DEF Added
    <2> HIDE DEF u, got, c, i
    <2>9. OneOwner(tok, keys) /\ c \notin OwnedAt(tok) \cup KeysAt(keys)
      <3>1. OneOwner(tok, keys) /\ \A q \in OwnedAt(tok) \cup KeysAt(keys) : q < at
        BY <1>0 DEF IsReading, Behind
      <3> QED BY <1>1, <2>7, <3>1
    <2>10. /\ IsTok(u) /\ u.room.added = room /\ OneOwner(u, keys) /\ OwnedAt(u) = OwnedAt(tok) \cup {c}
           /\ Held(u) = Held(tok) \cup {Copy(c), <<"array", "added">>}
      BY <1>0, <1>2, <2>7, <2>8, <2>9, AddedGrow DEF n
    <2>11. Held(u) = Held(tok) \cup got /\ \A p \in OwnedAt(u) \ OwnedAt(tok) : p < members.at
      BY <2>7, <2>8, <2>10
    <2>12. room \in Nat /\ n < room /\ at <= members.at
      BY <1>1, <1>2, <2>3
    <2> QED BY <1>0, <1>1, <1>5, <2>3, <2>8, <2>10, <2>11, <2>12, ItemKeeps
  <1> QED BY <1>3, <1>4, <1>5

-----------------------------------------------------------------------------
(* The loader never parses a table a second time, whatever the artifact    *)
(* says: no step returns to a table that has room.                         *)
OnceSpec == ArtifactSpec /\ [][EntersOnce]_artifactVars

LEMMA StepInv ==
  ASSUME ArtifactInv, ArtifactNext, EntersOnce
  PROVE  ArtifactInv'
  <1>1. ASSUME NEW n \in session.read, ReadArtifact(n) PROVE ArtifactInv'
    BY <1>1, StepReadArtifact
  <1>2. ASSUME NEW mem \in BOOLEAN, Member(mem) \/ HashVocab(mem) \/ HashMerges(mem) PROVE ArtifactInv'
    BY <1>2, StepMember, StepHashVocab, StepHashMerges
  <1>3. CASE EndTable
    BY <1>3, StepEndTable
  <1>4. ASSUME NEW mem \in {"nothing", "name", "all"}, VocabEntry(mem) \/ AddedEntry(mem) PROVE ArtifactInv'
    BY <1>4, StepVocabEntry, StepAddedEntry
  <1>5. ASSUME NEW mem \in {"nothing", "name", "array", "all"}, MergeEntry(mem) PROVE ArtifactInv'
    BY <1>5, StepMergeEntry
  <1>6. CASE CheckTables
    BY <1>6, StepCheckTables
  <1>7. ASSUME NEW ids \in session.decode, NEW room \in session.room, Decode(ids, room) PROVE ArtifactInv'
    BY <1>7, StepDecode
  <1>8. CASE TokFree
    BY <1>8, StepTokFree
  <1> QED BY <1>1, <1>2, <1>3, <1>4, <1>5, <1>6, <1>7, <1>8 DEF ArtifactNext

\* At every step of loading, decoding and freeing, whatever fails: each copy of a
\* string has one owner, what is live is what the tokenizer, the names in use and the
\* text hold, and the room a parser counts is the room its table has.
THEOREM ArtifactInvariant == OnceSpec => []ArtifactInv
  <1>1. ArtifactInit => ArtifactInv
    BY InitInv
  <1>2. ArtifactInv /\ [ArtifactNext]_artifactVars /\ [EntersOnce]_artifactVars => ArtifactInv'
    <2>1. CASE UNCHANGED artifactVars
      BY <2>1 DEF artifactVars, heapVars, ArtifactInv
    <2>2. CASE ArtifactNext /\ EntersOnce
      BY <2>2, StepInv
    <2> QED BY <2>1, <2>2
  <1> QED BY <1>1, <1>2, PTL DEF OnceSpec, ArtifactSpec

\* A load that fails holds nothing, one that succeeds just what tok_free releases; no
\* copy is released twice, and no table's item is written past its array.
THEOREM LoadNeverLeaks == OnceSpec => []LoadHoldsTables
  <1>1. ArtifactInv => LoadHoldsTables
    <2> SUFFICES ASSUME ArtifactInv PROVE LoadHoldsTables
      OBVIOUS
    <2>1. ~wild /\ (pc \in {"start", "returned", "freed"} => live = {})
      BY DEF ArtifactInv, Empty
    <2>2. pc \in {"loaded", "decoded"} => live = Held(tok)
      BY DEF ArtifactInv, Settled
    <2> DEFINE K == { Copy(keys[k]) : k \in DOMAIN keys }
    <2>3. ASSUME pc \in {"item", "end"} PROVE live = Held(tok) \cup K \cup Text
      <3>1. IsReading(where, at, tok, keys, cap, live)
        BY <2>3 DEF ArtifactInv, Reading
      <3> QED BY <3>1, KeyCopiesAre DEF IsReading
    <2>4. ASSUME pc \in {"parsed", "checked", "hashed"} PROVE live = Held(tok) \cup K
      <3>1. live = Held(tok) /\ keys = <<>>
        BY <2>4 DEF ArtifactInv, Settled
      <3>2. K = {}
        BY <3>1
      <3> QED BY <3>1, <3>2
    <2> HIDE DEF K
    <2>5. pc \in {"item", "end", "parsed", "checked", "hashed"} =>
            live = Held(tok) \cup K \cup (IF pc \in {"item", "end"} THEN Text ELSE {})
      BY <2>3, <2>4
    <2> QED BY <2>1, <2>2, <2>5 DEF LoadHoldsTables, K
  <1> QED BY <1>1, ArtifactInvariant, PTL

-----------------------------------------------------------------------------
(* Open addressing.                                                        *)

LEMMA DivMod ==
  ASSUME NEW b \in Nat \ {0}, NEW x \in Nat
  PROVE  x % b \in 0 .. b - 1 /\ x \div b \in Nat /\ x = b * (x \div b) + (x % b)
  OBVIOUS
LEMMA ModOf ==
  ASSUME NEW b \in Nat \ {0}, NEW q \in Nat, NEW i \in 0 .. b - 1
  PROVE  (b * q + i) % b = i
  <1> DEFINE x == b * q + i
             y == x \div b
             r == x % b
  <1>1. x \in Nat
    OBVIOUS
  <1> HIDE DEF x
  <1>2. r \in 0 .. b - 1 /\ y \in Nat /\ x = b * y + r
    BY <1>1, DivMod
  <1> HIDE DEF y, r
  <1>3. b * q + i = b * y + r
    BY <1>2 DEF x
  <1>4. b * (q - y) = r - i
    BY <1>2, <1>3
  <1>5. \A k \in Int : k > 0 => b * k >= b
    OBVIOUS
  <1>6. ~(q - y > 0)
    BY <1>2, <1>4, <1>5
  <1>7. ~(y - q > 0)
    <2>1. b * (y - q) = i - r
      BY <1>2, <1>3
    <2> QED BY <1>2, <2>1, <1>5
  <1>8. q = y
    BY <1>2, <1>6, <1>7
  <1> QED BY <1>2, <1>3, <1>8 DEF x, r

\* From any place the slots are all reached.
LEMMA ProbeReaches ==
  ASSUME NEW size \in Nat \ {0}, NEW h \in Nat, NEW i \in 0 .. size - 1
  PROVE  \E d \in 0 .. size - 1 : (h + d) % size = i
  <1> DEFINE q == h \div size
             r == h % size
  <1>1. r \in 0 .. size - 1 /\ q \in Nat /\ h = size * q + r
    BY DivMod
  <1> HIDE DEF q, r
  <1>2. CASE i >= r
    <2>1. i - r \in 0 .. size - 1 /\ h + (i - r) = size * q + i
      BY <1>1, <1>2
    <2> QED BY <1>1, <2>1, ModOf
  <1>3. CASE i < r
    <2>1. size + i - r \in 0 .. size - 1
      BY <1>1, <1>3
    <2>2. h + (size + i - r) = size * (q + 1) + i
      BY <1>1
    <2>3. (size * (q + 1) + i) % size = i
      BY <1>1, ModOf
    <2> QED BY <2>1, <2>2, <2>3
  <1> QED BY <1>1, <1>2, <1>3

Stops(table, wanted, i) == table[i] \in {-1} \cup wanted
FirstStop(table, wanted, h, size, d) ==
  Stops(table, wanted, (h + d) % size) /\ \A e \in 0 .. d - 1 : ~Stops(table, wanted, (h + e) % size)

IsProbe(probe, table, h, wanted, size) ==
  probe = [k \in 0 .. size |-> LET i == (h + k) % size IN
             IF k = size THEN -1
             ELSE IF table[i] \in {-1} \cup wanted THEN i ELSE probe[k + 1]]

\* The slot is the first that stops the search.
LEMMA SlotIs ==
  ASSUME NEW size \in Nat \ {0}, NEW table, DOMAIN table = 0 .. size - 1, NEW h \in Nat, NEW wanted,
         NEW d \in 0 .. size - 1, FirstStop(table, wanted, h, size, d)
  PROVE  Slot(table, h, wanted) = (h + d) % size
  <1>0. Stops(table, wanted, (h + d) % size) /\ \A e \in 0 .. d - 1 : ~Stops(table, wanted, (h + e) % size)
    BY DEF FirstStop
  <1>1. Cardinality(DOMAIN table) = size
    <2>1. Cardinality(0 .. size - 1) = size
      BY FS_Interval
    <2> QED BY <2>1
  <1> DEFINE probe == CHOOSE p : IsProbe(p, table, h, wanted, size)
  <1>2. Slot(table, h, wanted) = probe[0]
    BY <1>1 DEF Slot, IsProbe
  <1>3. \E p : IsProbe(p, table, h, wanted, size)
    <2> DEFINE Go == { k \in 0 .. size - 1 : ~Stops(table, wanted, (h + k) % size) }
               nxt == [k \in 0 .. size |-> k + 1]
    <2>1. LooksLater(0, size, Go, nxt)
      BY DEF LooksLater
    <2> HIDE DEF nxt, Go
    <2>2. PICK g : JumpsTo(g, 0, size, Go, nxt)
      BY <2>1, JumpExists
    <2>3. /\ g \in [0 .. size -> 0 .. size]
          /\ \A k \in 0 .. size : g[k] = IF k \in Go THEN g[k + 1] ELSE k
      BY <2>2 DEF JumpsTo, nxt
    <2> DEFINE p == [k \in 0 .. size |-> IF g[k] = size THEN -1 ELSE (h + g[k]) % size]
    <2>4. ASSUME NEW k \in 0 .. size
          PROVE  p[k] = IF k = size THEN -1
                        ELSE IF table[(h + k) % size] \in {-1} \cup wanted THEN (h + k) % size ELSE p[k + 1]
      <3>1. CASE k = size
        <4>1. k \notin Go
          BY <3>1 DEF Go
        <4> QED BY <2>3, <3>1, <4>1
      <3>2. CASE k # size /\ k \in Go
        <4>1. k + 1 \in 0 .. size /\ g[k] = g[k + 1]
          BY <2>3, <3>2
        <4>2. p[k] = p[k + 1]
          BY <4>1
        <4>3. ~Stops(table, wanted, (h + k) % size)
          BY <3>2 DEF Go
        <4> QED BY <3>2, <4>2, <4>3 DEF Stops
      <3>3. CASE k # size /\ k \notin Go
        <4>1. g[k] = k /\ k \in 0 .. size - 1
          BY <2>3, <3>3
        <4>2. p[k] = (h + k) % size
          BY <3>3, <4>1
        <4>3. Stops(table, wanted, (h + k) % size)
          BY <3>3, <4>1 DEF Go
        <4> QED BY <3>3, <4>2, <4>3 DEF Stops
      <3> QED BY <3>1, <3>2, <3>3
    <2> DEFINE pp == [k \in 0 .. size |-> LET i == (h + k) % size IN
                        IF k = size THEN -1
                        ELSE IF table[i] \in {-1} \cup wanted THEN i ELSE p[k + 1]]
    <2>5. p = pp
      <3>1. \A k \in 0 .. size : p[k] = pp[k]
        <4> HIDE DEF p
        <4> QED BY <2>4
      <3>2. DOMAIN p = 0 .. size /\ DOMAIN pp = 0 .. size
        OBVIOUS
      <3>3. p = [k \in 0 .. size |-> p[k]] /\ pp = [k \in 0 .. size |-> pp[k]]
        OBVIOUS
      <3> HIDE DEF p, pp
      <3> QED BY <3>1, <3>3
    <2>6. IsProbe(p, table, h, wanted, size)
      <3> HIDE DEF p
      <3> QED BY <2>5 DEF IsProbe
    <2> QED BY <2>6
  <1>4. \A k \in 0 .. size : probe[k] = LET i == (h + k) % size IN
          IF k = size THEN -1
          ELSE IF table[i] \in {-1} \cup wanted THEN i ELSE probe[k + 1]
    <2>1. IsProbe(probe, table, h, wanted, size)
      BY <1>3
    <2> HIDE DEF probe
    <2> QED BY <2>1 DEF IsProbe
  <1> HIDE DEF probe
  <1> DEFINE S == { k \in 0 .. d : probe[k] = (h + d) % size }
  <1>5. ASSUME NEW k \in 0 .. d, \A j \in k + 1 .. d : j \in S PROVE k \in S
    <2>1. k \in 0 .. size /\ k # size
      OBVIOUS
    <2>2. CASE k = d
      BY <1>0, <1>4, <2>1, <2>2 DEF Stops
    <2>3. CASE k # d
      <3>1. k \in 0 .. d - 1 /\ k + 1 \in k + 1 .. d
        BY <2>3
      <3>2. probe[k] = probe[k + 1]
        BY <1>0, <1>4, <2>1, <3>1 DEF Stops
      <3>3. k + 1 \in S
        BY <1>5, <3>1
      <3> QED BY <3>2, <3>3
    <2> QED BY <2>2, <2>3
  <1>6. \A k \in 0 .. d : k \in S
    <2>1. d \in Int /\ 0 \in Int
      OBVIOUS
    <2> HIDE DEF S
    <2>2. \A k \in 0 .. d : (\A j \in k + 1 .. d : j \in S) => k \in S
      BY <1>5
    <2> QED BY <2>1, <2>2, DownwardInduction
  <1>7. 0 \in S
    <2>1. 0 \in 0 .. d
      OBVIOUS
    <2> QED BY <1>6, <2>1
  <1> QED BY <1>2, <1>7

\* The entries 0 .. k-1 in a table: each is where the probe from its hash gets to past
\* entries before it only.
Placed(t, k, size, hash) ==
  /\ t \in [0 .. size - 1 -> -1 .. k - 1]
  /\ \A j \in 0 .. k - 1 :
       \E d \in 0 .. size - 1 : /\ t[(hash[j] + d) % size] = j
                                /\ \A e \in 0 .. d - 1 : t[(hash[j] + e) % size] \in 0 .. j - 1
  /\ Cardinality({ i \in 0 .. size - 1 : t[i] # -1 }) = k

\* While there are more slots than entries, a search ends at an empty slot.
LEMMA EmptySlot ==
  ASSUME NEW size \in Nat \ {0}, NEW k \in Nat, k < size, NEW hash, NEW t, Placed(t, k, size, hash), NEW h \in Nat
  PROVE  \E d \in 0 .. size - 1 : /\ t[(h + d) % size] = -1
                                  /\ \A e \in 0 .. d - 1 : t[(h + e) % size] \in 0 .. k - 1
  <1>1. PICK i \in 0 .. size - 1 : t[i] = -1
    <2> SUFFICES ASSUME \A i \in 0 .. size - 1 : t[i] # -1 PROVE FALSE
      OBVIOUS
    <2>1. { i \in 0 .. size - 1 : t[i] # -1 } = 0 .. size - 1
      OBVIOUS
    <2>2. Cardinality(0 .. size - 1) = size
      BY FS_Interval
    <2>3. Cardinality({ i \in 0 .. size - 1 : t[i] # -1 }) = k
      BY DEF Placed
    <2>4. size = k
      BY <2>1, <2>2, <2>3
    <2> QED BY <2>4
  <1> DEFINE D == { d \in 0 .. size - 1 : t[(h + d) % size] = -1 }
  <1>2. D # {} /\ D \in SUBSET Nat
    <2>1. PICK d \in 0 .. size - 1 : (h + d) % size = i
      BY ProbeReaches
    <2>2. t[(h + d) % size] = -1
      BY <1>1, <2>1
    <2>3. d \in D
      BY <2>2
    <2>4. D \in SUBSET (0 .. size - 1)
      BY Zenon
    <2> HIDE DEF D
    <2> QED BY <2>3, <2>4
  <1>3. PICK d \in D : \A m \in D : d <= m
    <2> HIDE DEF D
    <2> QED BY <1>2, LeastElement
  <1>4. ASSUME NEW e \in 0 .. d - 1 PROVE t[(h + e) % size] \in 0 .. k - 1
    <2>1. e \in 0 .. size - 1 /\ e \notin D /\ h + e \in Nat
      BY <1>3
    <2>2. (h + e) % size \in 0 .. size - 1
      BY <2>1, DivMod
    <2>3. t[(h + e) % size] \in -1 .. k - 1 /\ t[(h + e) % size] # -1
      BY <2>1, <2>2 DEF Placed
    <2> QED BY <2>3
  <1> QED BY <1>3, <1>4

\* The next entry goes to the first empty slot from its hash.
LEMMA PlaceNext ==
  ASSUME NEW size \in Nat \ {0}, NEW k \in Nat, k < size, NEW hash, hash[k] \in Nat,
         NEW t, Placed(t, k, size, hash), \A j \in 0 .. k - 1 : hash[j] \in Nat
  PROVE  Placed([t EXCEPT ![Slot(t, hash[k], {})] = k], k + 1, size, hash)
  <1>0. t \in [0 .. size - 1 -> -1 .. k - 1] /\ DOMAIN t = 0 .. size - 1
    BY DEF Placed
  <1>1. PICK d \in 0 .. size - 1 : /\ t[(hash[k] + d) % size] = -1
                                   /\ \A e \in 0 .. d - 1 : t[(hash[k] + e) % size] \in 0 .. k - 1
    BY EmptySlot
  <1> DEFINE i == (hash[k] + d) % size
             u == [t EXCEPT ![i] = k]
  <1>2. Slot(t, hash[k], {}) = i
    <2>1. \A e \in 0 .. d - 1 : ~Stops(t, {}, (hash[k] + e) % size)
      <3> TAKE e \in 0 .. d - 1
      <3>1. t[(hash[k] + e) % size] \in 0 .. k - 1
        BY <1>1
      <3> QED BY <3>1 DEF Stops
    <2>2. FirstStop(t, {}, hash[k], size, d)
      BY <1>1, <2>1 DEF FirstStop, Stops
    <2> QED BY <1>0, <2>2, SlotIs
  <1>3. i \in 0 .. size - 1 /\ t[i] = -1
    BY <1>1, DivMod
  <1>4. /\ DOMAIN u = 0 .. size - 1 /\ u[i] = k /\ \A x \in 0 .. size - 1 : x # i => u[x] = t[x]
    BY <1>0, <1>3
  <1>5. u \in [0 .. size - 1 -> -1 .. k]
    <2>1. \A x \in 0 .. size - 1 : t[x] \in -1 .. k
      BY <1>0
    <2>2. k \in -1 .. k
      OBVIOUS
    <2> HIDE DEF i
    <2> QED BY <1>0, <2>1, <2>2
  <1> HIDE DEF i, u
  <1>6. ASSUME NEW h \in Nat, NEW e \in Nat, t[(h + e) % size] # -1
        PROVE  u[(h + e) % size] = t[(h + e) % size]
    <2>1. (h + e) % size \in 0 .. size - 1
      BY DivMod
    <2> QED BY <1>3, <1>4, <1>6, <2>1
  <1>7. ASSUME NEW j \in 0 .. k
        PROVE  \E c \in 0 .. size - 1 : /\ u[(hash[j] + c) % size] = j
                                        /\ \A e \in 0 .. c - 1 : u[(hash[j] + e) % size] \in 0 .. j - 1
    <2>1. CASE j = k
      <3>1. u[(hash[k] + d) % size] = k
        BY <1>4 DEF i
      <3>2. ASSUME NEW e \in 0 .. d - 1 PROVE u[(hash[k] + e) % size] \in 0 .. k - 1
        <4>1. t[(hash[k] + e) % size] \in 0 .. k - 1 /\ t[(hash[k] + e) % size] # -1 /\ e \in Nat
          BY <1>1
        <4> QED BY <1>6, <4>1
      <3> QED BY <2>1, <3>1, <3>2
    <2>2. CASE j # k
      <3>0. j \in 0 .. k - 1 /\ hash[j] \in Nat
        BY <2>2
      <3>1. PICK c \in 0 .. size - 1 : /\ t[(hash[j] + c) % size] = j
                                       /\ \A e \in 0 .. c - 1 : t[(hash[j] + e) % size] \in 0 .. j - 1
        BY <3>0 DEF Placed
      <3>2. u[(hash[j] + c) % size] = j
        <4>1. t[(hash[j] + c) % size] # -1 /\ c \in Nat
          BY <3>0, <3>1
        <4> QED BY <1>6, <3>0, <3>1, <4>1
      <3>3. ASSUME NEW e \in 0 .. c - 1 PROVE u[(hash[j] + e) % size] \in 0 .. j - 1
        <4>1. t[(hash[j] + e) % size] \in 0 .. j - 1 /\ t[(hash[j] + e) % size] # -1 /\ e \in Nat
          BY <3>1
        <4> QED BY <1>6, <3>0, <4>1
      <3> QED BY <3>2, <3>3
    <2> QED BY <2>1, <2>2
  <1>8. Cardinality({ x \in 0 .. size - 1 : u[x] # -1 }) = k + 1
    <2> DEFINE O == { x \in 0 .. size - 1 : t[x] # -1 }
    <2>1. { x \in 0 .. size - 1 : u[x] # -1 } = O \cup {i}
      BY <1>3, <1>4
    <2>2. i \notin O /\ O \in SUBSET (0 .. size - 1)
      BY <1>3
    <2>3. Cardinality(O) = k
      BY DEF Placed
    <2> HIDE DEF O
    <2>4. IsFiniteSet(O)
      <3>1. IsFiniteSet(0 .. size - 1)
        BY FS_Interval
      <3> QED BY <2>2, <3>1, FS_Subset
    <2> QED BY <2>1, <2>2, <2>3, <2>4, FS_AddElement
  <1>9. Placed(u, k + 1, size, hash)
    <2>1. k + 1 - 1 = k
      OBVIOUS
    <2> QED BY <1>5, <1>7, <1>8, <2>1 DEF Placed
  <1> QED BY <1>2, <1>9 DEF u

LEMMA FilledIsPlaced ==
  ASSUME NEW n \in Nat, NEW hash \in [0 .. n - 1 -> Nat]
  PROVE  Placed(Filled(n, hash), n, Buckets(n), hash)
  <1> DEFINE size == Buckets(n)
  <1>0. size \in Nat \ {0} /\ n < size
    <2>1. size \in Nat \ {0} /\ size >= 2 * n
      BY BucketsEnough
    <2> HIDE DEF size
    <2> QED BY <2>1
  <1>1. PICK g : IsFilling(g, n, hash) /\ Filled(n, hash) = g[n]
    BY FilledIs
  <1> HIDE DEF size
  <1>2. \A k \in 0 .. n : g[k] = IF k = 0 THEN [i \in 0 .. size - 1 |-> -1]
                                  ELSE [g[k - 1] EXCEPT ![Slot(g[k - 1], hash[k - 1], {})] = k - 1]
    BY <1>1 DEF IsFilling, size
  <1> DEFINE S == { k \in Nat : k <= n => Placed(g[k], k, size, hash) }
  <1>3. 0 \in S
    <2>1. g[0] = [i \in 0 .. size - 1 |-> -1]
      <3>1. 0 \in 0 .. n
        OBVIOUS
      <3> QED BY <1>2, <3>1
    <2>2. { i \in 0 .. size - 1 : g[0][i] # -1 } = {}
      BY <2>1
    <2>3. Cardinality({ i \in 0 .. size - 1 : g[0][i] # -1 }) = 0
      BY <2>2, FS_EmptySet
    <2>4. g[0] \in [0 .. size - 1 -> -1 .. 0 - 1]
      BY <2>1
    <2> QED BY <2>3, <2>4 DEF Placed
  <1>4. ASSUME NEW k \in Nat, k \in S PROVE k + 1 \in S
    <2> SUFFICES ASSUME k + 1 <= n PROVE Placed(g[k + 1], k + 1, size, hash)
      OBVIOUS
    <2>1. Placed(g[k], k, size, hash) /\ k < size /\ hash[k] \in Nat /\ \A j \in 0 .. k - 1 : hash[j] \in Nat
      BY <1>0, <1>4
    <2>2. k + 1 \in 0 .. n /\ k + 1 # 0 /\ (k + 1) - 1 = k
      OBVIOUS
    <2>3. g[k + 1] = [g[k] EXCEPT ![Slot(g[k], hash[k], {})] = k]
      BY <1>2, <2>2
    <2> QED BY <1>0, <2>1, <2>3, PlaceNext
  <1>5. n \in S
    <2> HIDE DEF S
    <2> QED BY <1>3, <1>4, Induction
  <1> QED BY <1>1, <1>5 DEF size

\* A lookup ends, at the first of the wanted entries or at an empty slot.
LEMMA LookupFinds ==
  ASSUME NEW n \in Nat, NEW hash \in [0 .. n - 1 -> Nat], NEW h \in Nat, NEW wanted \in SUBSET (0 .. n - 1),
         \A j \in wanted : hash[j] = h
  PROVE  LET t == Filled(n, hash)
             i == Slot(t, h, wanted)
         IN  i # -1 /\ t[i] = LeastOf(wanted)
  <1> DEFINE t == Filled(n, hash)
             size == Buckets(n)
  <1>0. size \in Nat \ {0} /\ n < size /\ Placed(t, n, size, hash)
    <2>1. size \in Nat \ {0} /\ size >= 2 * n
      BY BucketsEnough
    <2>2. Placed(t, n, size, hash)
      BY FilledIsPlaced
    <2> HIDE DEF size, t
    <2> QED BY <2>1, <2>2
  <1> HIDE DEF t, size
  <1>1. DOMAIN t = 0 .. size - 1
    BY <1>0 DEF Placed
  <1>2. CASE wanted = {}
    <2>1. PICK d \in 0 .. size - 1 : /\ t[(h + d) % size] = -1
                                     /\ \A e \in 0 .. d - 1 : t[(h + e) % size] \in 0 .. n - 1
      BY <1>0, EmptySlot
    <2>a. \A e \in 0 .. d - 1 : ~Stops(t, wanted, (h + e) % size)
      <3> TAKE e \in 0 .. d - 1
      <3>1. t[(h + e) % size] \in 0 .. n - 1
        BY <2>1
      <3> QED BY <1>2, <3>1 DEF Stops
    <2>2. FirstStop(t, wanted, h, size, d)
      BY <2>1, <2>a DEF FirstStop, Stops
    <2>3. Slot(t, h, wanted) = (h + d) % size
      BY <1>0, <1>1, <2>2, SlotIs
    <2>4. (h + d) % size # -1
      BY <1>0, DivMod
    <2> QED BY <1>2, <2>1, <2>3, <2>4 DEF LeastOf, t
  <1>3. CASE wanted # {}
    <2>1. PICK j \in wanted : \A m \in wanted : j <= m
      BY <1>3, LeastElement
    <2>2. j \in 0 .. n - 1 /\ hash[j] = h /\ \A m \in wanted : m \in Int
      OBVIOUS
    <2>3. LeastOf(wanted) = j
      <3>1. \A m \in wanted : (\A o \in wanted : m <= o) => m = j
        BY <2>1, <2>2
      <3> QED BY <1>3, <2>1, <3>1 DEF LeastOf
    <2>4. PICK d \in 0 .. size - 1 : /\ t[(h + d) % size] = j
                                     /\ \A e \in 0 .. d - 1 : t[(h + e) % size] \in 0 .. j - 1
      BY <1>0, <2>2 DEF Placed
    <2>5. Stops(t, wanted, (h + d) % size)
      BY <2>1, <2>4 DEF Stops
    <2>6. \A e \in 0 .. d - 1 : ~Stops(t, wanted, (h + e) % size)
      <3> SUFFICES ASSUME NEW e \in 0 .. d - 1, Stops(t, wanted, (h + e) % size) PROVE FALSE
        OBVIOUS
      <3>1. t[(h + e) % size] \in 0 .. j - 1
        BY <2>4
      <3> DEFINE x == t[(h + e) % size]
      <3>2. x \in {-1} \cup wanted /\ x \in 0 .. j - 1
        BY <3>1 DEF Stops
      <3> HIDE DEF x
      <3>3. x \in wanted /\ x < j
        BY <2>2, <3>2
      <3>4. j <= x
        BY <2>1, <3>3
      <3> QED BY <2>2, <3>2, <3>3, <3>4
    <2>7. Slot(t, h, wanted) = (h + d) % size
      <3>1. FirstStop(t, wanted, h, size, d)
        BY <2>5, <2>6 DEF FirstStop
      <3> QED BY <1>0, <1>1, <3>1, SlotIs
    <2>8. (h + d) % size # -1
      BY <1>0, DivMod
    <2> QED BY <2>3, <2>4, <2>7, <2>8 DEF t
  <1> QED BY <1>2, <1>3

-----------------------------------------------------------------------------
(* What the hash tables hold.                                              *)
VocabHashes(x, t) == [id \in 0 .. t.nVocab - 1 |-> StrHash(x[t.spelling[id]][2])]
MergeHalves(x, t, k) == Halves(x[t.merges[k + 1]][2])
MergeHashes(x, t) ==
  [k \in 0 .. Len(t.merges) - 1 |-> PairHash(MergeHalves(x, t, k)[1], MergeHalves(x, t, k)[2])]

\* The text is the artifact's beginning, and what is kept of it are strings and merges.
ReadFrom(x, a) == \A p \in DOMAIN x : p \in DOMAIN a /\ x[p] = a[p]
KeepsStrings(x, t) ==
  /\ \A p \in SpelledAt(t) : IsA(x, p, "str")
  /\ \A k \in DOMAIN t.merges : IsA(x, t.merges[k], "str") /\ IsMerge(x[t.merges[k]][2])

AllSpelled(t) == \A i \in 0 .. t.nVocab - 1 : t.spelling[i] # 0

HashInv ==
  /\ ReadFrom(text, session.artifact) /\ KeepsStrings(text, tok)
  /\ pc \in {"checked", "hashed", "loaded", "decoded"} => AllSpelled(tok)
  /\ pc \in {"hashed", "loaded", "decoded"} => tok.vhash = Filled(tok.nVocab, VocabHashes(text, tok))
  /\ pc \in {"loaded", "decoded"} => tok.mhash = Filled(Len(tok.merges), MergeHashes(text, tok))

Unhashed == Empty \cup Reading \cup {"parsed"}

LEMMA UnhashedKeeps ==
  ASSUME HashInv, UNCHANGED <<session, text>>, pc' \in Unhashed, KeepsStrings(text, tok')
  PROVE  HashInv'
  BY DEF HashInv, Unhashed, Empty, Reading

LEMMA NoTokKeeps ==
  ASSUME NEW x
  PROVE  KeepsStrings(x, NoTok)
  <1>1. DOMAIN NoTok.merges = {}
    BY DEF NoTok
  <1> QED BY <1>1, NoTokIsTok DEF KeepsStrings

LEMMA FailHashes ==
  ASSUME HashInv, UNCHANGED <<session, text>>, NEW t, NEW got, NEW rc, Fail(t, got, rc)
  PROVE  HashInv'
  <1>1. tok' = NoTok /\ pc' \in Unhashed
    BY DEF Fail, Unhashed, Empty
  <1> QED BY <1>1, NoTokKeeps, UnhashedKeeps

LEMMA NextItemHashes ==
  ASSUME HashInv, UNCHANGED <<session, text>>, NEW w, NEW p, NextItem(w, p), KeepsStrings(text, tok')
  PROVE  HashInv'
  <1>1. pc' \in Unhashed
    BY DEF NextItem, Unhashed, Reading
  <1> QED BY <1>1, UnhashedKeeps

LEMMA ReadHashes ==
  ASSUME ArtifactInv, HashInv, NEW n \in session.read, ReadArtifact(n)
  PROVE  HashInv'
  <1>0. pc = "start" /\ tok = NoTok /\ UNCHANGED <<session, tok>> /\ session \in Sessions
    BY DEF ReadArtifact, ArtifactInv, Empty
  <1>1. pc' \in Unhashed /\ (text' = text \/ text' = SubSeq(session.artifact, 1, n))
    BY DEF ReadArtifact, Unhashed, Empty, Reading
  <1>2. KeepsStrings(text', tok')
    BY <1>0, NoTokKeeps
  <1>3. ReadFrom(text', session.artifact)
    <2>1. CASE text' = text
      BY <2>1 DEF HashInv
    <2>2. CASE text' = SubSeq(session.artifact, 1, n)
      <3> DEFINE a == session.artifact
                 S == { a[p] : p \in DOMAIN a }
      <3>1. a \in Seq(S) /\ n \in 0 .. Len(a)
        BY <1>0, ArtifactAssumption
      <3> HIDE DEF a, S
      <3>2. SubSeq(a, 1, n) \in Seq(S) /\ Len(SubSeq(a, 1, n)) = n /\ \A i \in 1 .. n : SubSeq(a, 1, n)[i] = a[i]
        BY <3>1, PrefixProperties
      <3>3. DOMAIN SubSeq(a, 1, n) = 1 .. n /\ DOMAIN a = 1 .. Len(a) /\ Len(a) \in Nat
        BY <3>1, <3>2, LenProperties
      <3>4. text' = SubSeq(a, 1, n)
        BY <2>2 DEF a
      <3>5. ReadFrom(text', a)
        BY <3>1, <3>2, <3>3, <3>4 DEF ReadFrom
      <3> QED BY <3>5 DEF a
    <2> QED BY <1>1, <2>1, <2>2
  <1> QED BY <1>0, <1>1, <1>2, <1>3 DEF HashInv, Unhashed, Empty, Reading

LEMMA MemberHashes ==
  ASSUME HashInv, NEW mem \in BOOLEAN, Member(mem)
  PROVE  HashInv'
  <1>0. UNCHANGED <<session, text>> /\ KeepsStrings(text, tok)
    BY DEF Member, Unmoved, HashInv
  <1>1. ASSUME NEW rc, Fail(tok, {}, rc) PROVE HashInv'
    BY <1>0, <1>1, FailHashes
  <1>2. ASSUME NEW p, NextItem(where, p), UNCHANGED tok PROVE HashInv'
    BY <1>0, <1>2, NextItemHashes
  <1>3. ASSUME NEW w, NEW open, EnterTable(w, open) PROVE HashInv'
    <2>1. CASE Fail(tok, {}, "BAD_JSON")
      BY <1>1, <2>1
    <2>2. CASE pc' \in Reading /\ UNCHANGED tok
      <3>1. pc' \in Unhashed
        BY <2>2 DEF Unhashed
      <3> QED BY <1>0, <2>2, <3>1, UnhashedKeeps
    <2> QED BY <1>3, <2>1, <2>2 DEF EnterTable, Reading
  <1>4. CASE SkipMember
    BY <1>1, <1>2, <1>4 DEF SkipMember
  <1> QED BY <1>1, <1>3, <1>4 DEF Member

LEMMA EndTableHashes ==
  ASSUME HashInv, EndTable
  PROVE  HashInv'
  <1>0. UNCHANGED <<session, text>> /\ KeepsStrings(text, tok)
    BY DEF EndTable, Unmoved, HashInv
  <1>1. CASE Fail(tok, {}, "BAD_JSON")
    BY <1>0, <1>1, FailHashes
  <1>2. CASE pc' = "parsed" /\ UNCHANGED tok
    BY <1>0, <1>2, UnhashedKeeps DEF Unhashed
  <1>3. CASE NextItem(Holder[where], at + 1) /\ UNCHANGED tok
    BY <1>0, <1>3, NextItemHashes
  <1> QED BY <1>1, <1>2, <1>3 DEF EndTable

LEMMA VocabHashed ==
  ASSUME ArtifactInv, HashInv, NEW mem \in {"nothing", "name", "all"}, VocabEntry(mem)
  PROVE  HashInv'
  <1>0. /\ UNCHANGED <<session, text>> /\ KeepsStrings(text, tok) /\ IsTok(tok)
        /\ IsReading("vocab", at, tok, keys, cap, live) /\ IsNumbered(text)
    BY DEF VocabEntry, Unmoved, HashInv, ArtifactInv, Reading
  <1>1. CASE \E rc : Fail(tok, {}, rc)
    BY <1>0, <1>1, FailHashes
  <1>2. CASE ~\E rc : Fail(tok, {}, rc)
    <2> DEFINE id   == text[at + 2][2]
               room == IF id + 1 > cap THEN Doubled(IF cap = 0 THEN VocabCap ELSE cap, id + 1) ELSE cap
               kept == [i \in 0 .. room - 1 |-> IF i < cap THEN tok.spelling[i] ELSE 0]
               sp   == [kept EXCEPT ![id] = at]
               u    == [tok EXCEPT !.room.vocab = room, !.spelling = sp,
                                   !.nVocab = IF id + 1 > @ THEN id + 1 ELSE @]
    <2>1. KeyAt(text, at) /\ IsA(text, at + 2, "num") /\ tok' = u /\ NextItem("vocab", at + 3)
      BY <1>2 DEF VocabEntry, Stored
    <2>2. /\ cap = tok.room.vocab /\ cap \in Nat /\ id \in Nat /\ DOMAIN tok = TokFields
          /\ DOMAIN tok.spelling = 0 .. cap - 1
      BY <1>0, <2>1, NumberRead DEF IsReading, IsTok, Tables
    <2> HIDE DEF id, room
    <2>3. u.spelling = sp /\ u.merges = tok.merges
      BY <2>2 DEF TokFields
    <2>4. ASSUME NEW i \in DOMAIN sp, sp[i] # 0 PROVE sp[i] = at \/ sp[i] \in SpelledAt(tok)
      <3>1. i \in 0 .. room - 1 /\ (i # id => sp[i] = IF i < cap THEN tok.spelling[i] ELSE 0)
        OBVIOUS
      <3>2. CASE i = id
        BY <3>1, <3>2
      <3>3. CASE i # id
        <4>1. i \in DOMAIN tok.spelling /\ sp[i] = tok.spelling[i]
          BY <2>2, <2>4, <3>1, <3>3
        <4> HIDE DEF sp
        <4> QED BY <2>4, <4>1 DEF SpelledAt
      <3> QED BY <3>2, <3>3
    <2> HIDE DEF u, sp
    <2>5. \A p \in SpelledAt(u) : p = at \/ p \in SpelledAt(tok)
      BY <2>3, <2>4 DEF SpelledAt
    <2>6. KeepsStrings(text, u)
      BY <1>0, <2>1, <2>3, <2>5 DEF KeepsStrings, KeyAt
    <2> QED BY <1>0, <2>1, <2>6, NextItemHashes
  <1> QED BY <1>1, <1>2

LEMMA MergeHashed ==
  ASSUME ArtifactInv, HashInv, NEW mem \in {"nothing", "name", "array", "all"}, MergeEntry(mem)
  PROVE  HashInv'
  <1> DEFINE room == RoomFor(Len(tok.merges), MergeCap)
             grown == [tok EXCEPT !.room.merges = room]
             u == [grown EXCEPT !.merges = Append(@, at)]
  <1>0. /\ UNCHANGED <<session, text>> /\ KeepsStrings(text, tok) /\ IsTok(tok) /\ at \in Nat
    BY DEF MergeEntry, Unmoved, HashInv, ArtifactInv, IsReading, Reading
  <1>1. CASE \E t, got, rc : Fail(t, got, rc)
    BY <1>0, <1>1, FailHashes
  <1>2. CASE ~\E t, got, rc : Fail(t, got, rc)
    <2>1. IsA(text, at, "str") /\ IsMerge(text[at][2]) /\ tok' = u /\ NextItem("merges", at + 1)
      BY <1>2 DEF MergeEntry, Stored
    <2> HIDE DEF room
    <2>2. u.spelling = tok.spelling /\ u.merges = Append(tok.merges, at)
      BY <1>0 DEF IsTok, TokFields
    <2>3. tok.merges \in Seq(Nat)
      BY <1>0 DEF IsTok
    <2> HIDE DEF u
    <2>4. /\ DOMAIN tok.merges = 1 .. Len(tok.merges) /\ DOMAIN u.merges = 1 .. Len(tok.merges) + 1
          /\ Len(tok.merges) \in Nat /\ u.merges[Len(tok.merges) + 1] = at
          /\ \A k \in 1 .. Len(tok.merges) : u.merges[k] = tok.merges[k]
      BY <1>0, <2>2, <2>3, AppendProperties, LenProperties
    <2>5. ASSUME NEW k \in DOMAIN u.merges PROVE u.merges[k] = at \/ (k \in DOMAIN tok.merges /\ u.merges[k] = tok.merges[k])
      BY <2>4
    <2>6. SpelledAt(u) = SpelledAt(tok)
      BY <2>2 DEF SpelledAt
    <2>7. KeepsStrings(text, u)
      BY <1>0, <2>1, <2>5, <2>6 DEF KeepsStrings
    <2> QED BY <1>0, <2>1, <2>7, NextItemHashes
  <1> QED BY <1>1, <1>2

LEMMA AddedHashed ==
  ASSUME ArtifactInv, HashInv, NEW mem \in {"nothing", "name", "all"}, AddedEntry(mem)
  PROVE  HashInv'
  <1>0. UNCHANGED <<session, text>> /\ KeepsStrings(text, tok) /\ IsTok(tok)
    BY DEF AddedEntry, Unmoved, HashInv, ArtifactInv
  <1>1. CASE \E t, got, rc : Fail(t, got, rc)
    BY <1>0, <1>1, FailHashes
  <1>2. CASE ~\E t, got, rc : Fail(t, got, rc)
    <2>1. PICK room, new, p : /\ tok' = [tok EXCEPT !.room.added = room, !.added = Append(@, new)]
                              /\ NextItem("added", p)
      BY <1>2 DEF AddedEntry, Stored
    <2>2. tok'.spelling = tok.spelling /\ tok'.merges = tok.merges
      BY <1>0, <2>1 DEF IsTok, TokFields
    <2>3. KeepsStrings(text, tok')
      BY <1>0, <2>2 DEF KeepsStrings, SpelledAt
    <2> QED BY <1>0, <2>1, <2>3, NextItemHashes
  <1> QED BY <1>1, <1>2

LEMMA CheckHashes ==
  ASSUME HashInv, CheckTables
  PROVE  HashInv'
  <1>0. UNCHANGED <<session, text>>
    BY DEF CheckTables, Unmoved
  <1>1. CASE \E rc : Fail(tok, {}, rc)
    BY <1>0, <1>1, FailHashes
  <1>2. CASE ~\E rc : Fail(tok, {}, rc)
    <2>1. pc' = "checked" /\ UNCHANGED tok /\ AllSpelled(tok)
      BY <1>2 DEF CheckTables, AllSpelled
    <2> QED BY <1>0, <2>1 DEF HashInv
  <1> QED BY <1>1, <1>2

LEMMA HashVocabHashes ==
  ASSUME ArtifactInv, HashInv, NEW mem \in BOOLEAN, HashVocab(mem)
  PROVE  HashInv'
  <1>0. UNCHANGED <<session, text>> /\ DOMAIN tok = TokFields /\ AllSpelled(tok) /\ KeepsStrings(text, tok)
    BY DEF HashVocab, Unmoved, ArtifactInv, IsTok, HashInv
  <1>1. CASE Fail(tok, {}, "NOMEM")
    BY <1>0, <1>1, FailHashes
  <1>2. CASE ~Fail(tok, {}, "NOMEM")
    <2>1. tok' = [tok EXCEPT !.vhash = Filled(tok.nVocab, VocabHashes(text, tok))] /\ pc' = "hashed"
      BY <1>2 DEF HashVocab, VocabHashes, Spelling
    <2>2. /\ tok'.vhash = Filled(tok.nVocab, VocabHashes(text, tok)) /\ tok'.nVocab = tok.nVocab
          /\ tok'.spelling = tok.spelling /\ tok'.merges = tok.merges
      BY <1>0, <2>1 DEF TokFields
    <2>3. VocabHashes(text, tok') = VocabHashes(text, tok)
      BY <2>2 DEF VocabHashes
    <2>4. AllSpelled(tok') /\ KeepsStrings(text, tok')
      BY <1>0, <2>2 DEF AllSpelled, KeepsStrings, SpelledAt
    <2> QED BY <1>0, <2>1, <2>2, <2>3, <2>4 DEF HashInv
  <1> QED BY <1>1, <1>2

LEMMA HashMergesHashes ==
  ASSUME ArtifactInv, HashInv, NEW mem \in BOOLEAN, HashMerges(mem)
  PROVE  HashInv'
  <1>0. /\ UNCHANGED <<session, text>> /\ DOMAIN tok = TokFields /\ AllSpelled(tok) /\ KeepsStrings(text, tok)
        /\ tok.vhash = Filled(tok.nVocab, VocabHashes(text, tok))
    BY DEF HashMerges, Unmoved, ArtifactInv, IsTok, HashInv
  <1>1. CASE Fail(tok, {}, "NOMEM")
    BY <1>0, <1>1, FailHashes
  <1>2. CASE ~Fail(tok, {}, "NOMEM")
    <2>1. tok' = [tok EXCEPT !.mhash = Filled(Len(tok.merges), MergeHashes(text, tok))] /\ pc' = "loaded"
      BY <1>2 DEF HashMerges, MergeHashes, MergeHalves, Pair
    <2>2. /\ tok'.mhash = Filled(Len(tok.merges), MergeHashes(text, tok)) /\ tok'.vhash = tok.vhash
          /\ tok'.nVocab = tok.nVocab /\ tok'.spelling = tok.spelling /\ tok'.merges = tok.merges
      BY <1>0, <2>1 DEF TokFields
    <2>3. VocabHashes(text, tok') = VocabHashes(text, tok) /\ MergeHashes(text, tok') = MergeHashes(text, tok)
      BY <2>2 DEF VocabHashes, MergeHashes, MergeHalves
    <2>4. AllSpelled(tok') /\ KeepsStrings(text, tok')
      BY <1>0, <2>2 DEF AllSpelled, KeepsStrings, SpelledAt
    <2> QED BY <1>0, <2>1, <2>2, <2>3, <2>4 DEF HashInv
  <1> QED BY <1>1, <1>2

LEMMA HashStep ==
  ASSUME ArtifactInv, HashInv, ArtifactNext
  PROVE  HashInv'
  <1>1. ASSUME NEW n \in session.read, ReadArtifact(n) PROVE HashInv'
    BY <1>1, ReadHashes
  <1>2. ASSUME NEW mem \in BOOLEAN, Member(mem) \/ HashVocab(mem) \/ HashMerges(mem) PROVE HashInv'
    BY <1>2, MemberHashes, HashVocabHashes, HashMergesHashes
  <1>3. CASE EndTable
    BY <1>3, EndTableHashes
  <1>4. ASSUME NEW mem \in {"nothing", "name", "all"}, VocabEntry(mem) \/ AddedEntry(mem) PROVE HashInv'
    BY <1>4, VocabHashed, AddedHashed
  <1>5. ASSUME NEW mem \in {"nothing", "name", "array", "all"}, MergeEntry(mem) PROVE HashInv'
    BY <1>5, MergeHashed
  <1>6. CASE CheckTables
    BY <1>6, CheckHashes
  <1>7. ASSUME NEW ids, NEW room, Decode(ids, room) PROVE HashInv'
    BY <1>7 DEF Decode, HashInv
  <1>8. CASE TokFree
    BY <1>8, NoTokKeeps, UnhashedKeeps DEF TokFree, Unhashed, Empty
  <1> QED BY <1>1, <1>2, <1>3, <1>4, <1>5, <1>6, <1>7, <1>8 DEF ArtifactNext

\* The text is a beginning of the artifact, every id has a spelling once the tables
\* are checked, and each hash table is what its entries fill, in their order.
THEOREM HashInvariant == OnceSpec => []HashInv
  <1>1. ArtifactInit => HashInv
    <2> SUFFICES ASSUME ArtifactInit PROVE HashInv
      OBVIOUS
    <2>1. DOMAIN text = {} /\ tok = NoTok /\ pc = "start"
      BY DEF ArtifactInit
    <2> QED BY <2>1, NoTokKeeps DEF HashInv, ReadFrom
  <1>2. ArtifactInv /\ HashInv /\ [ArtifactNext]_artifactVars => HashInv'
    <2>1. CASE UNCHANGED artifactVars
      BY <2>1 DEF artifactVars, HashInv
    <2>2. CASE ArtifactNext
      BY <2>2, HashStep
    <2> QED BY <2>1, <2>2
  <1> QED BY <1>1, <1>2, ArtifactInvariant, PTL DEF OnceSpec, ArtifactSpec

\* A lookup in the loaded tables ends, whatever collides: with the least id of a
\* spelling, with the first rank of a pair, or with none when there is none.
LookupsFindFirst ==
  pc \in {"loaded", "decoded"} =>
    /\ \A s : StrHash(s) \in Nat =>
         VhashGet(s) = LeastOf({ id \in 0 .. tok.nVocab - 1 : Spelling(tok, id) = s })
    /\ \A l, r : PairHash(l, r) \in Nat =>
         MhashGet(l, r) = LeastOf({ k \in 0 .. Len(tok.merges) - 1 : Pair(tok, k) = <<l, r>> })

\* A lookup never runs around a full table: it ends with the least id of a spelling,
\* with the first rank of a pair, or with none.
THEOREM LookupsFind == OnceSpec => []LookupsFindFirst
  <1>1. ArtifactInv /\ HashInv => LookupsFindFirst
    <2> SUFFICES ASSUME ArtifactInv, HashInv, pc \in {"loaded", "decoded"}
                 PROVE  /\ \A s : StrHash(s) \in Nat =>
                             VhashGet(s) = LeastOf({ id \in 0 .. tok.nVocab - 1 : Spelling(tok, id) = s })
                        /\ \A l, r : PairHash(l, r) \in Nat =>
                             MhashGet(l, r) = LeastOf({ k \in 0 .. Len(tok.merges) - 1 : Pair(tok, k) = <<l, r>> })
      BY DEF LookupsFindFirst
    <2>1. /\ ReadFrom(text, session.artifact) /\ KeepsStrings(text, tok) /\ AllSpelled(tok)
          /\ tok.vhash = Filled(tok.nVocab, VocabHashes(text, tok))
          /\ tok.mhash = Filled(Len(tok.merges), MergeHashes(text, tok))
          /\ session \in Sessions /\ tok.nVocab \in Nat /\ Len(tok.merges) \in Nat
          /\ DOMAIN tok.merges = 1 .. Len(tok.merges) /\ DOMAIN tok.spelling = 0 .. tok.room.vocab - 1
          /\ tok.nVocab <= tok.room.vocab /\ tok.room.vocab \in Nat
      <3>1. IsTok(tok)
        BY DEF ArtifactInv
      <3>2. Len(tok.merges) \in Nat /\ DOMAIN tok.merges = 1 .. Len(tok.merges)
        BY <3>1, LenProperties DEF IsTok
      <3> QED BY <3>1, <3>2 DEF HashInv, ArtifactInv, IsTok
    <2>2. ASSUME NEW p, IsA(text, p, "str")
          PROVE  /\ StrHash(text[p][2]) \in Nat
                 /\ IsMerge(text[p][2]) => PairHash(Halves(text[p][2])[1], Halves(text[p][2])[2]) \in Nat
      <3>1. p \in DOMAIN session.artifact /\ text[p] = session.artifact[p] /\ IsA(session.artifact, p, "str")
        BY <2>1, <2>2 DEF ReadFrom, IsA
      <3> QED BY <2>1, <3>1, HashAssumption
    <2>3. VocabHashes(text, tok) \in [0 .. tok.nVocab - 1 -> Nat]
      <3>1. ASSUME NEW i \in 0 .. tok.nVocab - 1 PROVE StrHash(text[tok.spelling[i]][2]) \in Nat
        <4>1. i \in DOMAIN tok.spelling /\ tok.spelling[i] # 0
          BY <2>1 DEF AllSpelled
        <4>2. IsA(text, tok.spelling[i], "str")
          BY <2>1, <4>1 DEF KeepsStrings, SpelledAt
        <4> QED BY <2>2, <4>2
      <3> QED BY <3>1 DEF VocabHashes
    <2>4. MergeHashes(text, tok) \in [0 .. Len(tok.merges) - 1 -> Nat]
      <3>1. ASSUME NEW k \in 0 .. Len(tok.merges) - 1
            PROVE  PairHash(MergeHalves(text, tok, k)[1], MergeHalves(text, tok, k)[2]) \in Nat
        <4>1. k + 1 \in DOMAIN tok.merges
          BY <2>1
        <4>2. IsA(text, tok.merges[k + 1], "str") /\ IsMerge(text[tok.merges[k + 1]][2])
          BY <2>1, <4>1 DEF KeepsStrings
        <4> QED BY <2>2, <4>2 DEF MergeHalves
      <3> QED BY <3>1 DEF MergeHashes
    <2>5. ASSUME NEW s, StrHash(s) \in Nat
          PROVE  VhashGet(s) = LeastOf({ id \in 0 .. tok.nVocab - 1 : Spelling(tok, id) = s })
      <3> DEFINE n == tok.nVocab
                 hash == VocabHashes(text, tok)
                 wanted == { id \in 0 .. n - 1 : Spelling(tok, id) = s }
                 h == StrHash(s)
      <3>1. \A j \in wanted : hash[j] = h
        BY DEF VocabHashes, Spelling
      <3>2. hash \in [0 .. n - 1 -> Nat] /\ wanted \in SUBSET (0 .. n - 1) /\ h \in Nat /\ n \in Nat
        BY <2>1, <2>3, <2>5
      <3>3. VhashGet(s) = IF Slot(Filled(n, hash), h, wanted) = -1 THEN -2 ELSE Filled(n, hash)[Slot(Filled(n, hash), h, wanted)]
        BY <2>1 DEF VhashGet
      <3> HIDE DEF n, hash, wanted, h
      <3>4. Slot(Filled(n, hash), h, wanted) # -1 /\ Filled(n, hash)[Slot(Filled(n, hash), h, wanted)] = LeastOf(wanted)
        BY <3>1, <3>2, LookupFinds
      <3> QED BY <3>3, <3>4 DEF n, wanted
    <2>6. ASSUME NEW l, NEW r, PairHash(l, r) \in Nat
          PROVE  MhashGet(l, r) = LeastOf({ k \in 0 .. Len(tok.merges) - 1 : Pair(tok, k) = <<l, r>> })
      <3> DEFINE n == Len(tok.merges)
                 hash == MergeHashes(text, tok)
                 wanted == { k \in 0 .. n - 1 : Pair(tok, k) = <<l, r>> }
                 h == PairHash(l, r)
      <3>1. \A j \in wanted : hash[j] = h
        <4> TAKE j \in wanted
        <4>1. j \in 0 .. n - 1 /\ MergeHalves(text, tok, j) = <<l, r>>
          BY DEF Pair, MergeHalves
        <4>2. MergeHalves(text, tok, j)[1] = l /\ MergeHalves(text, tok, j)[2] = r
          BY <4>1
        <4> QED BY <4>1, <4>2 DEF MergeHashes
      <3>2. hash \in [0 .. n - 1 -> Nat] /\ wanted \in SUBSET (0 .. n - 1) /\ h \in Nat /\ n \in Nat
        BY <2>1, <2>4, <2>6
      <3>3. MhashGet(l, r) = IF Slot(Filled(n, hash), h, wanted) = -1 THEN -2 ELSE Filled(n, hash)[Slot(Filled(n, hash), h, wanted)]
        BY <2>1 DEF MhashGet
      <3> HIDE DEF n, hash, wanted, h
      <3>4. Slot(Filled(n, hash), h, wanted) # -1 /\ Filled(n, hash)[Slot(Filled(n, hash), h, wanted)] = LeastOf(wanted)
        BY <3>1, <3>2, LookupFinds
      <3> QED BY <3>3, <3>4 DEF n, wanted
    <2> QED BY <2>5, <2>6
  <1> QED BY <1>1, ArtifactInvariant, HashInvariant, PTL

-----------------------------------------------------------------------------
(* Artifacts that open no table twice.                                     *)
TableName == [vocab |-> Names.vocab, merges |-> Names.merges, added |-> Names.added_tokens]
OpensTable(h, w, p) == KeyAt(h, p) /\ h[p][2] = TableName[w] /\ At(h, p + 2, IF w = "vocab" THEN "{" ELSE "[")
DeclaresOnce(h) == \A w \in Tables : \A p, q \in DOMAIN h : OpensTable(h, w, p) /\ OpensTable(h, w, q) => p = q

\* A table that is parsed, or has room, was opened before p.
OpenedBefore(h, w, t, p) ==
  \A a \in Tables : w = a \/ t.room[a] > 0 => \E q \in Nat : q < p /\ OpensTable(h, a, q)
OpenedInv == pc \in Reading => OpenedBefore(text, where, tok, at)

LEMMA OpenedLater ==
  ASSUME NEW h, NEW w, NEW t, NEW p \in Nat, OpenedBefore(h, w, t, p), NEW q \in Nat, p <= q,
         NEW v, v \in Tables => v = w, NEW u,
         \A a \in Tables : u.room[a] > 0 => t.room[a] > 0 \/ a = w
  PROVE  OpenedBefore(h, v, u, q)
  <1> SUFFICES ASSUME NEW a \in Tables, v = a \/ u.room[a] > 0 PROVE \E o \in Nat : o < q /\ OpensTable(h, a, o)
    BY DEF OpenedBefore
  <1>1. w = a \/ t.room[a] > 0
    OBVIOUS
  <1>2. PICK o \in Nat : o < p /\ OpensTable(h, a, o)
    BY <1>1 DEF OpenedBefore
  <1> QED BY <1>2

LEMMA NextItemOpened ==
  ASSUME OpenedBefore(text, where, tok, at), at \in Nat, UNCHANGED text, NEW w, w \in Tables => w = where,
         NEW p \in Nat, at <= p, NextItem(w, p),
         \A a \in Tables : tok'.room[a] > 0 => tok.room[a] > 0 \/ a = where
  PROVE  OpenedInv'
  <1>1. where' = w /\ at' \in Nat /\ at <= at'
    <2>1. where' = w /\ (at' = p \/ at' = p + 1)
      BY DEF NextItem
    <2> QED BY <2>1
  <1>2. OpenedBefore(text, w, tok', at')
    BY <1>1, OpenedLater
  <1> QED BY <1>1, <1>2 DEF OpenedInv

LEMMA ClosedOpened ==
  ASSUME pc' \notin Reading
  PROVE  OpenedInv'
  BY DEF OpenedInv

LEMMA FailOpened ==
  ASSUME NEW t, NEW got, NEW rc, Fail(t, got, rc)
  PROVE  OpenedInv'
  BY ClosedOpened DEF Fail, Reading

\* The step that enters a table stands at the name that opens it.
LEMMA MemberEnters ==
  ASSUME ArtifactInv, NEW mem \in BOOLEAN, Member(mem), NEW a \in Tables, where # a, where' = a
  PROVE  OpensTable(text, a, at) /\ pc \in Reading
  <1>0. pc \in Reading /\ where \in {"top", "model"} /\ {"top", "model"} \cap Tables = {}
    BY DEF Member, Reading, Tables
  <1>1. ~\E rc : Fail(tok, {}, rc)
    <2>1. ASSUME NEW rc, Fail(tok, {}, rc) PROVE FALSE
      BY <2>1 DEF Fail
    <2> QED BY <2>1
  <1>2. ~SkipMember
    <2>1. ASSUME NEW p, NextItem(where, p) PROVE FALSE
      BY <2>1 DEF NextItem
    <2> QED BY <1>1, <2>1 DEF SkipMember
  <1>3. /\ KeyAt(text, at)
        /\ \/ where = "top" /\ text[at][2] = Names["model"] /\ EnterTable("model", "{")
           \/ where = "top" /\ text[at][2] = Names["added_tokens"] /\ EnterTable("added", "[")
           \/ where = "model" /\ text[at][2] = Names["vocab"] /\ EnterTable("vocab", "{")
           \/ where = "model" /\ text[at][2] = Names["merges"] /\ EnterTable("merges", "[")
    BY <1>1, <1>2 DEF Member
  <1>4. ASSUME NEW w, NEW open, EnterTable(w, open) PROVE where' = w /\ At(text, at + 2, open)
    BY <1>1, <1>4 DEF EnterTable
  <1>5. a # "model"
    BY DEF Tables
  <1>6. /\ TableName["vocab"] = Names["vocab"] /\ TableName["merges"] = Names["merges"]
        /\ TableName["added"] = Names["added_tokens"]
    BY DEF TableName
  <1>7. PICK w, open : /\ EnterTable(w, open)
                       /\ w # "model" => text[at][2] = TableName[w]
                       /\ w # "model" => open = IF w = "vocab" THEN "{" ELSE "["
    BY <1>3, <1>6
  <1>8. w = a /\ At(text, at + 2, open)
    BY <1>4, <1>7
  <1> QED BY <1>0, <1>3, <1>5, <1>7, <1>8 DEF OpensTable

LEMMA OnceEnters ==
  ASSUME \A s \in Sessions : DeclaresOnce(s.artifact), ArtifactInv, HashInv, OpenedInv, ArtifactNext
  PROVE  EntersOnce
  <1> SUFFICES ASSUME NEW a \in Tables, where # a, where' = a PROVE tok.room[a] = 0
    BY DEF EntersOnce
  <1>1. \E mem \in BOOLEAN : Member(mem)
    <2>1. ASSUME NEW t, NEW got, NEW rc, Fail(t, got, rc) PROVE FALSE
      BY <2>1 DEF Fail
    <2>2. ASSUME NEW w, NEW p, NextItem(w, p), w = where \/ w \notin Tables PROVE FALSE
      BY <2>2 DEF NextItem
    <2>3. ASSUME NEW n, ReadArtifact(n) PROVE FALSE
      BY <2>3 DEF ReadArtifact, Tables
    <2>4. ASSUME NEW mem, HashVocab(mem) \/ HashMerges(mem) PROVE FALSE
      BY <2>1, <2>4 DEF HashVocab, HashMerges
    <2>5. ASSUME EndTable PROVE FALSE
      <3>1. where # "top" => Holder[where] \notin Tables
        <4>1. where \in DOMAIN Depth
          BY <2>5 DEF EndTable, ArtifactInv, IsReading, Reading
        <4> QED BY <4>1 DEF Depth, Holder, Tables
      <3> QED BY <2>1, <2>2, <2>5, <3>1 DEF EndTable
    <2>6. ASSUME NEW mem, VocabEntry(mem) PROVE FALSE
      <3>1. where = "vocab" /\ (NextItem("vocab", at + 3) \/ \E rc : Fail(tok, {}, rc))
        BY <2>6 DEF VocabEntry
      <3> QED BY <2>1, <2>2, <3>1
    <2>7. ASSUME NEW mem, AddedEntry(mem) PROVE FALSE
      <3>1. where = "added" /\ ((\E p : NextItem("added", p)) \/ \E rc : Fail(tok, {}, rc))
        BY <2>7 DEF AddedEntry
      <3> QED BY <2>1, <2>2, <3>1
    <2>8. ASSUME NEW mem, MergeEntry(mem) PROVE FALSE
      <3>1. where = "merges" /\ (NextItem("merges", at + 1) \/ \E t, got, rc : Fail(t, got, rc))
        BY <2>8 DEF MergeEntry
      <3> QED BY <2>1, <2>2, <3>1
    <2>9. ASSUME CheckTables PROVE FALSE
      BY <2>1, <2>9 DEF CheckTables
    <2>10. ASSUME NEW ids, NEW room, Decode(ids, room) PROVE FALSE
      BY <2>10 DEF Decode
    <2>11. ASSUME TokFree PROVE FALSE
      BY <2>11 DEF TokFree
    <2> QED BY <2>3, <2>4, <2>5, <2>6, <2>7, <2>8, <2>9, <2>10, <2>11 DEF ArtifactNext
  <1>2. OpensTable(text, a, at) /\ pc \in Reading
    BY <1>1, MemberEnters
  <1> SUFFICES ASSUME tok.room[a] # 0 PROVE FALSE
    OBVIOUS
  <1>3. tok.room[a] \in Nat /\ tok.room[a] > 0
    BY DEF ArtifactInv, IsTok, Tables
  <1>4. PICK q \in Nat : q < at /\ OpensTable(text, a, q)
    BY <1>2, <1>3 DEF OpenedInv, OpenedBefore
  <1>5. at \in Nat /\ session \in Sessions /\ ReadFrom(text, session.artifact)
    BY <1>2 DEF ArtifactInv, IsReading, HashInv
  <1>6. ASSUME NEW p \in Nat, OpensTable(text, a, p)
        PROVE  p \in DOMAIN session.artifact /\ OpensTable(session.artifact, a, p)
    <2>1. \A i \in DOMAIN text : i \in DOMAIN session.artifact /\ text[i] = session.artifact[i]
      BY <1>5 DEF ReadFrom
    <2> QED BY <1>6, <2>1 DEF OpensTable, KeyAt, IsA, At
  <1>7. q = at
    BY <1>2, <1>4, <1>5, <1>6 DEF DeclaresOnce
  <1> QED BY <1>4, <1>5, <1>7

LEMMA AddedMoves ==
  ASSUME IsText(text), at \in Nat,
         LET members == Members(text, at, [p \in 1 .. Len(text) + 1 |-> AddedMember(p)]) IN members.rc = "OK"
  PROVE  LET members == Members(text, at, [p \in 1 .. Len(text) + 1 |-> AddedMember(p)])
         IN  members.at \in Nat /\ at < members.at
  <1> DEFINE to      == Len(text) + 1
             member  == [p \in 1 .. to |-> AddedMember(p)]
             members == Members(text, at, member)
  <1>1. \A p \in 1 .. to : member[p] \in Results /\ Forward(member[p], p, to)
    BY AddedMemberReads
  <1>2. members.rc = "OK"
    OBVIOUS
  <1> HIDE DEF member
  <1>3. ReadsOn(members, member, at + 1, to)
    BY <1>1, MembersMove
  <1>4. members.at \in Nat /\ at < members.at
    <2>0. to \in Nat
      BY DEF IsText
    <2> HIDE DEF members, to
    <2> QED BY <1>2, <1>3, <2>0 DEF ReadsOn, Forward, MemberResults
  <1> QED BY <1>4 DEF member

LEMMA OpenedStep ==
  ASSUME ArtifactInv, OpenedInv, ArtifactNext
  PROVE  OpenedInv'
  <1> DEFINE Roomed == \A a \in Tables : tok'.room[a] > 0 => tok.room[a] > 0 \/ a = where
  <1>0. pc \in Reading => at \in Nat /\ OpenedBefore(text, where, tok, at) /\ where \in DOMAIN Depth
    BY DEF ArtifactInv, IsReading, OpenedInv
  <1>1. ASSUME NEW n \in session.read, ReadArtifact(n) PROVE OpenedInv'
    <2>1. CASE pc' = "returned"
      BY <2>1, ClosedOpened DEF Reading
    <2>2. CASE pc' = "item" /\ where' = "top" /\ UNCHANGED tok
      <3>1. tok' = NoTok
        BY <1>1, <2>2 DEF ReadArtifact, ArtifactInv, Empty
      <3>2. \A a \in Tables : where' # a /\ ~(tok'.room[a] > 0)
        BY <2>2, <3>1 DEF Tables, NoTok
      <3> QED BY <3>2 DEF OpenedInv, OpenedBefore
    <2> QED BY <1>1, <2>1, <2>2 DEF ReadArtifact
  <1>2. ASSUME NEW mem \in BOOLEAN, Member(mem) PROVE OpenedInv'
    <2>0. pc \in Reading /\ UNCHANGED text
      BY <1>2 DEF Member, Reading, Unmoved
    <2>1. ASSUME NEW rc, Fail(tok, {}, rc) PROVE OpenedInv'
      BY <2>1, FailOpened
    <2>2. CASE SkipMember /\ ~\E rc : Fail(tok, {}, rc)
      <3> DEFINE s == SkipTo(at + 2)
      <3>1. s.rc = "OK" /\ NextItem(where, s.at) /\ UNCHANGED tok
        BY <2>2 DEF SkipMember
      <3>2. s \in Results /\ Forward(s, at + 2, Len(text) + 1) /\ IsText(text)
        BY <1>0, <2>0, SkipMoves DEF SkipTo, ArtifactInv
      <3> HIDE DEF s
      <3>3. s.at \in Nat /\ at <= s.at
        BY <1>0, <2>0, <3>1, <3>2 DEF Results, Forward
      <3> QED BY <1>0, <2>0, <3>1, <3>3, NextItemOpened
    <2>3. ASSUME NEW w, NEW open, EnterTable(w, open), ~\E rc : Fail(tok, {}, rc) PROVE OpenedInv'
      <3>1. where' = w /\ at' = at + 3 /\ UNCHANGED tok
        BY <2>3 DEF EnterTable
      <3>2. ASSUME NEW a \in Tables, where' = a \/ tok'.room[a] > 0 PROVE \E q \in Nat : q < at' /\ OpensTable(text', a, q)
        <4>1. CASE where = a \/ tok.room[a] > 0
          <5>1. PICK q \in Nat : q < at /\ OpensTable(text, a, q)
            BY <1>0, <2>0, <4>1 DEF OpenedBefore
          <5> QED BY <1>0, <2>0, <3>1, <5>1
        <4>2. CASE where # a /\ where' = a
          <5>1. OpensTable(text, a, at)
            BY <1>2, <4>2, MemberEnters
          <5> QED BY <1>0, <2>0, <3>1, <5>1
        <4> QED BY <3>1, <3>2, <4>1, <4>2
      <3> QED BY <3>2 DEF OpenedInv, OpenedBefore
    <2> QED BY <1>2, <2>1, <2>2, <2>3 DEF Member
  <1>3. CASE EndTable
    <2>0. pc \in Reading /\ UNCHANGED text
      BY <1>3 DEF EndTable, Reading, Unmoved
    <2>1. CASE Fail(tok, {}, "BAD_JSON")
      BY <2>1, FailOpened
    <2>2. CASE pc' = "parsed"
      BY <2>2, ClosedOpened DEF Reading
    <2>3. CASE where # "top" /\ NextItem(Holder[where], at + 1) /\ UNCHANGED tok
      <3>1. Holder[where] \notin Tables
        BY <1>0, <2>0, <2>3 DEF Depth, Holder, Tables
      <3>2. at + 1 \in Nat /\ at <= at + 1
        BY <1>0, <2>0
      <3> QED BY <1>0, <2>0, <2>3, <3>1, <3>2, NextItemOpened
    <2> QED BY <1>3, <2>1, <2>2, <2>3 DEF EndTable
  <1>4. ASSUME NEW mem \in {"nothing", "name", "all"}, VocabEntry(mem) PROVE OpenedInv'
    <2>0. pc \in Reading /\ UNCHANGED text /\ where = "vocab" /\ DOMAIN tok = TokFields /\ DOMAIN tok.room = Tables
      BY <1>4 DEF VocabEntry, Reading, Unmoved, ArtifactInv, IsTok, Tables
    <2>1. CASE \E rc : Fail(tok, {}, rc)
      BY <2>1, FailOpened
    <2>2. CASE ~\E rc : Fail(tok, {}, rc)
      <3>1. PICK room, sp, n : /\ tok' = [tok EXCEPT !.room.vocab = room, !.spelling = sp, !.nVocab = n]
                               /\ NextItem("vocab", at + 3)
        BY <1>4, <2>2 DEF VocabEntry, Stored
      <3>2. Roomed
        BY <2>0, <3>1 DEF Tables, TokFields
      <3>3. at + 3 \in Nat /\ at <= at + 3
        BY <1>0, <2>0
      <3> QED BY <1>0, <2>0, <3>1, <3>2, <3>3, NextItemOpened
    <2> QED BY <2>1, <2>2
  <1>5. ASSUME NEW mem \in {"nothing", "name", "all"}, AddedEntry(mem) PROVE OpenedInv'
    <2>0. /\ pc \in Reading /\ UNCHANGED text /\ where = "added" /\ DOMAIN tok = TokFields /\ DOMAIN tok.room = Tables
          /\ IsText(text)
      BY <1>5 DEF AddedEntry, Reading, Unmoved, ArtifactInv, IsTok, Tables
    <2>1. CASE \E rc : Fail(tok, {}, rc)
      BY <2>1, FailOpened
    <2>2. CASE ~\E rc : Fail(tok, {}, rc)
      <3> DEFINE members == Members(text, at, [p \in 1 .. Len(text) + 1 |-> AddedMember(p)])
      <3>1. /\ members.rc = "OK" /\ NextItem("added", members.at)
            /\ \E room, new : tok' = [tok EXCEPT !.room.added = room, !.added = Append(@, new)]
        BY <1>5, <2>2 DEF AddedEntry, Stored
      <3>2. members.at \in Nat /\ at <= members.at
        BY <1>0, <2>0, <3>1, AddedMoves
      <3> HIDE DEF members
      <3>3. Roomed
        BY <2>0, <3>1 DEF Tables, TokFields
      <3> QED BY <1>0, <2>0, <3>1, <3>2, <3>3, NextItemOpened
    <2> QED BY <2>1, <2>2
  <1>6. ASSUME NEW mem \in {"nothing", "name", "array", "all"}, MergeEntry(mem) PROVE OpenedInv'
    <2>0. pc \in Reading /\ UNCHANGED text /\ where = "merges" /\ DOMAIN tok = TokFields /\ DOMAIN tok.room = Tables
      BY <1>6 DEF MergeEntry, Reading, Unmoved, ArtifactInv, IsTok, Tables
    <2>1. CASE \E t, got, rc : Fail(t, got, rc)
      BY <2>1, FailOpened
    <2>2. CASE ~\E t, got, rc : Fail(t, got, rc)
      <3> DEFINE room == RoomFor(Len(tok.merges), MergeCap)
                 u == [[tok EXCEPT !.room.merges = room] EXCEPT !.merges = Append(@, at)]
      <3>1. tok' = u /\ NextItem("merges", at + 1)
        BY <1>6, <2>2 DEF MergeEntry, Stored
      <3> HIDE DEF room
      <3>2. Roomed
        BY <2>0, <3>1 DEF Tables, TokFields
      <3>3. at + 1 \in Nat /\ at <= at + 1
        BY <1>0, <2>0
      <3> QED BY <1>0, <2>0, <3>1, <3>2, <3>3, NextItemOpened
    <2> QED BY <2>1, <2>2
  <1>7. ASSUME NEW mem, HashVocab(mem) \/ HashMerges(mem) PROVE OpenedInv'
    BY <1>7, ClosedOpened DEF HashVocab, HashMerges, Fail, Reading
  <1>8. ASSUME CheckTables \/ TokFree \/ \E ids, room : Decode(ids, room) PROVE OpenedInv'
    BY <1>8, ClosedOpened DEF CheckTables, TokFree, Decode, Fail, Reading
  <1> QED BY <1>1, <1>2, <1>3, <1>4, <1>5, <1>6, <1>7, <1>8 DEF ArtifactNext

\* The loader of artifacts none of which opens a table twice never parses one twice.
THEOREM DeclaredOnceEntersOnce ==
  ASSUME \A s \in Sessions : DeclaresOnce(s.artifact)
  PROVE  ArtifactSpec => OnceSpec
  <1> DEFINE I == ArtifactInv /\ HashInv /\ OpenedInv
  <1>1. ArtifactInit => I
    <2> SUFFICES ASSUME ArtifactInit PROVE I
      OBVIOUS
    <2>1. DOMAIN text = {} /\ tok = NoTok /\ pc = "start"
      BY DEF ArtifactInit
    <2>2. HashInv
      BY <2>1, NoTokKeeps DEF HashInv, ReadFrom
    <2> QED BY <2>1, <2>2, InitInv DEF OpenedInv, Reading
  <1>2. I /\ [ArtifactNext]_artifactVars => I' /\ [EntersOnce]_artifactVars
    <2>1. CASE UNCHANGED artifactVars
      BY <2>1 DEF artifactVars, heapVars, ArtifactInv, HashInv, OpenedInv
    <2>2. CASE I /\ ArtifactNext
      BY <2>2, OnceEnters, StepInv, HashStep, OpenedStep
    <2> QED BY <2>1, <2>2
  <1> HIDE DEF I
  <1> QED BY <1>1, <1>2, PTL DEF ArtifactSpec, OnceSpec
=============================================================================
