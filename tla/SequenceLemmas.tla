---------------------------- MODULE SequenceLemmas ----------------------------
(***************************************************************************)
(* Facts about numbers and sequences that the proofs share.  Induction     *)
(* over the naturals goes through the least element of a set, as the       *)
(* induction theorems that take a predicate cannot be instantiated.        *)
(***************************************************************************)
EXTENDS Integers, FiniteSetsExt, SequencesExt, FiniteSetTheorems, SequenceTheorems,
        WellFoundedInduction, TLAPS

-----------------------------------------------------------------------------
(* Least and greatest elements, and induction from either end.             *)

\* A nonempty set of naturals has a least element.
LEMMA LeastElement ==
  ASSUME NEW S \in SUBSET Nat, S # {}
  PROVE  \E n \in S : \A m \in S : n <= m
  <1> DEFINE R == { ss \in Nat \X Nat : ss[1] < ss[2] }
  <1>1. IsWellFoundedOn(R, Nat)
    BY NatLessThanWellFounded DEF OpToRel
  <1>2. \A m, n \in Nat : m < n => <<m, n>> \in R
    OBVIOUS
  <1> HIDE DEF R
  <1>3. PICK n \in S : \A m \in S : ~ (<<m, n>> \in R)
    BY <1>1, WFMin
  <1>4. ASSUME NEW m \in S PROVE n <= m
    <2>1. m \in Nat /\ n \in Nat
      OBVIOUS
    <2>2. ~ (m < n)
      BY <1>2, <1>3, <2>1
    <2> QED BY <2>1, <2>2
  <1> QED BY <1>4

\* A set that holds 0 and, with n, n + 1 holds every natural.
LEMMA Induction ==
  ASSUME NEW S, 0 \in S, \A n \in Nat : n \in S => n + 1 \in S
  PROVE  Nat \subseteq S
  <1> SUFFICES ASSUME Nat \ S # {} PROVE FALSE
    OBVIOUS
  <1>1. PICK n \in Nat \ S : \A m \in Nat \ S : n <= m
    BY LeastElement
  <1>2. n # 0 /\ n - 1 \in Nat /\ n - 1 \in S /\ (n - 1) + 1 = n
    BY <1>1
  <1> QED BY <1>2

\* Max returns the greatest element of a nonempty set of indices.
LEMMA MaxProperties ==
  ASSUME NEW n \in Nat, NEW S \in SUBSET (0 .. n), S # {}
  PROVE  Max(S) \in S /\ \A m \in S : m <= Max(S)
  <1> DEFINE D == { k \in Nat : n - k \in S }
  <1>1. D # {}
    <2>1. PICK m \in S : TRUE
      OBVIOUS
    <2>2. n - m \in D
      OBVIOUS
    <2> QED BY <2>2
  <1>2. PICK k \in D : \A j \in D : k <= j
    <2> HIDE DEF D
    <2>1. D \in SUBSET Nat
      BY DEF D
    <2> QED BY <1>1, <2>1, LeastElement
  <1>3. n - k \in S
    OBVIOUS
  <1>4. \A m \in S : m <= n - k
    <2> TAKE m \in S
    <2>1. n - m \in D
      OBVIOUS
    <2>2. k <= n - m
      BY <1>2, <2>1
    <2> QED BY <2>2
  <1> QED BY <1>3, <1>4 DEF Max

\* What holds at a place when it holds at all later ones holds everywhere.
LEMMA DownwardInduction ==
  ASSUME NEW from \in Int, NEW to \in Int, NEW S,
         \A k \in from .. to : (\A j \in k + 1 .. to : j \in S) => k \in S
  PROVE  \A k \in from .. to : k \in S
  <1> DEFINE D == { n \in Nat : \A k \in from .. to : to - k <= n => k \in S }
  <1>1. 0 \in D
    <2> SUFFICES ASSUME NEW k \in from .. to, to - k <= 0 PROVE k \in S
      OBVIOUS
    <2>1. \A j \in k + 1 .. to : j \in S
      OBVIOUS
    <2> QED BY <2>1
  <1>2. ASSUME NEW n \in Nat, n \in D PROVE n + 1 \in D
    <2> SUFFICES ASSUME NEW k \in from .. to, to - k <= n + 1 PROVE k \in S
      OBVIOUS
    <2>1. \A j \in k + 1 .. to : j \in S
      BY <1>2
    <2> QED BY <2>1
  <1>3. Nat \subseteq D
    <2> HIDE DEF D
    <2> QED BY <1>1, <1>2, Induction
  <1> SUFFICES ASSUME NEW k \in from .. to PROVE k \in S
    OBVIOUS
  <1>4. to - k \in D
    <2>1. to - k \in Nat
      OBVIOUS
    <2> HIDE DEF D
    <2> QED BY <1>3, <2>1
  <1> QED BY <1>4

\* A function that looks at later places only is defined by its equation: of the
\* places in Go, at nxt[k], whose value F works on; of the others, none.
LooksLater(from, to, Go, nxt) == \A k \in from .. to : k \in Go => nxt[k] \in k + 1 .. to

StaysIn(from, to, V, F, e) ==
  \A k \in from .. to : e[k] \in V /\ \A v \in V : F[<<k, v>>] \in V

SolvesDownward(g, from, to, V, Go, nxt, F, e) ==
  /\ g \in [from .. to -> V]
  /\ \A k \in from .. to : g[k] = IF k \in Go THEN F[<<k, g[nxt[k]]>>] ELSE e[k]

LEMMA DownwardRecursion ==
  ASSUME NEW from \in Int, NEW to \in Int, NEW V, NEW Go, NEW nxt, NEW F, NEW e,
         LooksLater(from, to, Go, nxt), StaysIn(from, to, V, F, e)
  PROVE  \E g : SolvesDownward(g, from, to, V, Go, nxt, F, e)
  <1> USE DEF LooksLater, StaysIn
  <1> SUFFICES \E g \in [from .. to -> V] :
                 \A k \in from .. to : g[k] = IF k \in Go THEN F[<<k, g[nxt[k]]>>] ELSE e[k]
    BY DEF SolvesDownward
  <1> DEFINE Solves(g, lo) ==
               /\ g \in [lo .. to -> V]
               /\ \A k \in lo .. to : g[k] = IF k \in Go THEN F[<<k, g[nxt[k]]>>] ELSE e[k]
             D == { n \in Nat : to - n + 1 >= from => \E g : Solves(g, to - n + 1) }
  <1>1. 0 \in D
    <2>1. Solves([k \in to + 1 .. to |-> e[k]], to + 1)
      OBVIOUS
    <2>2. to - 0 + 1 = to + 1
      OBVIOUS
    <2> HIDE DEF Solves
    <2> QED BY <2>1, <2>2
  <1>2. ASSUME NEW n \in Nat, n \in D PROVE n + 1 \in D
    <2> SUFFICES ASSUME to - n >= from PROVE \E h : Solves(h, to - n)
      <3>1. to - (n + 1) + 1 = to - n
        OBVIOUS
      <3> HIDE DEF Solves
      <3> QED BY <3>1
    <2> DEFINE lo == to - n
    <2>0. lo \in from .. to /\ lo + 1 = to - n + 1 /\ lo + 1 >= from
      OBVIOUS
    <2>1. PICK g : Solves(g, lo + 1)
      <3> HIDE DEF Solves
      <3> QED BY <1>2, <2>0
    <2> DEFINE x == IF lo \in Go THEN F[<<lo, g[nxt[lo]]>>] ELSE e[lo]
               h == [k \in lo .. to |-> IF k = lo THEN x ELSE g[k]]
    <2> HIDE DEF lo
    <2>2. x \in V
      <3>1. CASE lo \in Go
        <4>1. nxt[lo] \in lo + 1 .. to
          BY <2>0, <3>1
        <4>2. g[nxt[lo]] \in V
          BY <2>1, <4>1
        <4> QED BY <2>0, <3>1, <4>2
      <3>2. CASE lo \notin Go
        BY <2>0, <3>2
      <3> QED BY <3>1, <3>2
    <2>3. h \in [lo .. to -> V]
      <3> SUFFICES ASSUME NEW k \in lo .. to, k # lo PROVE g[k] \in V
        BY <2>2
      <3>1. k \in lo + 1 .. to
        BY <2>0
      <3> QED BY <2>1, <3>1
    <2>4. ASSUME NEW k \in lo .. to PROVE h[k] = IF k \in Go THEN F[<<k, h[nxt[k]]>>] ELSE e[k]
      <3>1. k \in from .. to
        BY <2>0
      <3>2. k \in Go => nxt[k] \in lo + 1 .. to /\ nxt[k] \in lo .. to /\ nxt[k] # lo
        <4>1. k \in Go => nxt[k] \in k + 1 .. to
          BY <3>1
        <4> QED BY <2>0, <4>1
      <3>3. k \in Go => h[nxt[k]] = g[nxt[k]]
        BY <3>2
      <3>4. CASE k = lo
        <4>1. h[k] = x
          BY <3>4
        <4> HIDE DEF h
        <4> QED BY <3>3, <3>4, <4>1
      <3>5. CASE k # lo
        <4>1. h[k] = g[k] /\ k \in lo + 1 .. to
          BY <2>0, <3>5
        <4>2. g[k] = IF k \in Go THEN F[<<k, g[nxt[k]]>>] ELSE e[k]
          BY <2>1, <4>1
        <4> HIDE DEF h
        <4> QED BY <3>3, <4>1, <4>2
      <3> QED BY <3>4, <3>5
    <2>5. Solves(h, lo)
      <3> HIDE DEF h
      <3> QED BY <2>3, <2>4
    <2> QED BY <2>5 DEF lo
  <1> HIDE DEF Solves
  <1>3. Nat \subseteq D
    <2> HIDE DEF D
    <2> QED BY <1>1, <1>2, Induction
  <1>4. CASE to + 1 >= from
    <2>1. to - from + 1 \in Nat /\ to - (to - from + 1) + 1 = from
      BY <1>4
    <2>2. to - from + 1 \in D
      <3> HIDE DEF D
      <3> QED BY <1>3, <2>1
    <2>3. PICK g : Solves(g, from)
      BY <2>1, <2>2
    <2> QED BY <2>3 DEF Solves
  <1>5. CASE ~(to + 1 >= from)
    <2>1. from .. to = {}
      BY <1>5
    <2>2. [k \in from .. to |-> e[k]] \in [from .. to -> V]
      OBVIOUS
    <2> QED BY <2>1, <2>2
  <1> QED BY <1>4, <1>5

\* Following a later place for as long as there is one.
JumpsTo(g, from, to, Go, nxt) ==
  /\ g \in [from .. to -> from .. to]
  /\ \A k \in from .. to : g[k] = IF k \in Go THEN g[nxt[k]] ELSE k

LEMMA JumpExists ==
  ASSUME NEW from \in Int, NEW to \in Int, NEW Go, NEW nxt, LooksLater(from, to, Go, nxt)
  PROVE  \E g : JumpsTo(g, from, to, Go, nxt)
  <1> DEFINE V == from .. to
             F == [kv \in V \X V |-> kv[2]]
             e == [k \in V |-> k]
  <1>1. \A k \in V : e[k] = k /\ \A v \in V : F[<<k, v>>] = v
    OBVIOUS
  <1>2. StaysIn(from, to, V, F, e)
    BY DEF StaysIn
  <1> HIDE DEF V, F, e
  <1>3. PICK g : SolvesDownward(g, from, to, V, Go, nxt, F, e)
    BY <1>2, DownwardRecursion
  <1>4. ASSUME NEW k \in from .. to PROVE g[k] = IF k \in Go THEN g[nxt[k]] ELSE k
    <2>0. g \in [from .. to -> V] /\ g[k] = IF k \in Go THEN F[<<k, g[nxt[k]]>>] ELSE e[k]
      BY <1>3 DEF SolvesDownward
    <2>1. CASE k \in Go
      <3>1. nxt[k] \in from .. to
        BY <2>1 DEF LooksLater
      <3>2. g[nxt[k]] \in V /\ k \in V
        BY <2>0, <3>1 DEF V
      <3>3. F[<<k, g[nxt[k]]>>] = g[nxt[k]]
        BY <1>1, <3>2
      <3> QED BY <2>0, <2>1, <3>3
    <2>2. CASE k \notin Go
      <3>1. g[k] = e[k] /\ k \in V
        BY <2>0, <2>2 DEF V
      <3> QED BY <1>1, <2>2, <3>1
    <2> QED BY <2>1, <2>2
  <1>5. g \in [from .. to -> from .. to]
    BY <1>3 DEF SolvesDownward, V
  <1>6. JumpsTo(g, from, to, Go, nxt)
    BY <1>4, <1>5 DEF JumpsTo
  <1> QED BY <1>6

-----------------------------------------------------------------------------
(* Functions on 1 .. n.                                                    *)

\* A function from 1 .. n is a sequence of length n.
LEMMA FunctionIsSeq ==
  ASSUME NEW S, NEW n \in Nat, NEW f \in [1 .. n -> S]
  PROVE  f \in Seq(S) /\ Len(f) = n
  BY SeqDef

\* A sequence whose elements are in S is a sequence of S.
LEMMA SeqOfElements ==
  ASSUME NEW S, NEW T, NEW s \in Seq(T), \A i \in 1 .. Len(s) : s[i] \in S
  PROVE  s \in Seq(S)
  BY SeqDef

(* A sequence, whatever its elements are.                                  *)
SomeSeq(s) == \E S : s \in Seq(S)

\* The empty one is, and so is one with another element.
LEMMA EmptySomeSeq == SomeSeq(<<>>)
  BY EmptySeq DEF SomeSeq

LEMMA AnyAppend ==
  ASSUME NEW s, SomeSeq(s), NEW e
  PROVE  /\ SomeSeq(Append(s, e)) /\ Len(s) \in Nat /\ Len(Append(s, e)) = Len(s) + 1
         /\ DOMAIN s = 1 .. Len(s) /\ DOMAIN Append(s, e) = 1 .. Len(s) + 1
         /\ Append(s, e) # <<>>
  <1>1. PICK S : s \in Seq(S)
    BY DEF SomeSeq
  <1> DEFINE T == S \cup {e}
  <1>2. s \in Seq(T) /\ e \in T
    BY <1>1, SeqMonotonic
  <1> HIDE DEF T
  <1>3. /\ Append(s, e) \in Seq(T) /\ Len(Append(s, e)) = Len(s) + 1
    BY <1>2, AppendProperties
  <1>4. Len(s) \in Nat /\ DOMAIN s = 1 .. Len(s) /\ DOMAIN Append(s, e) = 1 .. Len(Append(s, e))
    BY <1>2, <1>3, LenProperties
  <1> QED BY <1>3, <1>4 DEF SomeSeq

\* Concatenation is associative, for all the sequences of a set at once.
LEMMA ConcatAssoc ==
  ASSUME NEW S
  PROVE  \A u, v, w \in Seq(S) : (u \o v) \o w = u \o (v \o w)
  BY ConcatAssociative, SMTT(30)

-----------------------------------------------------------------------------
(* Prefixes.                                                               *)

\* The first n elements of a sequence.
LEMMA PrefixProperties ==
  ASSUME NEW S, NEW s \in Seq(S), NEW n \in 0 .. Len(s)
  PROVE  /\ SubSeq(s, 1, n) \in Seq(S)
         /\ Len(SubSeq(s, 1, n)) = n
         /\ \A i \in 1 .. n : SubSeq(s, 1, n)[i] = s[i]
  BY SubSeqProperties

\* One element more is that element appended.
LEMMA PrefixNext ==
  ASSUME NEW S, NEW s \in Seq(S), NEW n \in Nat, n + 1 <= Len(s)
  PROVE  Append(SubSeq(s, 1, n), s[n + 1]) = SubSeq(s, 1, n + 1)
  <1>0. Len(s) \in Nat /\ n \in 0 .. Len(s) /\ n + 1 \in 0 .. Len(s) /\ n + 1 \in 1 .. Len(s)
    BY LenProperties
  <1>1. /\ SubSeq(s, 1, n) \in Seq(S) /\ Len(SubSeq(s, 1, n)) = n
        /\ \A i \in 1 .. n : SubSeq(s, 1, n)[i] = s[i]
    BY <1>0, PrefixProperties
  <1>2. /\ SubSeq(s, 1, n + 1) \in Seq(S) /\ Len(SubSeq(s, 1, n + 1)) = n + 1
        /\ \A i \in 1 .. n + 1 : SubSeq(s, 1, n + 1)[i] = s[i]
    BY <1>0, PrefixProperties
  <1>3. s[n + 1] \in S
    BY <1>0, ElementOfSeq
  <1> DEFINE a == Append(SubSeq(s, 1, n), s[n + 1])
  <1>4. a \in Seq(S) /\ Len(a) = n + 1 /\ a[n + 1] = s[n + 1]
        /\ \A i \in 1 .. n : a[i] = SubSeq(s, 1, n)[i]
    BY <1>1, <1>3, AppendProperties
  <1> HIDE DEF a
  <1>5. \A i \in 1 .. n + 1 : a[i] = SubSeq(s, 1, n + 1)[i]
    BY <1>1, <1>2, <1>4
  <1>6. a = SubSeq(s, 1, n + 1)
    BY <1>2, <1>4, <1>5, SeqEqual
  <1> QED BY <1>6 DEF a

\* Appending and dropping the last element.
LEMMA PrefixOfAppend ==
  ASSUME NEW S, NEW s \in Seq(S), NEW e \in S
  PROVE  /\ Append(s, e) \in Seq(S) /\ Len(Append(s, e)) = Len(s) + 1
         /\ Append(s, e)[Len(s) + 1] = e
         /\ SubSeq(Append(s, e), 1, Len(s)) = s
  <1> DEFINE a == Append(s, e)
             b == SubSeq(a, 1, Len(s))
  <1>1. /\ a \in Seq(S) /\ Len(a) = Len(s) + 1 /\ a[Len(s) + 1] = e /\ Len(s) \in Nat
        /\ \A i \in 1 .. Len(s) : a[i] = s[i]
    BY AppendProperties, LenProperties
  <1> HIDE DEF a
  <1>2. Len(s) \in 0 .. Len(a)
    BY <1>1
  <1>3. b \in Seq(S) /\ Len(b) = Len(s) /\ \A i \in 1 .. Len(s) : b[i] = a[i]
    BY <1>1, <1>2, PrefixProperties
  <1> HIDE DEF b
  <1>4. b = s
    BY <1>1, <1>3, SeqEqual
  <1> QED BY <1>1, <1>4 DEF a, b

\* A sequence is a shorter one and its last element, or empty: what holds of the
\* empty sequence and is kept by Append holds of every prefix.
LEMMA PrefixInduction ==
  ASSUME NEW E, NEW s \in Seq(E), NEW P, SubSeq(s, 1, 0) \in P,
         \A n \in Nat : n + 1 <= Len(s) /\ SubSeq(s, 1, n) \in P
                          => Append(SubSeq(s, 1, n), s[n + 1]) \in P
  PROVE  s \in P
  <1> DEFINE S == { n \in Nat : n <= Len(s) => SubSeq(s, 1, n) \in P }
  <1>0. Len(s) \in Nat
    BY LenProperties
  <1>1. 0 \in S
    OBVIOUS
  <1>2. ASSUME NEW n \in Nat, n \in S PROVE n + 1 \in S
    <2> SUFFICES ASSUME n + 1 <= Len(s) PROVE SubSeq(s, 1, n + 1) \in P
      OBVIOUS
    <2>1. SubSeq(s, 1, n) \in P
      BY <1>0, <1>2
    <2> QED BY <2>1, PrefixNext
  <1> HIDE DEF S
  <1>3. Len(s) \in S
    BY <1>0, <1>1, <1>2, Induction
  <1>4. SubSeq(s, 1, Len(s)) \in P
    BY <1>0, <1>3 DEF S
  <1> QED BY <1>4, SubSeqFull

\* A prefix agrees with the sequence as far as it goes.
LEMMA PrefixPointwise ==
  ASSUME NEW S, NEW u \in Seq(S), NEW s \in Seq(S)
  PROVE  IsPrefix(u, s) <=> Len(u) <= Len(s) /\ \A i \in 1 .. Len(u) : u[i] = s[i]
  <1>0. Len(u) \in Nat /\ Len(s) \in Nat /\ SubSeq(u, 1, Len(u)) = u
    BY LenProperties, SubSeqFull
  <1> SUFFICES ASSUME Len(u) <= Len(s)
               PROVE  u = SubSeq(s, 1, Len(u)) <=> \A i \in 1 .. Len(u) : u[i] = s[i]
    BY <1>0 DEF IsPrefix
  <1> DEFINE v == SubSeq(s, 1, Len(u))
  <1>1. v \in Seq(S) /\ Len(v) = Len(u) /\ \A i \in 1 .. Len(u) : v[i] = s[i]
    <2>1. Len(u) \in 0 .. Len(s)
      BY <1>0
    <2> QED BY <2>1, PrefixProperties
  <1> HIDE DEF v
  <1>2. ASSUME u = v PROVE \A i \in 1 .. Len(u) : u[i] = s[i]
    BY <1>1, <1>2
  <1>3. ASSUME \A i \in 1 .. Len(u) : u[i] = s[i] PROVE u = v
    <2>1. \A i \in 1 .. Len(u) : u[i] = v[i]
      BY <1>1, <1>3
    <2> QED BY <1>1, <2>1, SeqEqual
  <1> QED BY <1>2, <1>3 DEF v

\* What is in front of a concatenation that is a prefix is one, and so is a
\* prefix of a prefix.
LEMMA PrefixOfConcat ==
  ASSUME NEW S, NEW u \in Seq(S), NEW v \in Seq(S), NEW s \in Seq(S), IsPrefix(u \o v, s)
  PROVE  IsPrefix(u, s)
  <1>0. Len(u) \in Nat /\ Len(v) \in Nat /\ Len(s) \in Nat
    BY LenProperties
  <1> DEFINE w == u \o v
  <1>1. /\ w \in Seq(S) /\ Len(w) = Len(u) + Len(v)
        /\ \A i \in 1 .. Len(u) + Len(v) : w[i] = IF i <= Len(u) THEN u[i] ELSE v[i - Len(u)]
    BY ConcatProperties
  <1> HIDE DEF w
  <1>2. IsPrefix(w, s)
    BY DEF w
  <1>3. Len(w) <= Len(s) /\ \A i \in 1 .. Len(w) : w[i] = s[i]
    BY <1>1, <1>2, PrefixPointwise
  <1>4. ASSUME NEW i \in 1 .. Len(u) PROVE u[i] = s[i]
    <2>1. i \in 1 .. Len(w) /\ i <= Len(u)
      BY <1>0, <1>1
    <2> QED BY <1>1, <1>3, <2>1
  <1>5. Len(u) <= Len(s)
    BY <1>0, <1>1, <1>3
  <1> QED BY <1>4, <1>5, PrefixPointwise

LEMMA PrefixOfPrefix ==
  ASSUME NEW S, NEW u \in Seq(S), NEW s \in Seq(S), IsPrefix(u, s), NEW n \in 0 .. Len(u)
  PROVE  SubSeq(u, 1, n) \in Seq(S) /\ IsPrefix(SubSeq(u, 1, n), s)
  <1> DEFINE v == SubSeq(u, 1, n)
  <1>0. Len(u) \in Nat /\ Len(s) \in Nat
    BY LenProperties
  <1>1. v \in Seq(S) /\ Len(v) = n /\ \A i \in 1 .. n : v[i] = u[i]
    BY PrefixProperties
  <1> HIDE DEF v
  <1>2. Len(u) <= Len(s) /\ \A i \in 1 .. Len(u) : u[i] = s[i]
    BY PrefixPointwise
  <1>3. Len(v) <= Len(s) /\ \A i \in 1 .. Len(v) : v[i] = s[i]
    BY <1>0, <1>1, <1>2
  <1>4. IsPrefix(v, s)
    BY <1>1, <1>3, PrefixPointwise
  <1> QED BY <1>1, <1>4 DEF v

-----------------------------------------------------------------------------
(* The flattening of a sequence of sequences.                              *)

\* What the first n of the sequences ss flatten to, by the equation of FlattenSeq.
IsFlattening(g, ss, n) ==
  g = [i \in 1 .. n |-> IF i = 1 THEN ss[i] ELSE g[i - 1] \o ss[i]]

\* The equation has a solution for every number of sequences.
LEMMA FlatteningExists ==
  ASSUME NEW ss, NEW n \in Nat
  PROVE  \E g : IsFlattening(g, ss, n)
  <1> DEFINE S == { m \in Nat : \E g : IsFlattening(g, ss, m) }
  <1>1. 0 \in S
    <2>1. IsFlattening([i \in 1 .. 0 |-> ss], ss, 0)
      BY DEF IsFlattening
    <2> QED BY <2>1
  <1>2. ASSUME NEW m \in Nat, m \in S PROVE m + 1 \in S
    <2>1. PICK g : IsFlattening(g, ss, m)
      BY <1>2
    <2> DEFINE h == [i \in 1 .. m + 1 |->
                       IF i = 1 THEN ss[i]
                       ELSE IF i = m + 1 THEN g[m] \o ss[i] ELSE g[i]]
    <2>2. \A i \in 1 .. m : h[i] = g[i]
      BY <2>1 DEF IsFlattening
    <2>3. h = [i \in 1 .. m + 1 |-> IF i = 1 THEN ss[i] ELSE h[i - 1] \o ss[i]]
      <3> SUFFICES ASSUME NEW i \in 1 .. m + 1
                   PROVE  h[i] = IF i = 1 THEN ss[i] ELSE h[i - 1] \o ss[i]
        OBVIOUS
      <3>1. CASE i = 1
        BY <3>1
      <3>2. CASE i # 1 /\ i = m + 1
        <4>1. m \in 1 .. m /\ i - 1 = m
          BY <3>2
        <4>2. h[i] = g[m] \o ss[i] /\ h[m] = g[m]
          BY <2>2, <3>2, <4>1
        <4> QED BY <3>2, <4>1, <4>2
      <3>3. CASE i # 1 /\ i # m + 1
        <4>1. i \in 1 .. m /\ i - 1 \in 1 .. m
          BY <3>3
        <4>2. g[i] = g[i - 1] \o ss[i]
          BY <2>1, <3>3, <4>1 DEF IsFlattening
        <4> HIDE DEF h
        <4> QED BY <2>2, <3>3, <4>1, <4>2
      <3> QED BY <3>1, <3>2, <3>3
    <2> HIDE DEF h
    <2>4. IsFlattening(h, ss, m + 1)
      BY <2>3 DEF IsFlattening
    <2> QED BY <2>4
  <1> HIDE DEF S
  <1>3. n \in S
    BY <1>1, <1>2, Induction
  <1> QED BY <1>3 DEF S

\* FlattenSeq is the last value of a solution.
LEMMA FlattenSeqDef ==
  ASSUME NEW ss, Len(ss) \in Nat \ {0}
  PROVE  \E g : IsFlattening(g, ss, Len(ss)) /\ FlattenSeq(ss) = g[Len(ss)]
  <1> DEFINE n == Len(ss)
             flatten == CHOOSE g : g = [i \in 1 .. n |-> IF i = 1 THEN ss[i] ELSE g[i - 1] \o ss[i]]
  <1>1. \E g : g = [i \in 1 .. n |-> IF i = 1 THEN ss[i] ELSE g[i - 1] \o ss[i]]
    BY FlatteningExists DEF IsFlattening
  <1>2. flatten = [i \in 1 .. n |-> IF i = 1 THEN ss[i] ELSE flatten[i - 1] \o ss[i]]
    BY <1>1
  <1>3. FlattenSeq(ss) = flatten[n]
    BY DEF FlattenSeq
  <1> HIDE DEF flatten
  <1>4. IsFlattening(flatten, ss, n)
    BY <1>2 DEF IsFlattening
  <1> QED BY <1>3, <1>4

\* A flattening is a sequence of elements of the parts.
LEMMA FlattenSeqType ==
  ASSUME NEW E, NEW ss \in Seq(Seq(E))
  PROVE  FlattenSeq(ss) \in Seq(E)
  <1>1. CASE Len(ss) = 0
    BY <1>1 DEF FlattenSeq
  <1>2. CASE Len(ss) # 0
    <2>1. Len(ss) \in Nat \ {0} /\ \A i \in 1 .. Len(ss) : ss[i] \in Seq(E)
      BY <1>2
    <2>2. PICK g : IsFlattening(g, ss, Len(ss)) /\ FlattenSeq(ss) = g[Len(ss)]
      BY <2>1, FlattenSeqDef
    <2> DEFINE S == { m \in Nat : m + 1 \in 1 .. Len(ss) => g[m + 1] \in Seq(E) }
    <2>3. 0 \in S
      BY <2>1, <2>2 DEF IsFlattening
    <2>4. ASSUME NEW m \in Nat, m \in S PROVE m + 1 \in S
      <3> SUFFICES ASSUME m + 2 \in 1 .. Len(ss) PROVE g[m + 2] \in Seq(E)
        OBVIOUS
      <3>1. m + 1 \in 1 .. Len(ss) /\ (m + 2) - 1 = m + 1 /\ m + 2 # 1
        BY <2>1
      <3>2. g[m + 1] \in Seq(E)
        BY <2>4, <3>1
      <3>3. g[m + 2] = g[m + 1] \o ss[m + 2]
        BY <2>2, <3>1 DEF IsFlattening
      <3> QED BY <2>1, <3>2, <3>3
    <2> HIDE DEF S
    <2>5. Nat \subseteq S
      BY <2>3, <2>4, Induction
    <2>6. Len(ss) - 1 \in S /\ (Len(ss) - 1) + 1 = Len(ss)
      BY <2>1, <2>5
    <2> QED BY <2>1, <2>2, <2>6 DEF S
  <1> QED BY <1>1, <1>2, LenProperties

\* Two solutions agree on the sequences that both flatten.
LEMMA FlatteningUnique ==
  ASSUME NEW ss, NEW tt, NEW m \in Nat, NEW n \in Nat, NEW g, NEW h, m <= n,
         IsFlattening(g, ss, m), IsFlattening(h, tt, n)
  PROVE  (\A i \in 1 .. m : ss[i] = tt[i]) => \A i \in 1 .. m : g[i] = h[i]
  <1> SUFFICES ASSUME \A i \in 1 .. m : ss[i] = tt[i] PROVE \A i \in 1 .. m : g[i] = h[i]
    OBVIOUS
  <1> DEFINE S == { k \in Nat : k + 1 <= m => g[k + 1] = h[k + 1] }
  <1>1. 0 \in S
    BY DEF IsFlattening
  <1>2. ASSUME NEW k \in Nat, k \in S PROVE k + 1 \in S
    <2> SUFFICES ASSUME k + 2 <= m PROVE g[k + 2] = h[k + 2]
      OBVIOUS
    <2>1. /\ g[k + 1] = h[k + 1] /\ k + 2 \in 1 .. m /\ k + 2 \in 1 .. n /\ k + 2 # 1
          /\ (k + 2) - 1 = k + 1
      BY <1>2
    <2>2. g[k + 2] = g[k + 1] \o ss[k + 2]
      <3>1. \A j \in 1 .. m : j # 1 => g[j] = g[j - 1] \o ss[j]
        BY DEF IsFlattening
      <3> QED BY <2>1, <3>1
    <2>3. h[k + 2] = h[k + 1] \o tt[k + 2]
      <3>1. \A j \in 1 .. n : j # 1 => h[j] = h[j - 1] \o tt[j]
        BY DEF IsFlattening
      <3> QED BY <2>1, <3>1
    <2>4. ss[k + 2] = tt[k + 2]
      BY <2>1
    <2> QED BY <2>1, <2>2, <2>3, <2>4
  <1> HIDE DEF S
  <1>3. Nat \subseteq S
    BY <1>1, <1>2, Induction
  <1>4. ASSUME NEW i \in 1 .. m PROVE g[i] = h[i]
    <2>1. i - 1 \in S /\ (i - 1) + 1 = i
      BY <1>3
    <2> QED BY <2>1 DEF S
  <1> QED BY <1>4

\* Nothing flattens to nothing, and one sequence more is appended.
LEMMA FlattenEmpty == FlattenSeq(<<>>) = <<>>
  BY DEF FlattenSeq

LEMMA FlattenExtend ==
  ASSUME NEW ss, NEW tt, NEW n \in Nat, n # 0, Len(ss) = n, Len(tt) = n + 1,
         \A i \in 1 .. n : tt[i] = ss[i]
  PROVE  FlattenSeq(tt) = FlattenSeq(ss) \o tt[n + 1]
  <1>1. PICK g : IsFlattening(g, ss, n) /\ FlattenSeq(ss) = g[n]
    BY FlattenSeqDef
  <1>2. PICK h : IsFlattening(h, tt, n + 1) /\ FlattenSeq(tt) = h[n + 1]
    BY FlattenSeqDef
  <1>3. g[n] = h[n]
    <2>1. n \in 1 .. n /\ n <= n + 1 /\ n + 1 \in Nat
      OBVIOUS
    <2>2. \A i \in 1 .. n : ss[i] = tt[i]
      OBVIOUS
    <2>3. \A i \in 1 .. n : g[i] = h[i]
      BY <1>1, <1>2, <2>1, <2>2, FlatteningUnique, SMTT(30)
    <2> QED BY <2>1, <2>3
  <1>4. h[n + 1] = h[n] \o tt[n + 1]
    <2>1. n + 1 \in 1 .. n + 1 /\ n + 1 # 1 /\ (n + 1) - 1 = n
      OBVIOUS
    <2> QED BY <1>2, <2>1 DEF IsFlattening
  <1> QED BY <1>1, <1>2, <1>3, <1>4

LEMMA FlattenAppend ==
  ASSUME NEW E, NEW ss \in Seq(Seq(E)), NEW s \in Seq(E)
  PROVE  FlattenSeq(Append(ss, s)) = FlattenSeq(ss) \o s
  <1> DEFINE tt == Append(ss, s)
             n  == Len(ss)
  <1>1. /\ n \in Nat /\ tt \in Seq(Seq(E)) /\ Len(tt) = n + 1 /\ tt[n + 1] = s
        /\ \A i \in 1 .. n : tt[i] = ss[i]
    BY AppendProperties, LenProperties
  <1> HIDE DEF tt
  <1>3. CASE n = 0
    <2>0. PICK h : IsFlattening(h, tt, n + 1) /\ FlattenSeq(tt) = h[n + 1]
      BY <1>1, FlattenSeqDef
    <2>1. h[1] = tt[1]
      BY <1>1, <1>3, <2>0 DEF IsFlattening
    <2>2. ss = <<>>
      BY <1>3, EmptySeq
    <2>3. FlattenSeq(ss) \o s = s
      BY <2>2, FlattenEmpty, ConcatEmptySeq
    <2> QED BY <1>1, <1>3, <2>0, <2>1, <2>3 DEF tt
  <1>4. CASE n # 0
    <2>1. FlattenSeq(tt) = FlattenSeq(ss) \o tt[n + 1]
      BY <1>1, <1>4, FlattenExtend
    <2> QED BY <1>1, <2>1 DEF tt
  <1> QED BY <1>1, <1>3, <1>4

LEMMA FlattenOne ==
  ASSUME NEW E, NEW s \in Seq(E)
  PROVE  FlattenSeq(<<s>>) = s
  <1>1. <<>> \in Seq(Seq(E)) /\ <<s>> = Append(<<>>, s)
    BY EmptySeq
  <1>2. FlattenSeq(<<s>>) = <<>> \o s
    BY <1>1, FlattenAppend, FlattenEmpty
  <1> QED BY <1>2, ConcatEmptySeq

\* The flattening of a concatenation.
LEMMA FlattenConcat ==
  ASSUME NEW E, NEW ss \in Seq(Seq(E)), NEW tt \in Seq(Seq(E))
  PROVE  FlattenSeq(ss \o tt) = FlattenSeq(ss) \o FlattenSeq(tt)
  <1> DEFINE P == { uu \in Seq(Seq(E)) : FlattenSeq(ss \o uu) = FlattenSeq(ss) \o FlattenSeq(uu) }
  <1>0. FlattenSeq(ss) \in Seq(E) /\ Len(tt) \in Nat
    BY FlattenSeqType, LenProperties
  <1>1. SubSeq(tt, 1, 0) \in P
    <2>1. SubSeq(tt, 1, 0) = <<>> /\ <<>> \in Seq(Seq(E))
      BY SubSeqEmpty, EmptySeq
    <2>2. ss \o <<>> = ss /\ FlattenSeq(ss) \o <<>> = FlattenSeq(ss)
      BY <1>0, ConcatEmptySeq
    <2> QED BY <2>1, <2>2, FlattenEmpty
  <1>2. ASSUME NEW n \in Nat, n + 1 <= Len(tt), SubSeq(tt, 1, n) \in P
        PROVE  Append(SubSeq(tt, 1, n), tt[n + 1]) \in P
    <2> DEFINE uu == SubSeq(tt, 1, n)
               u  == tt[n + 1]
    <2>1. uu \in Seq(Seq(E)) /\ FlattenSeq(ss \o uu) = FlattenSeq(ss) \o FlattenSeq(uu)
      BY <1>2
    <2>2. u \in Seq(E)
      <3>1. n + 1 \in 1 .. Len(tt)
        BY <1>0, <1>2
      <3> QED BY <3>1, ElementOfSeq
    <2> HIDE DEF uu, u
    <2>3. Append(uu, u) \in Seq(Seq(E)) /\ ss \o uu \in Seq(Seq(E)) /\ FlattenSeq(uu) \in Seq(E)
      BY <2>1, <2>2, AppendProperties, ConcatProperties, FlattenSeqType
    <2>4. ss \o Append(uu, u) = Append(ss \o uu, u)
      BY <2>1, <2>2
    <2>5. FlattenSeq(ss \o Append(uu, u)) = (FlattenSeq(ss) \o FlattenSeq(uu)) \o u
      BY <2>1, <2>2, <2>3, <2>4, FlattenAppend
    <2>6. (FlattenSeq(ss) \o FlattenSeq(uu)) \o u = FlattenSeq(ss) \o (FlattenSeq(uu) \o u)
      BY <1>0, <2>2, <2>3, ConcatAssociative, SMTT(30)
    <2>7. FlattenSeq(Append(uu, u)) = FlattenSeq(uu) \o u
      BY <2>1, <2>2, FlattenAppend
    <2>8. Append(uu, u) \in P
      BY <2>3, <2>5, <2>6, <2>7
    <2> QED BY <2>8 DEF uu, u
  <1> HIDE DEF P
  <1>3. tt \in P
    BY <1>1, <1>2, PrefixInduction
  <1> QED BY <1>3 DEF P

\* One sequence in front.
LEMMA FlattenCons ==
  ASSUME NEW E, NEW s \in Seq(E), NEW tt \in Seq(Seq(E))
  PROVE  /\ <<s>> \o tt \in Seq(Seq(E))
         /\ FlattenSeq(<<s>> \o tt) = s \o FlattenSeq(tt)
  <1>1. <<s>> \in Seq(Seq(E))
    OBVIOUS
  <1>2. <<s>> \o tt \in Seq(Seq(E))
    BY <1>1, ConcatProperties
  <1>3. FlattenSeq(<<s>> \o tt) = FlattenSeq(<<s>>) \o FlattenSeq(tt)
    BY <1>1, FlattenConcat
  <1>4. FlattenSeq(<<s>>) = s
    BY FlattenOne
  <1> QED BY <1>2, <1>3, <1>4

\* The first n sequences flatten to a prefix of what all of them do.
LEMMA FlattenSplit ==
  ASSUME NEW E, NEW ss \in Seq(Seq(E)), NEW n \in 0 .. Len(ss)
  PROVE  \E rest \in Seq(E) : FlattenSeq(ss) = FlattenSeq(SubSeq(ss, 1, n)) \o rest
  <1> DEFINE a == SubSeq(ss, 1, n)
             b == SubSeq(ss, n + 1, Len(ss))
  <1>0. Len(ss) \in Nat /\ n \in Nat
    BY LenProperties
  <1>1. a \o b = ss
    <2>1. SubSeq(ss, 1, n) \o SubSeq(ss, n + 1, Len(ss)) = SubSeq(ss, 1, Len(ss))
      <3>1. /\ 1 \in 1 .. Len(ss) + 1 /\ n \in 1 - 1 .. Len(ss) /\ Len(ss) \in n .. Len(ss)
        BY <1>0
      <3> QED BY <3>1, ConcatAdjacentSubSeq
    <2> QED BY <2>1, SubSeqFull
  <1>2. a \in Seq(Seq(E))
    BY PrefixProperties
  <1>3. b \in Seq(Seq(E))
    <2>1. \A k \in n + 1 .. Len(ss) : ss[k] \in Seq(E)
      BY <1>0, ElementOfSeq
    <2> QED BY <1>0, <2>1, SubSeqProperties
  <1> HIDE DEF a, b
  <1>4. FlattenSeq(ss) = FlattenSeq(a) \o FlattenSeq(b) /\ FlattenSeq(b) \in Seq(E)
    BY <1>1, <1>2, <1>3, FlattenConcat, FlattenSeqType
  <1> QED BY <1>4 DEF a

\* The elements of a sequence, each on its own.
LEMMA FlattenSingles ==
  ASSUME NEW E, NEW s \in Seq(E)
  PROVE  /\ [k \in 1 .. Len(s) |-> <<s[k]>>] \in Seq(Seq(E) \ {<<>>})
         /\ FlattenSeq([k \in 1 .. Len(s) |-> <<s[k]>>]) = s
  <1> DEFINE Ones(u) == [k \in 1 .. Len(u) |-> <<u[k]>>]
             P == { u \in Seq(E) : FlattenSeq(Ones(u)) = u }
  <1>0. ASSUME NEW u \in Seq(E)
        PROVE  Len(u) \in Nat /\ Ones(u) \in Seq(Seq(E) \ {<<>>}) /\ Len(Ones(u)) = Len(u)
               /\ Ones(u) \in Seq(Seq(E))
    <2>1. Len(u) \in Nat /\ \A k \in 1 .. Len(u) : <<u[k]>> \in Seq(E) \ {<<>>}
      BY LenProperties, ElementOfSeq
    <2>2. Ones(u) \in [1 .. Len(u) -> Seq(E) \ {<<>>}]
      BY <2>1
    <2> HIDE DEF Ones
    <2>3. Ones(u) \in Seq(Seq(E) \ {<<>>}) /\ Len(Ones(u)) = Len(u)
      BY <2>1, <2>2, FunctionIsSeq, Zenon
    <2> QED BY <2>1, <2>3, SeqMonotonic
  <1>1. SubSeq(s, 1, 0) \in P
    <2>1. SubSeq(s, 1, 0) = <<>> /\ <<>> \in Seq(E)
      BY SubSeqEmpty, EmptySeq
    <2>2. Ones(<<>>) = <<>>
      BY <1>0, <2>1, EmptySeq
    <2> QED BY <2>1, <2>2, FlattenEmpty
  <1>2. ASSUME NEW n \in Nat, n + 1 <= Len(s), SubSeq(s, 1, n) \in P
        PROVE  Append(SubSeq(s, 1, n), s[n + 1]) \in P
    <2> DEFINE u == SubSeq(s, 1, n)
               e == s[n + 1]
               v == Append(u, e)
    <2>1. u \in Seq(E) /\ FlattenSeq(Ones(u)) = u
      BY <1>2
    <2>2. e \in E
      <3>1. n + 1 \in 1 .. Len(s)
        BY <1>2, LenProperties
      <3> QED BY <3>1, ElementOfSeq
    <2> HIDE DEF u, e
    <2>3. /\ v \in Seq(E) /\ Len(v) = Len(u) + 1 /\ v[Len(u) + 1] = e
          /\ \A k \in 1 .. Len(u) : v[k] = u[k]
      BY <2>1, <2>2, AppendProperties
    <2> HIDE DEF v
    <2>4. Ones(v) = Append(Ones(u), <<e>>)
      <3> DEFINE w == Append(Ones(u), <<e>>)
      <3>1. <<e>> \in Seq(E)
        BY <2>2
      <3>2. /\ Ones(u) \in Seq(Seq(E)) /\ Len(Ones(u)) = Len(u) /\ Len(u) \in Nat
            /\ Ones(v) \in Seq(Seq(E)) /\ Len(Ones(v)) = Len(u) + 1
        BY <1>0, <2>1, <2>3
      <3>3. \A k \in 1 .. Len(u) + 1 : Ones(v)[k] = IF k <= Len(u) THEN Ones(u)[k] ELSE <<e>>
        BY <2>3, <3>2
      <3>7. Ones(v)[Len(u) + 1] = <<e>>
        BY <2>3, <3>2
      <3> HIDE DEF Ones
      <3>4. /\ w \in Seq(Seq(E)) /\ Len(w) = Len(u) + 1 /\ w[Len(u) + 1] = <<e>>
            /\ \A k \in 1 .. Len(u) : w[k] = Ones(u)[k]
        <4>1. /\ w \in Seq(Seq(E)) /\ Len(w) = Len(Ones(u)) + 1 /\ w[Len(Ones(u)) + 1] = <<e>>
              /\ \A k \in 1 .. Len(Ones(u)) : w[k] = Ones(u)[k]
          BY <3>1, <3>2, AppendProperties
        <4> QED BY <3>2, <4>1
      <3> HIDE DEF w
      <3>5. \A k \in 1 .. Len(u) + 1 : Ones(v)[k] = w[k]
        <4> TAKE k \in 1 .. Len(u) + 1
        <4>1. CASE k \in 1 .. Len(u)
          <5>1. Ones(v)[k] = Ones(u)[k]
            BY <3>2, <3>3, <4>1
          <5> QED BY <3>4, <4>1, <5>1
        <4>2. CASE k = Len(u) + 1
          <5>1. Ones(v)[k] = <<e>>
            BY <3>7, <4>2
          <5> QED BY <3>4, <4>2, <5>1
        <4> QED BY <3>2, <4>1, <4>2
      <3>6. Ones(v) = w
        BY <3>2, <3>4, <3>5, SeqEqual
      <3> QED BY <3>6 DEF w
    <2>5. Ones(u) \in Seq(Seq(E)) /\ <<e>> \in Seq(E)
      BY <1>0, <2>1, <2>2
    <2> HIDE DEF Ones
    <2>6. FlattenSeq(Ones(v)) = FlattenSeq(Ones(u)) \o <<e>>
      BY <2>4, <2>5, FlattenAppend
    <2>7. v = u \o <<e>>
      BY <2>1, <2>2, AppendIsConcat DEF v
    <2>8. v \in P
      BY <2>1, <2>3, <2>6, <2>7
    <2> QED BY <2>8 DEF u, e, v
  <1> HIDE DEF P
  <1>3. s \in P
    BY <1>1, <1>2, PrefixInduction
  <1> QED BY <1>0, <1>3 DEF P

\* Sequences that are not empty flatten to at least one element each.
LEMMA FlattenLength ==
  ASSUME NEW E, NEW ss \in Seq(Seq(E) \ {<<>>})
  PROVE  Len(ss) <= Len(FlattenSeq(ss))
  <1> DEFINE P == { uu \in Seq(Seq(E) \ {<<>>}) : Len(uu) <= Len(FlattenSeq(uu)) }
  <1>0. Len(ss) \in Nat
    BY LenProperties
  <1>1. SubSeq(ss, 1, 0) \in P
    <2>1. SubSeq(ss, 1, 0) = <<>> /\ <<>> \in Seq(Seq(E) \ {<<>>}) /\ Len(<<>>) = 0
      BY SubSeqEmpty, EmptySeq
    <2> QED BY <2>1, FlattenEmpty
  <1>2. ASSUME NEW n \in Nat, n + 1 <= Len(ss), SubSeq(ss, 1, n) \in P
        PROVE  Append(SubSeq(ss, 1, n), ss[n + 1]) \in P
    <2> DEFINE uu == SubSeq(ss, 1, n)
               u  == ss[n + 1]
    <2>1. uu \in Seq(Seq(E) \ {<<>>}) /\ Len(uu) <= Len(FlattenSeq(uu))
      BY <1>2
    <2>2. u \in Seq(E) \ {<<>>}
      <3>1. n + 1 \in 1 .. Len(ss)
        BY <1>0, <1>2
      <3> QED BY <3>1, ElementOfSeq
    <2> HIDE DEF uu, u
    <2>3. uu \in Seq(Seq(E)) /\ FlattenSeq(uu) \in Seq(E)
      BY <2>1, SeqMonotonic, FlattenSeqType
    <2>4. FlattenSeq(Append(uu, u)) = FlattenSeq(uu) \o u
      BY <2>2, <2>3, FlattenAppend
    <2>5. Len(FlattenSeq(Append(uu, u))) = Len(FlattenSeq(uu)) + Len(u)
      BY <2>2, <2>3, <2>4, ConcatProperties
    <2>6. Len(u) \in Nat \ {0}
      BY <2>2, EmptySeq
    <2>7. Append(uu, u) \in Seq(Seq(E) \ {<<>>}) /\ Len(Append(uu, u)) = Len(uu) + 1
      BY <2>1, <2>2, AppendProperties
    <2>8. Len(uu) \in Nat /\ Len(FlattenSeq(uu)) \in Nat
      BY <2>1, <2>3, LenProperties
    <2>9. Append(uu, u) \in P
      BY <2>1, <2>5, <2>6, <2>7, <2>8
    <2> QED BY <2>9 DEF uu, u
  <1> HIDE DEF P
  <1>3. ss \in P
    BY <1>1, <1>2, PrefixInduction
  <1> QED BY <1>3 DEF P

\* What holds of the empty sequence and of a concatenation when it holds of
\* both sides holds of a flattening when it holds of the parts.
LEMMA FlattenClosed ==
  ASSUME NEW E, NEW P \in SUBSET Seq(E), <<>> \in P, \A s, t \in P : s \o t \in P,
         NEW ss \in Seq(P)
  PROVE  FlattenSeq(ss) \in P
  <1> DEFINE Q == { uu \in Seq(P) : FlattenSeq(uu) \in P }
  <1>0. Len(ss) \in Nat
    BY LenProperties
  <1>1. SubSeq(ss, 1, 0) \in Q
    <2>1. SubSeq(ss, 1, 0) = <<>> /\ <<>> \in Seq(P)
      BY SubSeqEmpty, EmptySeq
    <2> QED BY <2>1, FlattenEmpty
  <1>2. ASSUME NEW n \in Nat, n + 1 <= Len(ss), SubSeq(ss, 1, n) \in Q
        PROVE  Append(SubSeq(ss, 1, n), ss[n + 1]) \in Q
    <2> DEFINE uu == SubSeq(ss, 1, n)
               u  == ss[n + 1]
    <2>1. uu \in Seq(P) /\ FlattenSeq(uu) \in P
      BY <1>2
    <2>2. u \in P
      <3>1. n + 1 \in 1 .. Len(ss)
        BY <1>0, <1>2
      <3> QED BY <3>1, ElementOfSeq
    <2> HIDE DEF uu, u
    <2>3. uu \in Seq(Seq(E)) /\ u \in Seq(E)
      BY <2>1, <2>2, SeqMonotonic
    <2>4. FlattenSeq(Append(uu, u)) = FlattenSeq(uu) \o u
      BY <2>3, FlattenAppend
    <2>5. Append(uu, u) \in Seq(P)
      BY <2>1, <2>2, AppendProperties
    <2>6. Append(uu, u) \in Q
      BY <2>1, <2>2, <2>4, <2>5
    <2> QED BY <2>6 DEF uu, u
  <1> HIDE DEF Q
  <1>3. ss \in Q
    BY <1>1, <1>2, PrefixInduction
  <1> QED BY <1>3 DEF Q

\* Sequences that correspond element by element still do when others that do
\* are appended.
LEMMA ConcatPairs ==
  ASSUME NEW E, NEW F, NEW R,
         NEW s \in Seq(E), NEW t \in Seq(F), NEW u \in Seq(E), NEW v \in Seq(F),
         Len(t) = Len(s), \A i \in 1 .. Len(s) : <<s[i], t[i]>> \in R,
         Len(v) = Len(u), \A i \in 1 .. Len(u) : <<u[i], v[i]>> \in R
  PROVE  /\ s \o u \in Seq(E) /\ t \o v \in Seq(F)
         /\ Len(t \o v) = Len(s \o u)
         /\ \A i \in 1 .. Len(s \o u) : <<(s \o u)[i], (t \o v)[i]>> \in R
  <1>0. Len(s) \in Nat /\ Len(u) \in Nat
    BY LenProperties
  <1>1. /\ s \o u \in Seq(E) /\ Len(s \o u) = Len(s) + Len(u)
        /\ \A i \in 1 .. Len(s) + Len(u) :
             (s \o u)[i] = IF i <= Len(s) THEN s[i] ELSE u[i - Len(s)]
    BY ConcatProperties
  <1>a. /\ t \o v \in Seq(F) /\ Len(t \o v) = Len(t) + Len(v)
        /\ \A i \in 1 .. Len(t) + Len(v) :
             (t \o v)[i] = IF i <= Len(t) THEN t[i] ELSE v[i - Len(t)]
    BY ConcatProperties
  <1>2. /\ t \o v \in Seq(F) /\ Len(t \o v) = Len(s) + Len(u)
        /\ \A i \in 1 .. Len(s) + Len(u) :
             (t \o v)[i] = IF i <= Len(s) THEN t[i] ELSE v[i - Len(s)]
    BY <1>a, Zenon
  <1>3. ASSUME NEW i \in 1 .. Len(s) + Len(u) PROVE <<(s \o u)[i], (t \o v)[i]>> \in R
    <2>1. CASE i <= Len(s)
      <3>1. i \in 1 .. Len(s)
        BY <1>0, <2>1
      <3> QED BY <1>1, <1>2, <2>1, <3>1
    <2>2. CASE ~(i <= Len(s))
      <3>1. i - Len(s) \in 1 .. Len(u)
        BY <1>0, <2>2
      <3> QED BY <1>1, <1>2, <2>2, <3>1
    <2> QED BY <2>1, <2>2
  <1> QED BY <1>1, <1>2, <1>3

\* Where the parts of two sequences correspond element by element, their
\* flattenings do.
LEMMA FlattenSeqPairs ==
  ASSUME NEW E, NEW F, NEW ss \in Seq(Seq(E)), NEW tt \in Seq(Seq(F)), NEW R,
         Len(tt) = Len(ss),
         \A p \in 1 .. Len(ss) :
           /\ Len(tt[p]) = Len(ss[p])
           /\ \A i \in 1 .. Len(ss[p]) : <<ss[p][i], tt[p][i]>> \in R
  PROVE  /\ Len(FlattenSeq(tt)) = Len(FlattenSeq(ss))
         /\ \A i \in 1 .. Len(FlattenSeq(ss)) : <<FlattenSeq(ss)[i], FlattenSeq(tt)[i]>> \in R
  <1> DEFINE Alike(s, t) == /\ s \in Seq(E) /\ t \in Seq(F) /\ Len(t) = Len(s)
                            /\ \A i \in 1 .. Len(s) : <<s[i], t[i]>> \in R
  <1>1. CASE Len(ss) = 0
    <2>1. FlattenSeq(ss) = ss /\ FlattenSeq(tt) = tt
      BY <1>1 DEF FlattenSeq
    <2> QED BY <1>1, <2>1
  <1>2. CASE Len(ss) # 0
    <2>1. Len(ss) \in Nat \ {0} /\ \A p \in 1 .. Len(ss) : Alike(ss[p], tt[p])
      BY <1>2
    <2>2. PICK g : IsFlattening(g, ss, Len(ss)) /\ FlattenSeq(ss) = g[Len(ss)]
      BY <2>1, FlattenSeqDef
    <2>3. PICK h : IsFlattening(h, tt, Len(ss)) /\ FlattenSeq(tt) = h[Len(ss)]
      BY <2>1, FlattenSeqDef
    <2>4. \A s, t, u, v : Alike(s, t) /\ Alike(u, v) => Alike(s \o u, t \o v)
      <3> SUFFICES ASSUME NEW s, NEW t, NEW u, NEW v, Alike(s, t), Alike(u, v)
                   PROVE  Alike(s \o u, t \o v)
        BY ZenonT(30)
      <3>1. /\ s \in Seq(E) /\ t \in Seq(F) /\ u \in Seq(E) /\ v \in Seq(F)
            /\ Len(t) = Len(s) /\ Len(v) = Len(u)
            /\ \A i \in 1 .. Len(s) : <<s[i], t[i]>> \in R
            /\ \A i \in 1 .. Len(u) : <<u[i], v[i]>> \in R
        BY Zenon
      <3> HIDE DEF Alike
      <3>2. /\ s \o u \in Seq(E) /\ t \o v \in Seq(F)
            /\ Len(t \o v) = Len(s \o u)
            /\ \A i \in 1 .. Len(s \o u) : <<(s \o u)[i], (t \o v)[i]>> \in R
        BY <3>1, ConcatPairs, Zenon
      <3> QED BY <3>2, Zenon DEF Alike
    <2> DEFINE S == { m \in Nat : m + 1 \in 1 .. Len(ss) => Alike(g[m + 1], h[m + 1]) }
    <2> HIDE DEF Alike
    <2>5. 0 \in S
      BY <2>1, <2>2, <2>3 DEF IsFlattening
    <2>6. ASSUME NEW m \in Nat, m \in S PROVE m + 1 \in S
      <3> SUFFICES ASSUME m + 2 \in 1 .. Len(ss) PROVE Alike(g[m + 2], h[m + 2])
        OBVIOUS
      <3>1. m + 1 \in 1 .. Len(ss) /\ (m + 2) - 1 = m + 1 /\ m + 2 # 1
        BY <2>1
      <3>2. Alike(g[m + 1], h[m + 1]) /\ Alike(ss[m + 2], tt[m + 2])
        BY <2>1, <2>6, <3>1
      <3>3. g[m + 2] = g[m + 1] \o ss[m + 2] /\ h[m + 2] = h[m + 1] \o tt[m + 2]
        BY <2>2, <2>3, <3>1 DEF IsFlattening
      <3> QED BY <2>4, <3>2, <3>3
    <2> HIDE DEF S
    <2>7. Nat \subseteq S
      BY <2>5, <2>6, Induction
    <2>8. Len(ss) - 1 \in S /\ (Len(ss) - 1) + 1 = Len(ss)
      BY <2>1, <2>7
    <2>9. Alike(FlattenSeq(ss), FlattenSeq(tt))
      BY <2>1, <2>2, <2>3, <2>8 DEF S
    <2> QED BY <2>9 DEF Alike
  <1> QED BY <1>1, <1>2, LenProperties

-----------------------------------------------------------------------------
(* Recursive functions over an interval: the equation of such a function   *)
(* has a solution, and what a doubling reaches.                            *)

\* A function whose value at a place depends on its values at later places, on any
\* number of them, is defined by its equation.
LaterStaysIn(from, to, V, F) ==
  \A k \in from .. to : \A g \in [k + 1 .. to -> V] : F[<<k, g>>] \in V

SolvesByLater(f, from, to, V, F) ==
  /\ f \in [from .. to -> V]
  /\ \A k \in from .. to : f[k] = F[<<k, [j \in k + 1 .. to |-> f[j]]>>]

LEMMA CourseOfValues ==
  ASSUME NEW from \in Int, NEW to \in Int, NEW V, NEW F, LaterStaysIn(from, to, V, F)
  PROVE  \E f : SolvesByLater(f, from, to, V, F)
  <1> USE DEF LaterStaysIn
  <1> DEFINE Solves(f, lo) ==
               /\ f \in [lo .. to -> V]
               /\ \A k \in lo .. to : f[k] = F[<<k, [j \in k + 1 .. to |-> f[j]]>>]
             D == { n \in Nat : to - n + 1 >= from => \E f : Solves(f, to - n + 1) }
  <1>0. ASSUME NEW lo \in Int, lo > to PROVE Solves([k \in lo .. to |-> k], lo)
    <2>1. lo .. to = {}
      BY <1>0
    <2> QED BY <2>1
  <1>1. 0 \in D
    <2>1. Solves([k \in to + 1 .. to |-> k], to + 1) /\ to - 0 + 1 = to + 1
      BY <1>0
    <2> HIDE DEF Solves
    <2> QED BY <2>1
  <1>2. ASSUME NEW n \in Nat, n \in D PROVE n + 1 \in D
    <2> SUFFICES ASSUME to - n >= from PROVE \E h : Solves(h, to - n)
      <3>1. to - (n + 1) + 1 = to - n
        OBVIOUS
      <3> HIDE DEF Solves
      <3> QED BY <3>1
    <2> DEFINE lo == to - n
    <2>0. lo \in from .. to /\ lo + 1 = to - n + 1 /\ lo + 1 >= from
      OBVIOUS
    <2>1. PICK g : Solves(g, lo + 1)
      <3> HIDE DEF Solves
      <3> QED BY <1>2, <2>0
    <2> DEFINE x == F[<<lo, g>>]
               h == [k \in lo .. to |-> IF k = lo THEN x ELSE g[k]]
    <2> HIDE DEF lo
    <2>2. x \in V
      BY <2>0, <2>1
    <2>3. h \in [lo .. to -> V]
      <3> SUFFICES ASSUME NEW k \in lo .. to, k # lo PROVE g[k] \in V
        BY <2>2
      <3>1. k \in lo + 1 .. to
        BY <2>0
      <3> QED BY <2>1, <3>1
    <2>4. ASSUME NEW k \in lo .. to PROVE h[k] = F[<<k, [j \in k + 1 .. to |-> h[j]]>>]
      <3>1. \A j \in k + 1 .. to : j \in lo .. to /\ j # lo
        BY <2>0
      <3>2. [j \in k + 1 .. to |-> h[j]] = [j \in k + 1 .. to |-> g[j]]
        BY <3>1
      <3>3. CASE k = lo
        <4>1. [j \in k + 1 .. to |-> g[j]] = g
          BY <2>1, <3>3
        <4>2. h[k] = x
          BY <3>3
        <4> HIDE DEF h
        <4> QED BY <3>2, <3>3, <4>1, <4>2
      <3>4. CASE k # lo
        <4>1. h[k] = g[k] /\ k \in lo + 1 .. to
          BY <2>0, <3>4
        <4>2. g[k] = F[<<k, [j \in k + 1 .. to |-> g[j]]>>]
          BY <2>1, <4>1
        <4> HIDE DEF h
        <4> QED BY <3>2, <4>1, <4>2
      <3> QED BY <3>3, <3>4
    <2>5. Solves(h, lo)
      <3> HIDE DEF h
      <3> QED BY <2>3, <2>4
    <2> QED BY <2>5 DEF lo
  <1>3. Nat \subseteq D
    <2> HIDE DEF D
    <2> QED BY <1>1, <1>2, Induction
  <1>4. \E f : Solves(f, from)
    <2>1. CASE to + 1 >= from
      <3>1. to - from + 1 \in Nat /\ to - (to - from + 1) + 1 = from
        BY <2>1
      <3>2. to - from + 1 \in D
        <4> HIDE DEF D
        <4> QED BY <1>3, <3>1
      <3> HIDE DEF Solves
      <3> QED BY <3>1, <3>2
    <2>2. CASE ~(to + 1 >= from)
      <3>1. from > to
        BY <2>2
      <3> HIDE DEF Solves
      <3> QED BY <1>0, <3>1
    <2> QED BY <2>1, <2>2
  <1> QED BY <1>4 DEF SolvesByLater

\* A function on 0 .. n that goes on from its value one earlier.
SolvesForward(g, n, V, first, F) ==
  /\ g \in [0 .. n -> V]
  /\ \A k \in 0 .. n : g[k] = IF k = 0 THEN first ELSE F[<<k, g[k - 1]>>]

LEMMA ForwardRecursion ==
  ASSUME NEW n \in Nat, NEW V, NEW first \in V, NEW F,
         \A k \in 1 .. n : \A v \in V : F[<<k, v>>] \in V
  PROVE  \E g : SolvesForward(g, n, V, first, F)
  <1> DEFINE Go == 0 .. n - 1
             nxt == [j \in 0 .. n |-> j + 1]
             B == [jv \in (0 .. n) \X V |-> IF jv[1] < n THEN F[<<n - jv[1], jv[2]>>] ELSE first]
             e == [j \in 0 .. n |-> first]
  <1>1. LooksLater(0, n, Go, nxt)
    BY DEF LooksLater
  <1>2. StaysIn(0, n, V, B, e)
    <2> SUFFICES ASSUME NEW j \in 0 .. n, NEW v \in V PROVE B[<<j, v>>] \in V
      BY DEF StaysIn
    <2>1. j < n => n - j \in 1 .. n
      OBVIOUS
    <2> QED BY <2>1
  <1>3. \A j \in 0 .. n : \A v \in V : j < n => B[<<j, v>>] = F[<<n - j, v>>]
    OBVIOUS
  <1>4. \A j \in 0 .. n : e[j] = first /\ nxt[j] = j + 1 /\ (j \in Go <=> j < n)
    OBVIOUS
  <1> HIDE DEF Go, nxt, B, e
  <1>5. PICK g : SolvesDownward(g, 0, n, V, Go, nxt, B, e)
    BY <1>1, <1>2, DownwardRecursion
  <1> DEFINE f == [k \in 0 .. n |-> g[n - k]]
  <1>6. g \in [0 .. n -> V] /\ \A j \in 0 .. n : g[j] = IF j \in Go THEN B[<<j, g[nxt[j]]>>] ELSE e[j]
    BY <1>5 DEF SolvesDownward
  <1>7. f \in [0 .. n -> V]
    BY <1>6
  <1>8. ASSUME NEW k \in 0 .. n PROVE f[k] = IF k = 0 THEN first ELSE F[<<k, f[k - 1]>>]
    <2>1. n - k \in 0 .. n /\ f[k] = g[n - k] /\ n - (n - k) = k /\ (n - k) + 1 = n - (k - 1)
      OBVIOUS
    <2>2. CASE k = 0
      <3>1. n - k \notin Go
        BY <1>4, <2>1, <2>2
      <3> HIDE DEF f
      <3> QED BY <1>4, <1>6, <2>1, <2>2, <3>1
    <2>3. CASE k # 0
      <3>1. n - k < n /\ k - 1 \in 0 .. n /\ f[k - 1] = g[n - (k - 1)] /\ n - (k - 1) \in 0 .. n
        BY <2>3
      <3> HIDE DEF f
      <3>2. g[n - k] = B[<<n - k, g[n - (k - 1)]>>]
        BY <1>4, <1>6, <2>1, <3>1
      <3>3. g[n - (k - 1)] \in V
        BY <1>6, <3>1
      <3>4. B[<<n - k, g[n - (k - 1)]>>] = F[<<n - (n - k), g[n - (k - 1)]>>]
        BY <1>3, <2>1, <3>1, <3>3
      <3> QED BY <2>1, <2>3, <3>1, <3>2, <3>4
    <2> QED BY <2>2, <2>3
  <1> HIDE DEF f
  <1> QED BY <1>7, <1>8 DEF SolvesForward

\* The doubling of a capacity c, as far as a need.
LEMMA DoublingExists ==
  ASSUME NEW need \in Nat
  PROVE  \E g : g = [c \in Nat |-> IF c >= need THEN c ELSE g[2 * c]]
  <1> DEFINE Go == 1 .. need - 1
             to == 2 * need
             nxt == [k \in 1 .. to |-> 2 * k]
  <1>1. LooksLater(1, to, Go, nxt)
    BY DEF LooksLater
  <1>2. PICK h : JumpsTo(h, 1, to, Go, nxt)
    <2> HIDE DEF Go, nxt
    <2> QED BY <1>1, JumpExists
  <1>3. \A k \in 1 .. to : h[k] = IF k \in Go THEN h[nxt[k]] ELSE k
    BY <1>2 DEF JumpsTo
  <1> DEFINE g == [c \in Nat |-> IF c >= need THEN c ELSE IF c = 0 THEN 0 ELSE h[c]]
  <1>4. ASSUME NEW c \in Nat PROVE g[c] = IF c >= need THEN c ELSE g[2 * c]
    <2>1. CASE c >= need
      BY <2>1
    <2>2. CASE c < need /\ c = 0
      BY <2>2
    <2>3. CASE c < need /\ c # 0
      <3>1. c \in 1 .. to /\ c \in Go /\ nxt[c] = 2 * c /\ 2 * c \in 1 .. to /\ 2 * c \in Nat
        BY <2>3
      <3>2. h[c] = h[2 * c] /\ g[c] = h[c]
        BY <1>3, <2>3, <3>1
      <3>3. g[2 * c] = h[2 * c]
        <4>1. CASE 2 * c >= need
          <5>1. ~(2 * c \in Go)
            BY <4>1
          <5>2. h[2 * c] = 2 * c
            BY <1>3, <3>1, <5>1
          <5> QED BY <3>1, <4>1, <5>2
        <4>2. CASE ~(2 * c >= need)
          BY <2>3, <3>1, <4>2
        <4> QED BY <4>1, <4>2
      <3> QED BY <2>3, <3>2, <3>3
    <2> QED BY <2>1, <2>2, <2>3
  <1>5. g = [c \in Nat |-> IF c >= need THEN c ELSE g[2 * c]]
    <2>1. \A c \in Nat : g[c] = IF c >= need THEN c ELSE g[2 * c]
      BY <1>4
    <2>2. DOMAIN g = Nat /\ g = [c \in Nat |-> g[c]]
      OBVIOUS
    <2> HIDE DEF g
    <2> QED BY <2>1, <2>2
  <1> QED BY <1>5

LEMMA DoublingReaches ==
  ASSUME NEW need \in Nat, NEW g, g = [c \in Nat |-> IF c >= need THEN c ELSE g[2 * c]],
         NEW c \in Nat \ {0}
  PROVE  g[c] \in Nat /\ g[c] >= need
  <1> DEFINE S == { k \in Nat : g[k] \in Nat /\ g[k] >= need }
  <1>0. \A k \in Nat : g[k] = IF k >= need THEN k ELSE g[2 * k]
    OBVIOUS
  <1>1. \A k \in Nat : k >= need => k \in S
    BY <1>0
  <1>2. ASSUME NEW k \in 1 .. need, \A j \in k + 1 .. need : j \in S PROVE k \in S
    <2>1. CASE k >= need
      BY <1>1, <2>1
    <2>2. CASE ~(k >= need)
      <3>1. 2 * k \in S
        BY <1>1, <1>2, <2>2
      <3> QED BY <1>0, <2>2, <3>1
    <2> QED BY <2>1, <2>2
  <1> HIDE DEF S
  <1>3. \A k \in 1 .. need : (\A j \in k + 1 .. need : j \in S) => k \in S
    BY <1>2
  <1>4. \A k \in 1 .. need : k \in S
    <2>1. 1 \in Int /\ need \in Int
      OBVIOUS
    <2> QED BY <1>3, <2>1, DownwardInduction, Zenon
  <1>5. c \in S
    BY <1>1, <1>4
  <1> QED BY <1>5 DEF S
=============================================================================
